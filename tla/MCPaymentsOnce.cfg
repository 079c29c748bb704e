CONSTANTS
  u1 = u1
  o1 = o1
  zibal = zibal
  zarinpal = zarinpal
  h1 = h1
  h2 = h2
  h3 = h3
  NoOrder = NoOrder
  Users = {u1}
  Orders = {o1}
  Opening <- OneUserOpening
  OrderOwner <- OneUserOwns
  WithdrawAmounts = {1}
  MaxWithdraws = 0
  OrderAmounts = {1}
  Gateways = {zibal}
  AdminEdits = FALSE
  TopUpAmounts = {1}
  Handlers = {h1, h2}
  MaxDeposits = 2
  MaxOverwritten = 1
  MaxTransactions = 8

SPECIFICATION PaymentFairSpec

INVARIANTS
  SettledOnceUnlessOverwritten
  CreditPaidOnce

PROPERTIES
  RetriedCallbackRecovers

CHECK_DEADLOCK FALSE
