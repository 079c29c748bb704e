CONSTANTS
  u1 = u1
  o1 = o1
  zibal = zibal
  zarinpal = zarinpal
  h1 = h1
  h2 = h2
  h3 = h3
  NoOrder = NoOrder
  Users = {u1}
  Orders = {o1}
  Opening <- OneUserOpening
  OrderOwner <- OneUserOwns
  WithdrawAmounts = {1}
  MaxWithdraws = 2
  OrderAmounts = {1, 2}
  Gateways = {zibal}
  AdminEdits = TRUE
  TopUpAmounts = {}
  Handlers = {h1, h2}
  MaxDeposits = 1
  MaxOverwritten = 1
  MaxTransactions = 4

SPECIFICATION PaymentSpec
SYMMETRY HandlerSymmetry

INVARIANTS
  PaymentTypeOK
  LockedIsPending
  LedgerReconciles
  WithdrawsMatchTransactions
  CreditBackedByGateway
  GatewayMoneyInThenOut

PROPERTIES
  KeepsPayoutPromise

CHECK_DEADLOCK FALSE
