SPECIFICATION ResourcesSpec
CONSTANTS
  u1 = u1
  u2 = u2
  d1 = d1
  d2 = d2
  d3 = d3
  o1 = o1
  w1 = w1
  Users = {u1, u2}
  Amount <- OneEach
  Opening <- OneWalletMissing
  NoWallet = NoWallet
  Deposits = {d1, d2, d3}
  Orders = {o1}
  Withdraws = {w1}
  Owner <- Owners
  NoOrder = NoOrder
  OrderOf <- OneForAnOrder
  Requests = {1, 2, 3}
  Mixes <- ThreeOfMenu
  NoRequest = NoRequest
  NoView = NoView
  PoolSize = 2
  Operations = {f1, f2}
  NoClient = NoClient
  NoOne = NoOne
  MaxFaults = 3
  MaxClients = 7

INVARIANTS
  LogIsChained
  BeforeWasHeld
  EffectOnce
  HealsAlone

PROPERTIES
  EndsUnlessStarved
  OperationsEnd

CHECK_DEADLOCK FALSE
