SPECIFICATION AccountsSpec
CONSTANTS
  Ids = {u1, u2}
  NoUser = NoUser
  Mobiles = {m1}
  Clients = {c1, c2}
  Admins = {a1}
  NoToken = NoToken
  Seconds = {s1}
  MaxTokens = 2
  MaxCodes = 1
  MaxEdits = 2
  MaxClock = 2
SYMMETRY AccountsSymmetry

INVARIANTS
  AccountComplete
  RightsEndUnlessReopened
  SessionKept

CHECK_DEADLOCK FALSE
