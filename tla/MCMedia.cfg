CONSTANTS
  p = p
  q = q
  h1 = h1
  NoRow = NoRow
  Cron = Cron
  Assets = {p, q}
  Handlers = {h1}
  Quota = 1
  Calm = {p}
  MaxDates = 3

SPECIFICATION MediaFairSpec

INVARIANTS
  FileWhereRowSays
  UsedIsApproved

PROPERTIES
  UsedIsKept
  ExpiredIsCollected

CHECK_DEADLOCK FALSE
