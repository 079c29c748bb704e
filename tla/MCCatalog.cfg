SPECIFICATION CatalogSpec
CONSTANTS
  a = a
  b = b
  Names = {a, b}
  None = None
  Handlers = {h1, h2}
  MaxRequests = 2
  HomeSections = {a, b}
  Slots <- MCSlots
  FirstRows <- MCFirstRows
SYMMETRY CatalogSymmetry

INVARIANTS
  UniqueByCode
  LevelsAgree
  ProductHasStock
  ApprovedAsRead

PROPERTIES
  InUseStays

CHECK_DEADLOCK FALSE
