CONSTANTS
  Dimension = 2
  Infinity = 1000
  Variant = "rstar"
  IndexCapacity = 5
  LeafCapacity = 4
  FillFactor <- SevenTenths
  SplitDistributionFactor <- Half
  ReinsertFactor <- ThreeTenths
  NearMinimumOverlapFactor = 2
  TightMBRs = TRUE
  Object <- GridObjects
  Orders <- GridOrders
  MaxDeletes = 2
  LateDeletes = 1
SPECIFICATION Spec
INVARIANTS
  TreeWellFormed
  ReinsertionReachesItsLevel
  IndexIsValid
PROPERTIES
  EveryCallReturns
