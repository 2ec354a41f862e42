CONSTANTS
  Dimension = 2
  Infinity = 1000
  Variant = "quadratic"
  IndexCapacity = 4
  LeafCapacity = 4
  FillFactor <- TwoFifths
  SplitDistributionFactor <- TwoFifths
  ReinsertFactor <- ThreeTenths
  NearMinimumOverlapFactor = 2
  TightMBRs = TRUE
  Object <- CrossObjects
  Orders <- CrossOrders
  MaxDeletes = 5
  LateDeletes = 0
SPECIFICATION Spec
INVARIANTS
  IndexIsValid
