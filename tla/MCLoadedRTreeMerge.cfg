CONSTANTS
  Dimension = 2
  Infinity = 1000
  Variant = "linear"
  IndexCapacity = 4
  LeafCapacity = 4
  FillFactor <- Half
  SplitDistributionFactor <- TwoFifths
  ReinsertFactor <- ThreeTenths
  NearMinimumOverlapFactor = 4
  TightMBRs = TRUE
  PageRecords = 2
  BufferPages = 2
  Object <- MCObject
  Orders <- MCOrders
  MaxDeletes = 1
  LateDeletes = 0
  LoadSizes = {3, 12, 16}
  Queries <- MCQueries
  QueryWhen = {0}
SPECIFICATION LoadedSpec
INVARIANT
  MergeSorts
