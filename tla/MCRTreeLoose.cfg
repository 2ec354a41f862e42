CONSTANTS
  Dimension = 2
  Infinity = 1000
  Variant = "quadratic"
  IndexCapacity = 4
  LeafCapacity = 4
  FillFactor <- Half
  SplitDistributionFactor <- TwoFifths
  ReinsertFactor <- ThreeTenths
  NearMinimumOverlapFactor = 4
  TightMBRs = FALSE
  Object <- TwiceObjects
  Orders <- TwiceOrder
  MaxDeletes = 2
  LateDeletes = 2
SPECIFICATION Spec
INVARIANTS
  LooseIndexIsSound
PROPERTIES
  ImplementsSpatialIndex
