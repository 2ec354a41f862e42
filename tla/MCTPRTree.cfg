CONSTANTS
  Dimension = 2
  Forever = 1000
  IndexCapacity = 4
  LeafCapacity = 4
  FillFactor <- Half
  SplitDistributionFactor <- TwoFifths
  NearMinimumOverlapFactor = 2
  Scale = 2
  Horizon = 4
  Motion <- Cars
  Script <- Scripts
  MaxTime = 2
  Query <- Questions
SPECIFICATION Spec
CHECK_DEADLOCK FALSE
INVARIANTS
  TreeWellFormed
  BoxesBoundTheFuture
  IndexIsValid
  IntersectionQueriesExact
PROPERTY
  ImplementsSpatialIndex
