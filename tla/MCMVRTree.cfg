CONSTANTS
  Dimension = 2
  Infinity = 5000
  Variant = "rstar"
  IndexCapacity = 10
  LeafCapacity = 10
  FillFactor <- TwoFifths
  SplitDistributionFactor <- Half
  ReinsertFactor <- ThreeTenths
  NearMinimumOverlapFactor = 6
  StrongVersionOverflow <- FourFifths
  VersionUnderflow <- ThreeTenths
  TightMBRs = TRUE
  Script <- Scripts
  Query <- Questions
SPECIFICATION Spec
CHECK_DEADLOCK FALSE
INVARIANTS
  TreeWellFormed
  SlicesExact
  IndexIsValid
  LiveNodesKeepEnough
  StatisticsAgree
PROPERTY
  PastIsFrozen
