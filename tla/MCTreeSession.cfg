CONSTANTS
  MaxDouble <- MCMaxDouble
  Nullptr <- MCNullptr
  Entity <- MCEntity
  Names <- MCNames
  Sample <- MCSample
  Setting <- MCSetting
  NewTree <- MCNewTree
  DataOf <- MCDataOf
  MaxEntries = 2
  MaxObjects = 2
  MaxSettings = 1
  MaxSessions = 2
SPECIFICATION SessionSpec
INVARIANTS
  StackIsTheHoles
  ObjectsReadBack
  ClosedIndexIsComplete
  ParametersFitThePages
  ReportIsFaithful
  PagesTileTheResult
PROPERTY
  StoresAsPromised
CHECK_DEADLOCK FALSE
