CONSTANTS
  v1 = v1
  v2 = v2
  Val <- MCVal
  Length = {2, 3}
  PageSize = 2
  MaxPages = 4
  Faults = {}
  Nothing = Nothing
SPECIFICATION Spec
INVARIANT
  NoPageIsLost
PROPERTY
  ImplementsPageStore
