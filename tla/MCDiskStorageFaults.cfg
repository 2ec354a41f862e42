CONSTANTS
  v1 = v1
  Val = {v1}
  v2 = v2
  Length = {2, 3}
  PageSize = 2
  MaxPages = 3
  Faults = {"io", "restart"}
  Nothing = Nothing
SPECIFICATION Spec
INVARIANTS
  IndexTableSound
  UntouchedEntitiesSurviveCrash
PROPERTY
  NewIdentifiersAreFresh
