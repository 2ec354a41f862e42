CONSTANTS
  e1 = e1
  e2 = e2
  Entity <- MCEntity
  Id = {0, 1, 2}
  Absent = Absent
  Unknown = Unknown
  Capacity = 2
  WriteThrough = FALSE
  AnyIdentifier = FALSE
  HeaderId = 0
SPECIFICATION MCSpec
INVARIANTS
  FlushedPagesSurviveCrash
  ThroughHoldsNothingBack
