CONSTANTS
  e1 = e1
  e2 = e2
  Entity <- MCEntity
  Id = {0, 1, 2, 3}
  Absent = Absent
  Capacity = 2
  WriteThrough = FALSE
  AnyIdentifier = FALSE
SPECIFICATION Spec
INVARIANTS
  BufferIsCoherent
  CapacityRespected
PROPERTY
  ImplementsPageStore
