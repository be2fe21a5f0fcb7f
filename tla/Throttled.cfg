SPECIFICATION Spec
CONSTANTS
  m1 = m1
  m2 = m2
  stop = stop
  Process = {g1}
  Event = {m1, m2}
  Kind <- MCKind
  Phone <- MCPhone
  Limit = 1
  Window = 1
  MaxTime = 1
  NULL = NULL
INVARIANTS
  ThrottledIsPersisted
