SPECIFICATION LiveSpec
CONSTANTS
  m1 = m1
  m2 = m2
  stop = stop
  Process = {g1, g2}
  Event = {m1, stop}
  Kind <- MCKind
  Phone <- MCPhone
  Limit = 1
  Window = 1
  MaxTime = 1
  NULL = NULL
INVARIANTS
  OneJobPerEvent
  AckedIsDurable
  OneConfirmation
  ClaimOwnsTheSend
PROPERTIES
  EveryMessageIsHandled
