SPECIFICATION MemorySpec
CONSTANTS
  Channels = 2
  Customer = {u1}
  Slot = {s1, s2}
  Turn = {t1, t2}
  VerifiedWindow = 1
  ProvisionalWindow = 0
  MaxStated = 2
  MaxClears = 2
  MaxSweeps = 1
INVARIANT NothingStatedIsLost
CHECK_DEADLOCK FALSE
