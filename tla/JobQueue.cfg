SPECIFICATION Spec
CONSTANTS
  JobId = {j1, j2}
  Payload = {p}
  TurnWorker = {t1, t2}
  BackgroundWorker = {b1}
  EnqueuedType = {"agent_turn"}
  MaxAttempts <- MCMaxAttempts
  Backoff <- MCBackoff
  LeaseSeconds = 1
  Interval <- MCInterval
  MaxTime = 4
  MaxReplays = 1
  NULL = NULL
SYMMETRY Symmetry
INVARIANTS
  AttemptsAccounted
  FenceAdmitsOnlyTheHolder
  HolderOrExpired
  ClaimIsolation
PROPERTIES
  SettlementIsFenced
