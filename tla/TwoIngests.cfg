SPECIFICATION Spec
CONSTANTS
  JobId = {j1}
  Payload = {p}
  TurnWorker = {}
  BackgroundWorker = {b1, b2}
  EnqueuedType = {"ingest"}
  MaxAttempts <- MCMaxAttempts
  Backoff <- MCBackoff
  LeaseSeconds = 2
  Interval <- NoInterval
  MaxTime = 4
  MaxReplays = 1
  NULL = NULL
INVARIANTS
  OneIngestAtATime
