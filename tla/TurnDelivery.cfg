SPECIFICATION Spec
CONSTANTS
  sms = sms
  email = email
  JobId = {j1}
  TurnWorker = {t1, t2}
  Route = {r1}
  Event = {sms, email}
  Kind <- MCKind
  Reply = {"text"}
  MaxAttempts <- MCMaxAttempts
  Backoff <- MCBackoff
  LeaseSeconds = 1
  MaxTime = 4
  MaxReplays = 1
  MaxRouteCalls = 1
  NULL = NULL
SYMMETRY WorkerSymmetry
INVARIANTS
  NoSilentLoss
PROPERTIES
  ImplementsQueue
  ImplementsSendRecord
