SPECIFICATION LiveSpec
CONSTANTS
  sms = sms
  email = email
  JobId = {j1}
  TurnWorker = {t1}
  Route = {r1}
  Event = {sms}
  Kind <- MCKind
  Reply = {"text"}
  MaxAttempts <- MCMaxAttempts
  Backoff <- MCBackoff
  LeaseSeconds = 1
  MaxTime = 100
  MaxReplays = 1
  MaxRouteCalls = 1
  NULL = NULL
PROPERTIES
  EveryTurnIsAnswered
  EveryJobSettles
