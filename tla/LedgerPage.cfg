SPECIFICATION ToolsSpec
CONSTANTS
  AgentTurn = {a1}
  MaxIterations = 2
  MaxCalls = 1
  MaxHistory = 2
  Shopper = {g1, g2}
  QboCustomer = {1, 2}
  ReadCall = {r1, r2}
  Nobody = Nobody
  PageSize = 2
  Ledger <- MCLedger
  Credentials <- MCCredentials
  MaxRemaps = 2
  Ingest = {i1}
  Search = {q1}
  MaxChunks = 2
  TopK = 1
  PoolSize = 1
  CallDeadline = 3
  Queries = 3
  MaxPages = 4
  Channels = 1
  Customer = {u1}
  Slot = {s1}
  Turn = {t1}
  VerifiedWindow = 1
  ProvisionalWindow = 0
  MaxStated = 1
  MaxClears = 0
  MaxSweeps = 0
INVARIANT SummaryCoversTheLedger
CHECK_DEADLOCK FALSE
