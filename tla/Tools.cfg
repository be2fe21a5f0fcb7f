SPECIFICATION ToolsSpec
CONSTANTS
  AgentTurn = {t1, t2}
  MaxIterations = 2
  MaxCalls = 2
  MaxHistory = 2
  Shopper = {t1, t2}
  QboCustomer = {1, 2}
  ReadCall = {r1, r2}
  Nobody = Nobody
  PageSize = 2
  Ledger <- MCLedger
  Credentials <- MCCredentials
  MaxRemaps = 2
  Ingest = {i1, i2}
  Search = {q1, q2}
  MaxChunks = 2
  TopK = 1
  PoolSize = 1
  CallDeadline = 3
  Queries = 3
  MaxPages = 4
  Channels = 2
  Customer = {u1}
  Slot = {s1}
  Turn = {t1, t2}
  VerifiedWindow = 0
  ProvisionalWindow = 0
  MaxStated = 2
  MaxClears = 2
  MaxSweeps = 1
SYMMETRY ToolsSymmetry
INVARIANTS
  TurnsAreIsolated
  FallbackRepeatsNothing
  InvoicesAreScoped
  AnswersAreEarned
  SearchesAreSound
  AnswersInBudget
  MemoryAddsUp
PROPERTY OwnChannelFirst
CHECK_DEADLOCK FALSE
