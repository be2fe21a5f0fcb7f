SPECIFICATION WorkbenchSpec
CONSTANTS
  CaseId = {k1, k2}
  Thread = {t}
  Account = {a1, a2}
  Process = {g1, g2}
  Desk = {d1}
  MaxTurns = 2
  MaxTexts = 2
  MaxAudit = 3
  NULL = NULL
  AccountId = {n1, n2}
  Username = {u}
  Role = {staff, admin}
  Login = {l1, l2}
  MaxFailedAttempts = 2
  Lockout = 2
  MaxWrong = 5
  MaxAdminLog = 3
  MaxNow = 4
  PolicySlot = {p1}
  Run = {r1, r2, r3}
  Rollback = {b1, b2}
  MaxText = 2
  MaxBegun = 3
  Draft = {w1, w2}
  ExperienceId = {e1, e2}
  InjectionLimit = 1
  MaxRestarts = 1
  Integrations = 2
  Toolkits = 1
  Cycle = {c1}
  AdminCall = {m1}
  Retention = 1
  MaxDay = 2
SYMMETRY WorkbenchSymmetry
INVARIANTS
  OneOpenCasePerThread
  AuditAccountsForTheCase
  NoSilentSteal
  RecordedSendsWereSent
  PublicationsAddUp
  ReviewsAreSound
  LessonsAreDecided
  ProbesAreHonest
  AccountsAddUp
PROPERTIES
  WindowIsServed
CHECK_DEADLOCK FALSE
