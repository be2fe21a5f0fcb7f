-------------------------- MODULE WorkbenchProofs --------------------------
(***************************************************************************)
(* Proofs about the workbench side: accounts and their lockout ladder,     *)
(* policy slots under review, what the copilot learns, and integration     *)
(* health.  Each part has a specification and an inductive invariant of    *)
(* its own; the parts share no state.                                      *)
(***************************************************************************)
EXTENDS Accounts, PolicyReview, CopilotLearning, IntegrationProbe,
        FiniteSetTheorems, WellFoundedInduction, TLAPS

(***************************************************************************)
(* Accounts                                                                *)
(***************************************************************************)
AccountRow == [username: Username, role: Role, status: {"active", "disabled"},
               failed: Nat, locked: Nat]

AdminEntry ==
  [action: {"create_account", "update_account_role"}, id: AccountId, role: Role]
    \cup [action: {"disable_account"}, id: AccountId]

LoginState ==
  {[at |-> "idle"]} \cup [at: {"verify"}, id: AccountId, since: Nat, saw: Nat]

AccountsTyped ==
  /\ Enrolled \subseteq AccountId
  /\ account \in [Enrolled -> AccountRow]
  /\ wrong \in [AccountId -> Nat]
  /\ dbNow \in Nat
  /\ adminLog \in Seq(AdminEntry)
  /\ login \in [Login -> LoginState]

\* A login that verifies a password read an account whose window was over.
LoginOK(l) ==
  login[l].at = "verify" =>
    /\ login[l].id \in Enrolled
    /\ login[l].saw <= login[l].since
    /\ login[l].since <= dbNow

LadderOf(i) ==
  /\ account[i].failed = wrong[i] % MaxFailedAttempts
  /\ (account[i].locked > 0) <=> (wrong[i] >= MaxFailedAttempts)

\* What the audit log says of one account.
LogOf(i) ==
  /\ (EntriesOn(i) # {}) <=> (i \in Enrolled)
  /\ i \in Enrolled =>
       /\ \E c \in EntriesOn(i) : Creations(i) = {c} /\ \A k \in EntriesOn(i) : c <= k
       /\ \E g \in Grants(i) : /\ account[i].role = adminLog[g].role
                               /\ \A k \in Grants(i) : k <= g
       /\ (account[i].status = "disabled")
            <=> \E k \in EntriesOn(i) : adminLog[k].action = "disable_account"

NamesUnique ==
  \A i, j \in Enrolled : account[i].username = account[j].username => i = j

AccountsInv ==
  /\ AccountsTyped
  /\ \A l \in Login : LoginOK(l)
  /\ \A i \in Enrolled : LadderOf(i)
  /\ \A i \in AccountId : LogOf(i)
  /\ NamesUnique

\* Counting one more wrong password modulo the threshold.
LEMMA ModStep ==
  ASSUME NEW m \in Nat \ {0}, NEW n \in Nat
  PROVE  (n + 1) % m = IF (n % m) + 1 >= m THEN 0 ELSE (n % m) + 1
<1> DEFINE q == n \div m
           r == n % m
           p == (n + 1) \div m
           s == (n + 1) % m
<1>1. q \in Nat /\ r \in 0..(m - 1) /\ p \in Nat /\ s \in 0..(m - 1)
  OBVIOUS
<1>2. n = m * q + r /\ n + 1 = m * p + s
  OBVIOUS
<1> HIDE DEF q, r, p, s
<1>3. m * p + s = m * q + r + 1 /\ m * q \in Nat /\ m * p \in Nat
  BY <1>1, <1>2
<1>4. CASE p = q
  BY <1>1, <1>3, <1>4 DEF r, s
<1>5. CASE p = q + 1
  <2>1. m * p = m * q + m
    BY <1>1, <1>5
  <2>2. s + m = r + 1
    BY <1>1, <1>3, <2>1
  <2> QED
    BY <1>1, <2>2 DEF r, s
<1>6. CASE p > q + 1
  <2>1. PICK d \in Nat : p = q + 2 + d
    <3>1. p - q - 2 \in Nat
      BY <1>1, <1>6
    <3> QED
      BY <1>1, <3>1
  <2>2. m * p = m * q + 2 * m + m * d /\ m * d \in Nat
    BY <1>1, <2>1
  <2> QED
    BY <1>1, <1>3, <2>2
<1>7. CASE p < q
  <2>1. PICK d \in Nat : q = p + 1 + d
    <3>1. q - p - 1 \in Nat
      BY <1>1, <1>7
    <3> QED
      BY <1>1, <3>1
  <2>2. m * q = m * p + m + m * d /\ m * d \in Nat
    BY <1>1, <2>1
  <2> QED
    BY <1>1, <1>3, <2>2
<1> QED
  BY <1>1, <1>4, <1>5, <1>6, <1>7

\* One wrong password on a typed account row: one rung, or a window.
LEMMA ClimbedRow ==
  ASSUME NEW row \in AccountRow, NEW since \in Nat
  PROVE  /\ Climbed(row, since) \in AccountRow
         /\ Climbed(row, since).username = row.username
         /\ Climbed(row, since).role = row.role
         /\ Climbed(row, since).status = row.status
         /\ Climbed(row, since).failed = IF row.failed + 1 >= MaxFailedAttempts
                                    THEN 0 ELSE row.failed + 1
         /\ Climbed(row, since).locked = IF row.failed + 1 >= MaxFailedAttempts
                                    THEN since + Lockout ELSE row.locked
<1>1. /\ row = [username |-> row.username, role |-> row.role, status |-> row.status,
                failed |-> row.failed, locked |-> row.locked]
      /\ row.username \in Username /\ row.role \in Role
      /\ row.status \in {"active", "disabled"} /\ row.failed \in Nat /\ row.locked \in Nat
  BY DEF AccountRow
<1>2. since + Lockout \in Nat
  BY AccountsAssumption
<1>3. CASE row.failed + 1 >= MaxFailedAttempts
  <2>1. Climbed(row, since) = [username |-> row.username, role |-> row.role, status |-> row.status,
                        failed |-> 0, locked |-> since + Lockout]
    BY <1>1, <1>3 DEF Climbed
  <2> QED
    BY <1>1, <1>2, <1>3, <2>1 DEF AccountRow
<1>4. CASE ~(row.failed + 1 >= MaxFailedAttempts)
  <2>1. Climbed(row, since) = [username |-> row.username, role |-> row.role, status |-> row.status,
                        failed |-> row.failed + 1, locked |-> row.locked]
    BY <1>1, <1>4 DEF Climbed
  <2> QED
    BY <1>1, <1>4, <2>1 DEF AccountRow
<1> QED
  BY <1>3, <1>4

\* The ladder climbs by exactly one wrong password.
LEMMA LadderClimbs ==
  ASSUME NEW failed \in Nat, NEW locked \in Nat, NEW n \in Nat, NEW t \in Nat,
         failed = n % MaxFailedAttempts,
         (locked > 0) <=> (n >= MaxFailedAttempts),
         NEW f \in Nat, f = IF failed + 1 >= MaxFailedAttempts THEN 0 ELSE failed + 1,
         NEW k \in Nat, k = IF failed + 1 >= MaxFailedAttempts THEN t + Lockout ELSE locked
  PROVE  /\ f = (n + 1) % MaxFailedAttempts
         /\ (k > 0) <=> (n + 1 >= MaxFailedAttempts)
<1>0. MaxFailedAttempts \in Nat \ {0} /\ Lockout \in Nat \ {0}
  BY AccountsAssumption
<1>1. f = (n + 1) % MaxFailedAttempts
  BY <1>0, ModStep
<1>2. failed <= n
  <2>1. n % MaxFailedAttempts <= n
    BY <1>0
  <2> QED
    BY <2>1
<1>3. n < MaxFailedAttempts => failed = n
  <2>1. n < MaxFailedAttempts => n % MaxFailedAttempts = n
    BY <1>0
  <2> QED
    BY <2>1
<1>4. CASE failed + 1 >= MaxFailedAttempts
  <2>1. k = t + Lockout
    BY <1>4
  <2>2. k > 0
    BY <1>0, <2>1
  <2>3. n + 1 >= MaxFailedAttempts
    BY <1>0, <1>2, <1>4
  <2> QED
    BY <1>1, <2>2, <2>3
<1>5. CASE ~(failed + 1 >= MaxFailedAttempts)
  <2>1. k = locked
    BY <1>5
  <2>2. n + 1 # MaxFailedAttempts
    BY <1>0, <1>3, <1>5
  <2>3. (n + 1 >= MaxFailedAttempts) <=> (n >= MaxFailedAttempts)
    BY <1>0, <2>2
  <2> QED
    BY <1>1, <2>1, <2>3
<1> QED
  BY <1>4, <1>5

\* A login is idle, or it verifies the password of an account it read.
LEMMA LoginTyped ==
  ASSUME AccountsTyped, NEW l \in Login
  PROVE  /\ login[l].at = "verify" =>
              login[l].id \in AccountId /\ login[l].since \in Nat /\ login[l].saw \in Nat
         /\ login[l].at \in {"idle", "verify"}
BY DEF AccountsTyped, LoginState

\* A login that goes on verifying keeps what it read.
LEMMA LoginFrame ==
  ASSUME AccountsInv, NEW l \in Login, login'[l] = login[l], dbNow' \in Nat, dbNow <= dbNow',
         Enrolled \subseteq Enrolled'
  PROVE  LoginOK(l)'
<1> SUFFICES ASSUME login[l].at = "verify"
             PROVE  /\ login[l].id \in Enrolled'
                    /\ login[l].saw <= login[l].since
                    /\ login[l].since <= dbNow'
  BY DEF LoginOK
<1>1. /\ login[l].id \in Enrolled /\ login[l].saw <= login[l].since
      /\ login[l].since <= dbNow /\ login[l].since \in Nat /\ dbNow \in Nat
  BY LoginTyped DEF AccountsInv, LoginOK, AccountsTyped
<1> QED
  BY <1>1

\* An account nobody writes about keeps its log; its ladder may move.
LEMMA LogFrame ==
  ASSUME NEW i \in AccountId, LogOf(i),
         EntriesOn(i)' = EntriesOn(i),
         \A k \in EntriesOn(i) : adminLog'[k] = adminLog[k],
         i \in Enrolled' <=> i \in Enrolled,
         i \in Enrolled => /\ account'[i].role = account[i].role
                           /\ account'[i].status = account[i].status
  PROVE  LogOf(i)'
<1>1. Creations(i)' = Creations(i) /\ Grants(i)' = Grants(i)
  BY DEF Creations, Grants
<1>2. Grants(i) \subseteq EntriesOn(i)
  BY DEF Grants
<1> QED
  BY <1>1, <1>2 DEF LogOf

\* An appended entry is the last on its own account and on no other.
LEMMA EntryAppended ==
  ASSUME AccountsTyped, NEW e \in AdminEntry, adminLog' = Append(adminLog, e),
         NEW i \in AccountId
  PROVE  /\ i # e.id => EntriesOn(i)' = EntriesOn(i)
         /\ i = e.id => EntriesOn(i)' = EntriesOn(i) \cup {Len(adminLog) + 1}
         /\ \A k \in EntriesOn(i) : adminLog'[k] = adminLog[k] /\ k <= Len(adminLog)
         /\ adminLog'[Len(adminLog) + 1] = e
         /\ Len(adminLog) + 1 \notin EntriesOn(i)
         /\ Len(adminLog) \in Nat /\ EntriesOn(i) \subseteq Nat
<1>1. /\ DOMAIN adminLog = 1..Len(adminLog) /\ Len(adminLog) \in Nat
      /\ DOMAIN adminLog' = 1..(Len(adminLog) + 1)
      /\ \A k \in 1..Len(adminLog) : adminLog'[k] = adminLog[k]
      /\ adminLog'[Len(adminLog) + 1] = e
  BY DEF AccountsTyped
<1> QED
  BY <1>1 DEF EntriesOn

\* An UPDATE of one row leaves the others alone.
LEMMA RowWritten ==
  ASSUME AccountsTyped, NEW id \in Enrolled, NEW row \in AccountRow,
         account' = [account EXCEPT ![id] = row]
  PROVE  /\ Enrolled' = Enrolled
         /\ account' \in [Enrolled' -> AccountRow]
         /\ account'[id] = row
         /\ \A i \in Enrolled : i # id => account'[i] = account[i]
BY DEF AccountsTyped, Enrolled

\* The columns of the administrator's and the login's UPDATE.
LEMMA RowUpdates ==
  ASSUME NEW row \in AccountRow, NEW role \in Role
  PROVE  /\ [row EXCEPT !.role = role] \in AccountRow
         /\ [row EXCEPT !.role = role].role = role
         /\ [row EXCEPT !.role = role].username = row.username
         /\ [row EXCEPT !.role = role].status = row.status
         /\ [row EXCEPT !.role = role].failed = row.failed
         /\ [row EXCEPT !.role = role].locked = row.locked
BY DEF AccountRow

LEMMA RowDisabled ==
  ASSUME NEW row \in AccountRow
  PROVE  /\ [row EXCEPT !.status = "disabled"] \in AccountRow
         /\ [row EXCEPT !.status = "disabled"].role = row.role
         /\ [row EXCEPT !.status = "disabled"].username = row.username
         /\ [row EXCEPT !.status = "disabled"].status = "disabled"
         /\ [row EXCEPT !.status = "disabled"].failed = row.failed
         /\ [row EXCEPT !.status = "disabled"].locked = row.locked
BY DEF AccountRow

LEMMA RowLoggedIn ==
  ASSUME NEW row \in AccountRow
  PROVE  /\ [row EXCEPT !.failed = 0, !.locked = 0] \in AccountRow
         /\ [row EXCEPT !.failed = 0, !.locked = 0].role = row.role
         /\ [row EXCEPT !.failed = 0, !.locked = 0].username = row.username
         /\ [row EXCEPT !.failed = 0, !.locked = 0].status = row.status
         /\ [row EXCEPT !.failed = 0, !.locked = 0].failed = 0
         /\ [row EXCEPT !.failed = 0, !.locked = 0].locked = 0
BY DEF AccountRow

\* create_account: a first entry for a new account.
LEMMA CreateStep ==
  ASSUME AccountsInv, NEW id \in AccountId, NEW name \in Username, NEW role \in Role,
         create_account(id, name, role)
  PROVE  AccountsInv'
<1> DEFINE e == [action |-> "create_account", id |-> id, role |-> role]
           row == NewAccount(name, role)
<1>0. AccountsTyped
  BY DEF AccountsInv
<1>1. /\ id \notin Enrolled /\ ~NameTaken(name)
      /\ account' = [i \in Enrolled \cup {id} |-> IF i = id THEN row ELSE account[i]]
      /\ wrong' = [wrong EXCEPT ![id] = 0]
      /\ adminLog' = Append(adminLog, e)
      /\ login' = login /\ dbNow' = dbNow
  BY DEF create_account, LogAdmin
<1>2. e \in AdminEntry /\ e.id = id /\ e.role = role /\ e.action = "create_account"
  BY DEF AdminEntry
<1>3. row \in AccountRow /\ row.username = name /\ row.role = role /\ row.status = "active"
      /\ row.failed = 0 /\ row.locked = 0
  BY DEF NewAccount, AccountRow
<1> HIDE DEF e, row
<1>4. Enrolled' = Enrolled \cup {id}
  BY <1>1 DEF Enrolled
<1>5. account'[id] = row /\ \A i \in Enrolled : account'[i] = account[i] /\ i # id
  BY <1>1, <1>4
<1>6. AccountsTyped'
  <2>1. account' \in [Enrolled' -> AccountRow]
    BY <1>0, <1>1, <1>3, <1>4 DEF AccountsTyped
  <2>2. adminLog' \in Seq(AdminEntry)
    BY <1>0, <1>1, <1>2 DEF AccountsTyped
  <2> QED
    BY <1>0, <1>1, <1>4, <2>1, <2>2 DEF AccountsTyped
<1>7. \A l \in Login : LoginOK(l)'
  BY <1>0, <1>1, <1>4, <1>5, LoginFrame DEF AccountsTyped
<1>8. ASSUME NEW i \in Enrolled'
      PROVE  LadderOf(i)'
  <2>1. CASE i = id
    <3>1. wrong'[id] = 0 /\ 0 % MaxFailedAttempts = 0 /\ ~(0 >= MaxFailedAttempts)
      BY <1>0, <1>1, AccountsAssumption DEF AccountsTyped
    <3> QED
      BY <1>3, <1>5, <2>1, <3>1 DEF LadderOf
  <2>2. CASE i # id
    <3>1. wrong'[i] = wrong[i] /\ account'[i] = account[i] /\ LadderOf(i)
      BY <1>0, <1>1, <1>4, <1>5, <2>2 DEF AccountsTyped, AccountsInv
    <3> QED
      BY <3>1 DEF LadderOf
  <2> QED
    BY <2>1, <2>2
<1>9. ASSUME NEW i \in AccountId
      PROVE  LogOf(i)'
  <2>0. LogOf(i)
    BY DEF AccountsInv
  <2>1. CASE i = id
    <3>1. EntriesOn(i) = {}
      BY <1>1, <2>0, <2>1 DEF LogOf
    <3>2. EntriesOn(i)' = {Len(adminLog) + 1} /\ adminLog'[Len(adminLog) + 1] = e
          /\ Len(adminLog) + 1 \in Nat
      BY <1>0, <1>1, <1>2, <2>1, <3>1, EntryAppended
    <3>3. Creations(i)' = {Len(adminLog) + 1} /\ Grants(i)' = {Len(adminLog) + 1}
      BY <1>2, <3>2 DEF Creations, Grants
    <3>4. account'[i].role = role /\ account'[i].status = "active" /\ i \in Enrolled'
      BY <1>3, <1>4, <1>5, <2>1
    <3> QED
      BY <1>2, <3>2, <3>3, <3>4 DEF LogOf
  <2>2. CASE i # id
    <3>1. EntriesOn(i)' = EntriesOn(i) /\ \A k \in EntriesOn(i) : adminLog'[k] = adminLog[k]
      BY <1>0, <1>1, <1>2, <2>2, EntryAppended
    <3> QED
      BY <1>4, <1>5, <2>0, <2>2, <3>1, LogFrame
  <2> QED
    BY <2>1, <2>2
<1>10. NamesUnique'
  <2>1. \A i \in Enrolled : account[i].username # name
    BY <1>1 DEF NameTaken
  <2> QED
    BY <1>3, <1>4, <1>5, <2>1 DEF NamesUnique, AccountsInv
<1> QED
  BY <1>6, <1>7, <1>8, <1>9, <1>10 DEF AccountsInv

\* A write of one account's row keeps the invariant if it does so for that
\* account.
LEMMA OneAccount ==
  ASSUME AccountsInv, NEW id \in Enrolled, NEW row \in AccountRow,
         account' = [account EXCEPT ![id] = row],
         row.username = account[id].username,
         dbNow' = dbNow,
         wrong' \in [AccountId -> Nat], \A i \in AccountId : i # id => wrong'[i] = wrong[i],
         LadderOf(id)',
         login' \in [Login -> LoginState],
         \A l \in Login : login'[l] = login[l] \/ login'[l].at = "idle",
         adminLog' \in Seq(AdminEntry),
         LogOf(id)',
         \A i \in AccountId : i # id =>
           EntriesOn(i)' = EntriesOn(i) /\ \A k \in EntriesOn(i) : adminLog'[k] = adminLog[k]
  PROVE  AccountsInv'
<1>0. AccountsTyped
  BY DEF AccountsInv
<1>1. /\ Enrolled' = Enrolled
      /\ account' \in [Enrolled' -> AccountRow]
      /\ account'[id] = row
      /\ \A i \in Enrolled : i # id => account'[i] = account[i]
  BY <1>0, RowWritten
<1>2. AccountsTyped'
  BY <1>0, <1>1 DEF AccountsTyped
<1>3. ASSUME NEW l \in Login PROVE LoginOK(l)'
  <2>1. CASE login'[l] = login[l]
    BY <1>0, <1>1, <2>1, LoginFrame DEF AccountsTyped
  <2>2. CASE login'[l].at = "idle"
    BY <2>2 DEF LoginOK
  <2> QED
    BY <2>1, <2>2
<1>4. ASSUME NEW i \in Enrolled', i # id PROVE LadderOf(i)'
  <2>1. wrong'[i] = wrong[i] /\ account'[i] = account[i] /\ LadderOf(i)
    BY <1>0, <1>1, <1>4 DEF AccountsTyped, AccountsInv
  <2> QED
    BY <2>1 DEF LadderOf
<1>5. ASSUME NEW i \in AccountId, i # id PROVE LogOf(i)'
  <2>1. LogOf(i)
    BY DEF AccountsInv
  <2> QED
    BY <1>1, <1>5, <2>1, LogFrame
<1>6. NamesUnique'
  <2>1. \A i \in Enrolled : account'[i].username = account[i].username
    BY <1>1
  <2> QED
    BY <1>1, <2>1 DEF NamesUnique, AccountsInv
<1> QED
  BY <1>2, <1>3, <1>4, <1>5, <1>6 DEF AccountsInv

\* update_account_role and disable_account: one more entry on the account.
LEMMA AdminWriteStep ==
  ASSUME AccountsInv, NEW id \in AccountId,
         (\E role \in Role : update_account_role(id, role)) \/ disable_account(id)
  PROVE  AccountsInv'
<1>0. AccountsTyped /\ LogOf(id)
  BY DEF AccountsInv
<1>1. id \in Enrolled /\ login' = login /\ wrong' = wrong /\ dbNow' = dbNow
  BY DEF update_account_role, disable_account
<1>2. account[id] \in AccountRow
  BY <1>0, <1>1 DEF AccountsTyped
<1>3. ASSUME NEW row \in AccountRow, account' = [account EXCEPT ![id] = row],
             row.username = account[id].username, row.failed = account[id].failed,
             row.locked = account[id].locked,
             NEW e \in AdminEntry, adminLog' = Append(adminLog, e), e.id = id, LogOf(id)'
      PROVE  AccountsInv'
  <2>1. LadderOf(id)'
    <3>1. account'[id] = row /\ LadderOf(id)
      BY <1>0, <1>1, <1>3, RowWritten DEF AccountsInv
    <3> QED
      BY <1>1, <1>3, <3>1 DEF LadderOf
  <2>2. adminLog' \in Seq(AdminEntry)
    BY <1>0, <1>3 DEF AccountsTyped
  <2>3. \A i \in AccountId : i # id =>
           EntriesOn(i)' = EntriesOn(i) /\ \A k \in EntriesOn(i) : adminLog'[k] = adminLog[k]
    BY <1>0, <1>3, EntryAppended
  <2>4. /\ wrong' \in [AccountId -> Nat] /\ \A i \in AccountId : i # id => wrong'[i] = wrong[i]
        /\ login' \in [Login -> LoginState]
        /\ \A l \in Login : login'[l] = login[l] \/ login'[l].at = "idle"
    BY <1>0, <1>1 DEF AccountsTyped
  <2> QED
    BY <1>1, <1>3, <2>1, <2>2, <2>3, <2>4, OneAccount
<1>n. Len(adminLog) + 1 \in Nat
  BY <1>0 DEF AccountsTyped
<1>4. PICK c \in EntriesOn(id) : Creations(id) = {c} /\ \A k \in EntriesOn(id) : c <= k
  BY <1>0, <1>1 DEF LogOf
<1>5. ASSUME NEW e \in AdminEntry, adminLog' = Append(adminLog, e), e.id = id,
             e.action # "create_account"
      PROVE  /\ EntriesOn(id)' = EntriesOn(id) \cup {Len(adminLog) + 1}
             /\ adminLog'[Len(adminLog) + 1] = e
             /\ \A k \in EntriesOn(id) : adminLog'[k] = adminLog[k] /\ k <= Len(adminLog) + 1
             /\ Creations(id)' = {c} /\ \A k \in EntriesOn(id)' : c <= k
             /\ Grants(id)' = IF e.action = "disable_account" THEN Grants(id)
                              ELSE Grants(id) \cup {Len(adminLog) + 1}
  <2>1. /\ EntriesOn(id)' = EntriesOn(id) \cup {Len(adminLog) + 1}
        /\ adminLog'[Len(adminLog) + 1] = e
        /\ Len(adminLog) \in Nat /\ EntriesOn(id) \subseteq Nat
        /\ Len(adminLog) + 1 \notin EntriesOn(id)
        /\ \A k \in EntriesOn(id) : adminLog'[k] = adminLog[k] /\ k <= Len(adminLog)
    BY <1>0, <1>5, EntryAppended
  <2>2. \A k \in EntriesOn(id) : k <= Len(adminLog) + 1
    BY <2>1
  <2>3. Creations(id)' = Creations(id)
    BY <1>5, <2>1 DEF Creations
  <2>4. Grants(id)' = IF e.action = "disable_account" THEN Grants(id)
                              ELSE Grants(id) \cup {Len(adminLog) + 1}
    BY <2>1 DEF Grants
  <2> QED
    BY <1>4, <2>1, <2>2, <2>3, <2>4
<1>6. ASSUME NEW role \in Role, update_account_role(id, role)
      PROVE  AccountsInv'
  <2> DEFINE e == [action |-> "update_account_role", id |-> id, role |-> role]
             row == [account[id] EXCEPT !.role = role]
  <2>1. account' = [account EXCEPT ![id] = row] /\ adminLog' = Append(adminLog, e)
    BY <1>6 DEF update_account_role, LogAdmin
  <2>2. e \in AdminEntry /\ e.id = id /\ e.action = "update_account_role" /\ e.role = role
    BY DEF AdminEntry
  <2>3. /\ row \in AccountRow /\ row.username = account[id].username
        /\ row.failed = account[id].failed /\ row.locked = account[id].locked
        /\ row.role = role /\ row.status = account[id].status
    BY <1>2, RowUpdates
  <2> HIDE DEF e, row
  <2>4. account'[id] = row /\ Enrolled' = Enrolled
    BY <1>0, <1>1, <2>1, <2>3, RowWritten
  <2>5. LogOf(id)'
    <3> DEFINE n == Len(adminLog) + 1
    <3>1. /\ EntriesOn(id)' = EntriesOn(id) \cup {n} /\ adminLog'[n] = e
          /\ \A k \in EntriesOn(id) : adminLog'[k] = adminLog[k] /\ k <= n
          /\ Creations(id)' = {c} /\ \A k \in EntriesOn(id)' : c <= k
          /\ Grants(id)' = Grants(id) \cup {n}
      BY <1>5, <2>1, <2>2
    <3>2. Grants(id) \subseteq EntriesOn(id) /\ n <= n
      BY <1>n DEF Grants
    <3> HIDE DEF n
    <3>3. account'[id].role = adminLog'[n].role /\ n \in Grants(id)' /\ \A k \in Grants(id)' : k <= n
      BY <2>2, <2>3, <2>4, <3>1, <3>2
    <3>4. (account'[id].status = "disabled")
            <=> \E k \in EntriesOn(id)' : adminLog'[k].action = "disable_account"
      BY <1>0, <1>1, <2>2, <2>3, <2>4, <3>1 DEF LogOf
    <3> QED
      BY <1>1, <1>4, <2>4, <3>1, <3>3, <3>4 DEF LogOf
  <2> QED
    BY <1>3, <2>1, <2>2, <2>3, <2>5
<1>7. ASSUME disable_account(id)
      PROVE  AccountsInv'
  <2> DEFINE e == [action |-> "disable_account", id |-> id]
             row == [account[id] EXCEPT !.status = "disabled"]
  <2>1. account' = [account EXCEPT ![id] = row] /\ adminLog' = Append(adminLog, e)
    BY <1>7 DEF disable_account, LogAdmin
  <2>2. e \in AdminEntry /\ e.id = id /\ e.action = "disable_account"
    BY DEF AdminEntry
  <2>3. /\ row \in AccountRow /\ row.username = account[id].username
        /\ row.failed = account[id].failed /\ row.locked = account[id].locked
        /\ row.role = account[id].role /\ row.status = "disabled"
    BY <1>2, RowDisabled
  <2> HIDE DEF e, row
  <2>4. account'[id] = row /\ Enrolled' = Enrolled
    BY <1>0, <1>1, <2>1, <2>3, RowWritten
  <2>5. LogOf(id)'
    <3> DEFINE n == Len(adminLog) + 1
    <3>1. /\ EntriesOn(id)' = EntriesOn(id) \cup {n} /\ adminLog'[n] = e
          /\ \A k \in EntriesOn(id) : adminLog'[k] = adminLog[k] /\ k <= n
          /\ Creations(id)' = {c} /\ \A k \in EntriesOn(id)' : c <= k
          /\ Grants(id)' = Grants(id)
      BY <1>5, <2>1, <2>2
    <3>2. Grants(id) \subseteq EntriesOn(id)
      BY DEF Grants
    <3> HIDE DEF n
    <3>3. \E g \in Grants(id)' : /\ account'[id].role = adminLog'[g].role
                                 /\ \A k \in Grants(id)' : k <= g
      BY <1>0, <1>1, <2>3, <2>4, <3>1, <3>2 DEF LogOf
    <3> QED
      BY <1>1, <1>4, <2>2, <2>3, <2>4, <3>1, <3>3 DEF LogOf
  <2> QED
    BY <1>3, <2>1, <2>2, <2>3, <2>5
<1> QED
  BY <1>6, <1>7

\* A step that leaves the rows and the log alone, and ends or starts logins.
LEMMA RowsUntouched ==
  ASSUME AccountsInv, account' = account, adminLog' = adminLog, wrong' = wrong,
         login' \in [Login -> LoginState], \A l \in Login : LoginOK(l)', dbNow' \in Nat
  PROVE  AccountsInv'
<1>1. AccountsTyped' /\ NamesUnique'
  BY DEF AccountsInv, AccountsTyped, NamesUnique, Enrolled
<1>2. \A i \in Enrolled' : LadderOf(i)'
  BY DEF AccountsInv, LadderOf, Enrolled
<1>3. \A i \in AccountId : LogOf(i)'
  BY DEF AccountsInv, LogOf, EntriesOn, Creations, Grants, Enrolled
<1> QED
  BY <1>1, <1>2, <1>3 DEF AccountsInv

\* The end of a login that wrote its account's row.
LEMMA LoginWrites ==
  ASSUME AccountsInv, NEW l \in Login, record_failed_login(l) \/ log_in(l)
  PROVE  AccountsInv'
<1>0. AccountsTyped
  BY DEF AccountsInv
<1>1. PICK id \in Enrolled : id = login[l].id
  BY DEF AccountsInv, LoginOK, record_failed_login, log_in
<1>2. id \in AccountId /\ account[id] \in AccountRow /\ wrong[id] \in Nat /\ dbNow \in Nat
      /\ LadderOf(id) /\ LogOf(id)
  BY <1>0 DEF AccountsTyped, AccountsInv
<1>3. /\ login' = [login EXCEPT ![l] = [at |-> "idle"]]
      /\ adminLog' = adminLog /\ dbNow' = dbNow
  BY DEF record_failed_login, log_in
<1>4. /\ login' \in [Login -> LoginState]
      /\ \A m \in Login : login'[m] = login[m] \/ login'[m].at = "idle"
      /\ adminLog' \in Seq(AdminEntry)
      /\ \A i \in AccountId :
           EntriesOn(i)' = EntriesOn(i) /\ \A k \in EntriesOn(i) : adminLog'[k] = adminLog[k]
  BY <1>0, <1>3 DEF AccountsTyped, LoginState, EntriesOn
<1>5. ASSUME NEW row \in AccountRow, account' = [account EXCEPT ![id] = row],
             row.username = account[id].username, row.role = account[id].role,
             row.status = account[id].status,
             NEW n \in Nat, wrong' = [wrong EXCEPT ![id] = n],
             row.failed = n % MaxFailedAttempts,
             (row.locked > 0) <=> (n >= MaxFailedAttempts)
      PROVE  AccountsInv'
  <2>1. account'[id] = row /\ Enrolled' = Enrolled
    BY <1>0, <1>5, RowWritten
  <2>2. /\ wrong' \in [AccountId -> Nat] /\ \A i \in AccountId : i # id => wrong'[i] = wrong[i]
        /\ wrong'[id] = n
    BY <1>0, <1>2, <1>5 DEF AccountsTyped
  <2>3. LadderOf(id)'
    BY <1>5, <2>1, <2>2 DEF LadderOf
  <2>4. LogOf(id)'
    BY <1>2, <1>4, <1>5, <2>1, LogFrame
  <2> QED
    BY <1>3, <1>4, <1>5, <2>2, <2>3, <2>4, OneAccount
<1>6. CASE record_failed_login(l)
  <2>0. PICK since \in Nat : since = login[l].since
    BY <1>0, <1>6, LoginTyped DEF record_failed_login
  <2>1. /\ account' = [account EXCEPT ![id] = Climbed(account[id], since)]
        /\ wrong' = [wrong EXCEPT ![id] = wrong[id] + 1]
    BY <1>1, <1>6, <2>0 DEF record_failed_login
  <2>2. account[id].failed \in Nat /\ account[id].locked \in Nat
    BY <1>2 DEF AccountRow
  <2>3. /\ account[id].failed = wrong[id] % MaxFailedAttempts
        /\ (account[id].locked > 0) <=> (wrong[id] >= MaxFailedAttempts)
    BY <1>2 DEF LadderOf
  <2>4. /\ Climbed(account[id], since).failed \in Nat /\ Climbed(account[id], since).locked \in Nat
    BY <1>2, ClimbedRow DEF AccountRow
  <2>5. /\ Climbed(account[id], since).failed = (wrong[id] + 1) % MaxFailedAttempts
        /\ (Climbed(account[id], since).locked > 0) <=> (wrong[id] + 1 >= MaxFailedAttempts)
    <3>1. /\ Climbed(account[id], since).failed =
               (IF account[id].failed + 1 >= MaxFailedAttempts THEN 0 ELSE account[id].failed + 1)
          /\ Climbed(account[id], since).locked =
               (IF account[id].failed + 1 >= MaxFailedAttempts THEN since + Lockout
                ELSE account[id].locked)
      BY <1>2, ClimbedRow
    <3> QED
      BY <1>2, <2>2, <2>3, <2>4, <3>1, LadderClimbs
  <2>6. wrong[id] + 1 \in Nat
    BY <1>2
  <2> QED
    BY <1>2, <1>5, <2>1, <2>5, <2>6, ClimbedRow
<1>7. CASE log_in(l)
  <2>1. /\ account' = [account EXCEPT ![id] = [account[id] EXCEPT !.failed = 0, !.locked = 0]]
        /\ wrong' = [wrong EXCEPT ![id] = 0]
    <3>1. /\ account' = [account EXCEPT ![id].failed = 0, ![id].locked = 0]
          /\ wrong' = [wrong EXCEPT ![id] = 0]
      BY <1>1, <1>7 DEF log_in
    <3> QED
      BY <1>0, <3>1 DEF AccountsTyped
  <2>2. 0 % MaxFailedAttempts = 0 /\ ~(0 >= MaxFailedAttempts)
    BY AccountsAssumption
  <2>3. ~(0 > 0)
    OBVIOUS
  <2> QED
    BY <1>2, <1>5, <2>1, <2>2, <2>3, RowLoggedIn
<1> QED
  BY <1>6, <1>7

LEMMA AccountsStep ==
  ASSUME AccountsInv, [AccountsNext]_accountsVars
  PROVE  AccountsInv'
<1>0. AccountsTyped /\ \A l \in Login : LoginOK(l)
  BY DEF AccountsInv
<1>1. CASE Administration
  BY <1>1, CreateStep, AdminWriteStep DEF Administration
<1>2. ASSUME NEW l \in Login, NEW i \in AccountId, LookUp(l, i)
      PROVE  AccountsInv'
  <2>1. /\ login' = [login EXCEPT ![l] = [at |-> "verify", id |-> i, since |-> dbNow,
                                         saw |-> account[i].locked]]
        /\ i \in Enrolled /\ ~(account[i].locked > dbNow)
        /\ account' = account /\ adminLog' = adminLog /\ wrong' = wrong /\ dbNow' = dbNow
    BY <1>2 DEF LookUp, Admitted
  <2>2. dbNow \in Nat /\ account[i].locked \in Nat
    BY <1>0, <2>1 DEF AccountsTyped, AccountRow
  <2>3. login' \in [Login -> LoginState]
    BY <1>0, <2>1, <2>2 DEF AccountsTyped, LoginState
  <2>4. ASSUME NEW m \in Login PROVE LoginOK(m)'
    <3>1. CASE m = l
      <4>1. login'[m] = [at |-> "verify", id |-> i, since |-> dbNow,
                                         saw |-> account[i].locked]
        BY <1>0, <2>1, <3>1 DEF AccountsTyped
      <4> QED
        BY <2>1, <2>2, <4>1 DEF LoginOK, Enrolled
    <3>2. CASE m # l
      <4>1. login'[m] = login[m] /\ LoginOK(m)
        BY <1>0, <2>1, <3>2 DEF AccountsTyped
      <4> QED
        BY <2>1, <4>1 DEF LoginOK, Enrolled
    <3> QED
      BY <3>1, <3>2
  <2> QED
    BY <2>1, <2>2, <2>3, <2>4, RowsUntouched
<1>3. ASSUME NEW l \in Login, LoginLost(l)
      PROVE  AccountsInv'
  <2>1. /\ login' = [login EXCEPT ![l] = [at |-> "idle"]]
        /\ account' = account /\ adminLog' = adminLog /\ wrong' = wrong /\ dbNow' = dbNow
    BY <1>3 DEF LoginLost
  <2>2. login' \in [Login -> LoginState] /\ dbNow' \in Nat
    BY <1>0, <2>1 DEF AccountsTyped, LoginState
  <2>3. \A m \in Login : login'[m] = login[m] \/ login'[m].at = "idle"
    BY <1>0, <2>1 DEF AccountsTyped
  <2>4. \A m \in Login : LoginOK(m)'
    BY <1>0, <2>1, <2>3 DEF LoginOK, Enrolled
  <2> QED
    BY <2>1, <2>2, <2>4, RowsUntouched
<1>4. CASE DbTick
  <2>1. /\ dbNow' = dbNow + 1 /\ account' = account /\ login' = login
        /\ adminLog' = adminLog /\ wrong' = wrong
    BY <1>4 DEF DbTick
  <2>2. dbNow' \in Nat /\ dbNow <= dbNow' /\ login' \in [Login -> LoginState] /\ Enrolled' = Enrolled
    BY <1>0, <2>1 DEF AccountsTyped, Enrolled
  <2>3. \A l \in Login : LoginOK(l)'
    BY <2>1, <2>2, LoginFrame
  <2> QED
    BY <2>1, <2>2, <2>3, RowsUntouched
<1>5. CASE UNCHANGED accountsVars
  <2>1. \A l \in Login : LoginOK(l)'
    BY <1>0, <1>5 DEF accountsVars, LoginOK, Enrolled
  <2>2. login' \in [Login -> LoginState] /\ dbNow' \in Nat
    BY <1>0, <1>5 DEF accountsVars, AccountsTyped
  <2> QED
    BY <1>5, <2>1, <2>2, RowsUntouched DEF accountsVars
<1> QED
  BY <1>1, <1>2, <1>3, <1>4, <1>5, LoginWrites DEF AccountsNext, Authenticate

LEMMA AccountsInvariant == AccountsSpec => []AccountsInv
<1>1. AccountsInit => AccountsInv
  <2> SUFFICES ASSUME AccountsInit PROVE AccountsInv
    OBVIOUS
  <2>1. Enrolled = {} /\ account \in [Enrolled -> AccountRow]
    BY DEF AccountsInit, Enrolled
  <2>2. AccountsTyped
    BY <2>1 DEF AccountsInit, AccountsTyped, LoginState
  <2>3. \A l \in Login : LoginOK(l)
    BY DEF AccountsInit, LoginOK
  <2>4. \A i \in AccountId : LogOf(i)
    BY <2>1 DEF AccountsInit, LogOf, EntriesOn
  <2> QED
    BY <2>1, <2>2, <2>3, <2>4 DEF AccountsInv, NamesUnique
<1> QED
  BY <1>1, AccountsStep, PTL DEF AccountsSpec

\* AccountsAddUp, for any number of logins at once and any threshold: the
\* ladder misses no wrong password and no window, and the audit log accounts
\* for every account.
THEOREM AccountsCorrect == AccountsSpec => []AccountsAddUp
<1>1. AccountsInv => AccountsAddUp
  BY DEF AccountsInv, AccountsAddUp, LadderCounts, LadderOf, AdminLogAccountsForAccounts,
         LogOf, NamesUnique
<1> QED
  BY <1>1, AccountsInvariant, PTL

\* What WindowIsServed demands of a step.
ServedWindow ==
  \A i \in Enrolled :
    account[i].locked > dbNow /\ Ladder(i)' # Ladder(i)
      => \E l \in Login : /\ login[l].at = "verify" /\ login[l].id = i
                          /\ login'[l].at = "idle"
                          /\ login[l].saw < account[i].locked

\* Only a login that read a window already over is past the check, so an open
\* window is one it has not seen.
LEMMA WindowStepHolds ==
  ASSUME AccountsInv, [AccountsNext]_accountsVars
  PROVE  ServedWindow
<1> SUFFICES ASSUME NEW i \in Enrolled, account[i].locked > dbNow, Ladder(i)' # Ladder(i)
             PROVE  \E l \in Login : /\ login[l].at = "verify" /\ login[l].id = i
                                     /\ login'[l].at = "idle"
                                     /\ login[l].saw < account[i].locked
  BY DEF ServedWindow
<1>0. AccountsTyped
  BY DEF AccountsInv
<1>1. account[i] \in AccountRow /\ account[i].locked \in Nat /\ dbNow \in Nat /\ i \in AccountId
  BY <1>0 DEF AccountsTyped, AccountRow
<1>2. /\ account'[i] # account[i]
      /\ ~(account'[i].failed = account[i].failed /\ account'[i].locked = account[i].locked)
  BY DEF Ladder
<1>3. ASSUME NEW l \in Login, record_failed_login(l) \/ log_in(l)
      PROVE  /\ login[l].at = "verify" /\ login[l].id = i /\ login'[l].at = "idle"
             /\ login[l].saw < account[i].locked
  <2>1. login[l].at = "verify" /\ login'[l].at = "idle"
    BY <1>0, <1>3 DEF record_failed_login, log_in, AccountsTyped
  <2>2. PICK id \in Enrolled : id = login[l].id
    BY <2>1 DEF AccountsInv, LoginOK
  <2>3. \A k \in Enrolled : k # id => account'[k] = account[k]
    BY <1>0, <1>3, <2>2 DEF record_failed_login, log_in, AccountsTyped
  <2>4. id = i
    BY <1>2, <2>3
  <2>5. /\ login[l].saw <= login[l].since /\ login[l].since <= dbNow
        /\ login[l].saw \in Nat /\ login[l].since \in Nat
    BY <1>0, <2>1, LoginTyped DEF AccountsInv, LoginOK
  <2>6. login[l].saw < account[i].locked
    BY <1>1, <2>5
  <2> QED
    BY <2>1, <2>2, <2>4, <2>6
<1>5. CASE Administration
  <2>1. PICK id \in AccountId : \/ \E r \in Role : update_account_role(id, r)
                                \/ \E n \in Username, r \in Role : create_account(id, n, r)
                                \/ disable_account(id)
    BY <1>5 DEF Administration
  <2>2. CASE \E n \in Username, r \in Role : create_account(id, n, r)
    BY <1>2, <2>2 DEF create_account
  <2>3. CASE \E r \in Role : update_account_role(id, r)
    <3>1. PICK r \in Role : update_account_role(id, r)
      BY <2>3
    <3>2. account' = [account EXCEPT ![id] = [account[id] EXCEPT !.role = r]]
      BY <3>1 DEF update_account_role
    <3> QED
      BY <1>0, <1>1, <1>2, <3>2, RowUpdates DEF AccountsTyped
  <2>4. CASE disable_account(id)
    <3>1. account' = [account EXCEPT ![id] = [account[id] EXCEPT !.status = "disabled"]]
      BY <2>4 DEF disable_account
    <3> QED
      BY <1>0, <1>1, <1>2, <3>1, RowDisabled DEF AccountsTyped
  <2> QED
    BY <2>1, <2>2, <2>3, <2>4
<1>6. ASSUME account' = account PROVE FALSE
  BY <1>2, <1>6
<1> QED
  BY <1>3, <1>5, <1>6
     DEF AccountsNext, Authenticate, LookUp, LoginLost, DbTick, accountsVars

\* WindowIsServed, for any number of logins at once: nobody who met an open window
\* touches its account's ladder (_authenticate).
THEOREM WindowServedCorrect == AccountsSpec => WindowIsServed
<1>1. AccountsInv /\ [AccountsNext]_accountsVars => [ServedWindow]_accountsVars
  BY WindowStepHolds
<1>2. [][ServedWindow]_accountsVars => WindowIsServed
  BY PTL DEF ServedWindow, WindowIsServed
<1> QED
  BY <1>1, <1>2, AccountsInvariant, PTL DEF AccountsSpec

(***************************************************************************)
(* Policy slots, eval runs and rollbacks                                   *)
(***************************************************************************)
PolicyTyped ==
  /\ policy \in [PolicySlot -> PolicyRow]
  /\ history \subseteq HistoryRow
  /\ run \in [Run -> RunRow \cup {NoRun}]
  /\ rolling \in [Rollback -> [held: {TRUE}, row: HistoryRow] \cup {NoRollback}]
  /\ policyTexts \in 0..MaxText /\ begun \in Nat
  /\ done \in [PolicySlot -> [promotions: Nat, rollbacks: Nat]]

\* A run was made on a draft, drafts do not become empty again, and an archived
\* text is behind a published one.
DraftsOK ==
  /\ \A p \in PolicySlot : policy[p].status = "pending_eval" => policy[p].draft # 0
  /\ \A r \in Run : run[r] # NoRun => policy[run[r].slot].draft # 0
  /\ \A h \in history : policy[h.slot].published # 0

\* archived_at identifies a history row: no two promotions share a stamp, and
\* a stamp that is still in use is on no row yet.
StampsOK ==
  /\ \A r \in Run : run[r] # NoRun => run[r].at <= begun
  /\ \A h \in history : h.at <= begun
  /\ \A r \in Run, h \in history : run[r] # NoRun /\ run[r].at # 0 => h.at # run[r].at
  /\ \A r, s \in Run :
       run[r] # NoRun /\ run[s] # NoRun /\ run[r].at # 0 /\ run[r].at = run[s].at => r = s

\* A rollback in progress holds a row of its own.
PopsOK ==
  /\ \A b \in Rollback : rolling[b].held => rolling[b].row \in history
  /\ \A a, b \in Rollback :
       rolling[a].held /\ rolling[b].held /\ rolling[a].row = rolling[b].row => a = b

CountsOK(p) ==
  /\ IsFiniteSet(Promoted(p)) /\ done[p].promotions = Cardinality(Promoted(p))
  /\ \A r \in Promoted(p) : ~run[r].high /\ (run[r].signoff => run[r].signed)
  /\ IsFiniteSet(HistoryOf(p))
  /\ done[p].promotions =
       done[p].rollbacks + Cardinality(HistoryOf(p)) + (IF policy[p].published = 0 THEN 0 ELSE 1)

PolicyInv ==
  /\ PolicyTyped /\ DraftsOK /\ StampsOK /\ PopsOK
  /\ \A p \in PolicySlot : CountsOK(p)

\* A row of eval_run has its columns, and is told from an unused id by them.
LEMMA RunRowFields ==
  ASSUME NEW row \in RunRow
  PROVE  /\ row # NoRun
         /\ row.slot \in PolicySlot /\ row.at \in Nat
         /\ row.high \in BOOLEAN /\ row.signoff \in BOOLEAN
         /\ row.signed \in BOOLEAN /\ row.promoted \in BOOLEAN
BY DEF RunRow, NoRun

\* The slot's counts see the runs only through what was promoted.
LEMMA CountsFrame ==
  ASSUME NEW p \in PolicySlot, CountsOK(p), Promoted(p)' = Promoted(p),
         \A r \in Promoted(p) : /\ run'[r].high = run[r].high
                                /\ run'[r].signoff = run[r].signoff
                                /\ run[r].signed => run'[r].signed,
         HistoryOf(p)' = HistoryOf(p), done'[p] = done[p],
         policy'[p].published = policy[p].published
  PROVE  CountsOK(p)'
BY DEF CountsOK

\* A step on one run alone: it is recorded, signed off, stamped or put back.
LEMMA RunOnly ==
  ASSUME PolicyInv, NEW r \in Run, NEW row \in RunRow, run' = [run EXCEPT ![r] = row],
         UNCHANGED <<policy, history, rolling, policyTexts, done>>,
         begun' \in Nat, begun <= begun',
         policy[row.slot].draft # 0, row.at <= begun',
         row.at # 0 => /\ \A h \in history : h.at # row.at
                       /\ \A s \in Run : s # r /\ run[s] # NoRun => run[s].at # row.at,
         row.promoted <=> run[r] # NoRun /\ run[r].promoted,
         row.promoted => /\ row.slot = run[r].slot /\ row.high = run[r].high
                         /\ row.signoff = run[r].signoff
                         /\ run[r].signed => row.signed
  PROVE  PolicyInv'
<1>0. /\ run \in [Run -> RunRow \cup {NoRun}]
      /\ begun \in Nat
  BY DEF PolicyInv, PolicyTyped
<1>1. /\ run'[r] = row /\ row # NoRun
      /\ \A s \in Run : s # r => run'[s] = run[s]
  BY <1>0, RunRowFields
<1>2. PolicyTyped' /\ PopsOK'
  BY <1>0, <1>1 DEF PolicyInv, PolicyTyped, PopsOK
<1>3. DraftsOK'
  BY <1>1 DEF PolicyInv, DraftsOK
<1>4. StampsOK'
  <2>1. \A s \in Run : run'[s] # NoRun => run'[s].at <= begun'
    <3>1. ASSUME NEW s \in Run, s # r, run[s] # NoRun PROVE run[s].at <= begun'
      <4>1. run[s].at \in Nat /\ run[s].at <= begun
        BY <1>0, <3>1, RunRowFields DEF PolicyInv, StampsOK
      <4> QED
        BY <1>0, <4>1
    <3> QED
      BY <1>1, <3>1
  <2>2. \A h \in history' : h.at <= begun'
    <3>1. ASSUME NEW h \in history PROVE h.at <= begun'
      <4>1. h.at \in Nat /\ h.at <= begun
        BY DEF PolicyInv, PolicyTyped, StampsOK, HistoryRow
      <4> QED
        BY <1>0, <4>1
    <3> QED
      BY <3>1
  <2>3. \A s \in Run, h \in history' : run'[s] # NoRun /\ run'[s].at # 0 => h.at # run'[s].at
    BY <1>1 DEF PolicyInv, StampsOK
  <2>4. \A s, t \in Run : run'[s] # NoRun /\ run'[t] # NoRun /\ run'[s].at # 0
                            /\ run'[s].at = run'[t].at => s = t
    BY <1>1 DEF PolicyInv, StampsOK
  <2> QED
    BY <2>1, <2>2, <2>3, <2>4 DEF StampsOK
<1>5. ASSUME NEW p \in PolicySlot
      PROVE  CountsOK(p)'
  <2>1. Promoted(p)' = Promoted(p)
    BY <1>1 DEF Promoted
  <2>2. \A s \in Promoted(p) : /\ run'[s].high = run[s].high
                               /\ run'[s].signoff = run[s].signoff
                               /\ run[s].signed => run'[s].signed
    BY <1>1 DEF Promoted
  <2>3. HistoryOf(p)' = HistoryOf(p) /\ done'[p] = done[p] /\ policy'[p].published = policy[p].published
    BY DEF HistoryOf
  <2> QED
    BY <2>1, <2>2, <2>3, CountsFrame DEF PolicyInv
<1> QED
  BY <1>2, <1>3, <1>4, <1>5 DEF PolicyInv

\* The reviewer's and the promotion's own bookkeeping.
LEMMA ReviewStep ==
  ASSUME PolicyInv, NEW r \in Run,
         \/ \E p \in PolicySlot, high \in BOOLEAN, signoff \in BOOLEAN : RecordRun(r, p, high, signoff)
         \/ sign_off_medium_failure(r) \/ BeginPromote(r) \/ PromoteRefused(r)
  PROVE  PolicyInv'
<1>0. /\ run \in [Run -> RunRow \cup {NoRun}] /\ begun \in Nat
      /\ policy \in [PolicySlot -> PolicyRow] /\ history \subseteq HistoryRow
  BY DEF PolicyInv, PolicyTyped
<1>n. begun <= begun /\ begun <= begun + 1 /\ begun + 1 \in Nat /\ 0 <= begun /\ begun + 1 # 0
      /\ begun + 1 <= begun + 1
  BY <1>0
<1>1. ASSUME NEW p \in PolicySlot, NEW high \in BOOLEAN, NEW signoff \in BOOLEAN,
             RecordRun(r, p, high, signoff)
      PROVE  PolicyInv'
  <2> DEFINE row == [slot |-> p, evaluated |-> policy[p].draft, high |-> high,
                     signoff |-> signoff, signed |-> FALSE, promoted |-> FALSE, at |-> 0]
  <2>1. /\ run' = [run EXCEPT ![r] = row] /\ run[r] = NoRun
        /\ UNCHANGED <<policy, history, rolling, policyTexts, done>> /\ begun' = begun
        /\ policy[p].draft # 0
    BY <1>1 DEF RecordRun
  <2>2. row \in RunRow
    BY <1>0 DEF RunRow, PolicyRow
  <2>3. row.slot = p /\ row.at = 0 /\ ~row.promoted
    OBVIOUS
  <2> HIDE DEF row
  <2> QED
    BY <1>0, <1>n, <2>1, <2>2, <2>3, RunOnly
<1>2. ASSUME run[r] # NoRun, NEW signed \in BOOLEAN, run[r].signed => signed, NEW n \in Nat,
             run' = [run EXCEPT ![r] = RunUpdated(run[r], signed, run[r].promoted, n)],
             UNCHANGED <<policy, history, rolling, policyTexts, done>>,
             begun' \in Nat, begun <= begun', n <= begun',
             n # 0 => /\ \A h \in history : h.at # n
                      /\ \A s \in Run : s # r /\ run[s] # NoRun => run[s].at # n
      PROVE  PolicyInv'
  <2>1. run[r] \in RunRow /\ run[r].promoted \in BOOLEAN
    BY <1>0, <1>2, RunRowFields
  <2>3. PICK row : row = RunUpdated(run[r], signed, run[r].promoted, n)
    OBVIOUS
  <2>5. signed \in BOOLEAN /\ n \in Nat
    BY <1>2
  <2>6. PICK old \in RunRow : old = run[r]
    BY <2>1
  <2>7. PICK promoted \in BOOLEAN : promoted = old.promoted
    BY <2>1, <2>6
  <2>8. row = RunUpdated(old, signed, promoted, n)
    BY <2>3, <2>6, <2>7
  <2>9. /\ row \in RunRow /\ row.slot = old.slot /\ row.high = old.high
        /\ row.signoff = old.signoff /\ row.signed = signed
        /\ row.promoted = promoted /\ row.at = n
    BY <2>5, <2>7, <2>8 DEF RunUpdated, RunRow
  <2>2. /\ row \in RunRow /\ row.slot = run[r].slot /\ row.high = run[r].high
        /\ row.signoff = run[r].signoff /\ row.signed = signed
        /\ row.promoted = run[r].promoted /\ row.at = n
    BY <2>6, <2>7, <2>9
  <2>4. policy[row.slot].draft # 0
    BY <1>2, <2>2 DEF PolicyInv, DraftsOK
  <2> QED
    BY <1>2, <2>2, <2>3, <2>4, RunOnly
<1>3. run[r] # NoRun => /\ run[r].signed \in BOOLEAN /\ run[r].at \in Nat /\ run[r].at <= begun
  BY <1>0, RunRowFields DEF PolicyInv, StampsOK
<1>4. CASE sign_off_medium_failure(r)
  <2>1. /\ run[r] # NoRun /\ begun' = begun
        /\ run' = [run EXCEPT ![r] = RunUpdated(run[r], TRUE, run[r].promoted, run[r].at)]
        /\ UNCHANGED <<policy, history, rolling, policyTexts, done>>
    BY <1>4 DEF sign_off_medium_failure
  <2>2. run[r].at # 0 => /\ \A h \in history : h.at # run[r].at
                         /\ \A s \in Run : s # r /\ run[s] # NoRun => run[s].at # run[r].at
    BY <2>1 DEF PolicyInv, StampsOK
  <2> QED
    BY <1>0, <1>2, <1>3, <1>n, <2>1, <2>2
<1>5. CASE BeginPromote(r)
  <2>1. /\ run[r] # NoRun /\ begun' = begun + 1
        /\ run' = [run EXCEPT ![r] = RunUpdated(run[r], run[r].signed, run[r].promoted, begun + 1)]
        /\ UNCHANGED <<policy, history, rolling, policyTexts, done>>
    BY <1>5 DEF BeginPromote
  <2>2. ASSUME NEW h \in history PROVE h.at # begun + 1
    <3>1. h.at \in Nat /\ h.at <= begun
      BY <1>0 DEF PolicyInv, StampsOK, HistoryRow
    <3> QED
      BY <1>0, <3>1
  <2>3. ASSUME NEW s \in Run, run[s] # NoRun PROVE run[s].at # begun + 1
    <3>1. run[s].at \in Nat /\ run[s].at <= begun
      BY <1>0, <2>3, RunRowFields DEF PolicyInv, StampsOK
    <3> QED
      BY <1>0, <3>1
  <2> QED
    BY <1>0, <1>2, <1>3, <1>n, <2>1, <2>2, <2>3
<1>6. CASE PromoteRefused(r)
  <2>1. /\ run[r] # NoRun /\ begun' = begun
        /\ run' = [run EXCEPT ![r] = RunUpdated(run[r], run[r].signed, run[r].promoted, 0)]
        /\ UNCHANGED <<policy, history, rolling, policyTexts, done>>
    BY <1>6 DEF PromoteRefused
  <2> QED
    BY <1>0, <1>2, <1>3, <1>n, <2>1
<1> QED
  BY <1>1, <1>4, <1>5, <1>6

\* update_policy_slot and submit_for_eval: a slot's draft and status, never its
\* published text.
LEMMA AuthorStep ==
  ASSUME PolicyInv, NEW p \in PolicySlot, update_policy_slot(p) \/ submit_for_eval(p)
  PROVE  PolicyInv'
<1>0. /\ policy \in [PolicySlot -> PolicyRow] /\ policyTexts \in 0..MaxText /\ MaxText \in Nat
      /\ policy[p].draft \in 0..MaxText /\ policy[p].published \in 0..MaxText
  BY PolicyAssumption DEF PolicyInv, PolicyTyped, PolicyRow
<1>1. UNCHANGED <<history, run, rolling, begun, done>>
  BY DEF update_policy_slot, submit_for_eval
<1>2. PICK row \in PolicyRow :
        /\ policy' = [policy EXCEPT ![p] = row] /\ row.published = policy[p].published
        /\ row.draft # 0 /\ policyTexts' \in 0..MaxText
  <2>1. CASE update_policy_slot(p)
    <3> DEFINE row == [policy[p] EXCEPT !.draft = policyTexts + 1,
                         !.status = IF policy[p].status = "empty" THEN "draft" ELSE policy[p].status]
    <3>1. policy' = [policy EXCEPT ![p] = row] /\ policyTexts' = policyTexts + 1 /\ policyTexts < MaxText
      BY <2>1 DEF update_policy_slot
    <3>2. policyTexts + 1 \in 0..MaxText /\ policyTexts + 1 # 0
      BY <1>0, <3>1
    <3>3. row \in PolicyRow /\ row.published = policy[p].published /\ row.draft = policyTexts + 1
      BY <1>0, <3>2 DEF PolicyRow
    <3> QED
      BY <3>1, <3>2, <3>3
  <2>2. CASE submit_for_eval(p)
    <3> DEFINE row == [policy[p] EXCEPT !.status = "pending_eval"]
    <3>1. policy' = [policy EXCEPT ![p] = row] /\ policyTexts' = policyTexts /\ policy[p].draft # 0
      BY <2>2 DEF submit_for_eval
    <3>2. row \in PolicyRow /\ row.published = policy[p].published /\ row.draft = policy[p].draft
      BY <1>0 DEF PolicyRow
    <3> QED
      BY <1>0, <3>1, <3>2
  <2> QED
    BY <2>1, <2>2
<1>3. /\ policy' \in [PolicySlot -> PolicyRow] /\ policy'[p].draft # 0
      /\ \A q \in PolicySlot : q # p => policy'[q] = policy[q]
      /\ \A q \in PolicySlot : policy'[q].published = policy[q].published
  BY <1>0, <1>2
<1>4. PolicyTyped' /\ StampsOK' /\ PopsOK'
  BY <1>1, <1>2, <1>3 DEF PolicyInv, PolicyTyped, StampsOK, PopsOK
<1>5. DraftsOK'
  <2>1. \A h \in history : h.slot \in PolicySlot
    BY DEF PolicyInv, PolicyTyped, HistoryRow
  <2>2. \A r \in Run : run[r] # NoRun => run[r].slot \in PolicySlot
    BY RunRowFields DEF PolicyInv, PolicyTyped
  <2> QED
    BY <1>1, <1>3, <2>1, <2>2 DEF PolicyInv, DraftsOK
<1>6. ASSUME NEW q \in PolicySlot PROVE CountsOK(q)'
  <2>1. CountsOK(q) /\ Promoted(q)' = Promoted(q) /\ HistoryOf(q)' = HistoryOf(q)
    BY <1>1 DEF PolicyInv, Promoted, HistoryOf
  <2> QED
    BY <1>1, <1>3, <2>1, CountsFrame
<1> QED
  BY <1>4, <1>5, <1>6 DEF PolicyInv

\* promote_pending_policy: one more promoted run, one more archived text unless
\* the slot had none, under a stamp no other row has.
LEMMA PromoteStep ==
  ASSUME PolicyInv, NEW r \in Run, promote_pending_policy(r)
  PROVE  PolicyInv'
<1>0. /\ run \in [Run -> RunRow \cup {NoRun}] /\ begun \in Nat
      /\ policy \in [PolicySlot -> PolicyRow] /\ history \subseteq HistoryRow
      /\ done \in [PolicySlot -> [promotions: Nat, rollbacks: Nat]]
      /\ rolling \in [Rollback -> [held: {TRUE}, row: HistoryRow] \cup {NoRollback}]
      /\ MaxText \in Nat
  BY PolicyAssumption DEF PolicyInv, PolicyTyped
<1>1. /\ run[r] # NoRun /\ run[r].at # 0 /\ ~run[r].high /\ (run[r].signoff => run[r].signed)
      /\ ~run[r].promoted
      /\ run' = [run EXCEPT ![r] = RunUpdated(run[r], run[r].signed, TRUE, 0)]
      /\ UNCHANGED <<rolling, policyTexts, begun>>
  BY DEF promote_pending_policy, Promotable
<1>2. run[r] \in RunRow /\ run[r].slot \in PolicySlot /\ run[r].at \in Nat
  BY <1>0, <1>1, RunRowFields
<1>3. PICK p \in PolicySlot : p = run[r].slot
  BY <1>2
<1>4. PICK row : row = RunUpdated(run[r], run[r].signed, TRUE, 0)
  OBVIOUS
<1>5. /\ row \in RunRow /\ row.slot = p /\ row.high = run[r].high
      /\ row.signoff = run[r].signoff /\ row.signed = run[r].signed
      /\ row.promoted = TRUE /\ row.at = 0
  BY <1>2, <1>3, <1>4 DEF RunUpdated, RunRow
<1>6. run'[r] = row /\ row # NoRun /\ \A s \in Run : s # r => run'[s] = run[s]
  BY <1>0, <1>1, <1>4, <1>5, RunRowFields
<1>7. PICK h : h = [slot |-> p, text |-> policy[p].published, at |-> run[r].at]
  OBVIOUS
<1>8. /\ history' = IF policy[p].published = 0 THEN history ELSE history \cup {h}
      /\ policy' = [policy EXCEPT ![p].published = policy[p].draft, ![p].status = "published"]
      /\ done' = [done EXCEPT ![p].promotions = @ + 1]
  BY <1>3, <1>7 DEF promote_pending_policy
<1>9. /\ policy[p].draft \in 0..MaxText /\ policy[p].published \in 0..MaxText
      /\ policy[p].draft # 0
  BY <1>0, <1>1, <1>3 DEF PolicyRow, PolicyInv, DraftsOK
<1>10. /\ policy' \in [PolicySlot -> PolicyRow]
       /\ policy'[p].draft = policy[p].draft /\ policy'[p].published = policy[p].draft
       /\ policy'[p].status = "published"
       /\ \A q \in PolicySlot : q # p => policy'[q] = policy[q]
  BY <1>0, <1>8, <1>9 DEF PolicyRow
<1>11. /\ done' \in [PolicySlot -> [promotions: Nat, rollbacks: Nat]]
       /\ done'[p].promotions = done[p].promotions + 1
       /\ done'[p].rollbacks = done[p].rollbacks
       /\ \A q \in PolicySlot : q # p => done'[q] = done[q]
       /\ done[p].promotions \in Nat /\ done[p].rollbacks \in Nat
  BY <1>0, <1>8
<1>12. policy[p].published # 0 => h \in HistoryRow
  <2>1. policy[p].published # 0 => policy[p].published \in 1..MaxText
    BY <1>0, <1>9
  <2> QED
    BY <1>2, <1>7, <2>1 DEF HistoryRow
<1>13. h.slot = p /\ h.at = run[r].at /\ h \notin history
  BY <1>1, <1>7 DEF PolicyInv, StampsOK
<1>14. history' \subseteq HistoryRow /\ history \subseteq history'
       /\ \A g \in history' : g \in history \/ (g = h /\ policy[p].published # 0)
  BY <1>0, <1>8, <1>12
<1>15. PolicyTyped'
  BY <1>0, <1>1, <1>5, <1>4, <1>10, <1>11, <1>14 DEF PolicyInv, PolicyTyped
<1>16. DraftsOK'
  <2>1. \A s \in Run : run[s] # NoRun => run[s].slot \in PolicySlot
    BY <1>0, RunRowFields
  <2>2. \A s \in Run : run'[s] # NoRun => policy'[run'[s].slot].draft # 0
    BY <1>5, <1>6, <1>9, <1>10, <2>1 DEF PolicyInv, DraftsOK
  <2>3. \A g \in history' : policy'[g.slot].published # 0
    BY <1>0, <1>9, <1>10, <1>13, <1>14 DEF PolicyInv, DraftsOK, HistoryRow
  <2>4. \A q \in PolicySlot : policy'[q].status = "pending_eval" => policy'[q].draft # 0
    BY <1>9, <1>10 DEF PolicyInv, DraftsOK
  <2> QED
    BY <2>2, <2>3, <2>4 DEF DraftsOK
<1>17. StampsOK'
  <2>0. run[r].at <= begun /\ 0 <= begun
    BY <1>0, <1>1 DEF PolicyInv, StampsOK
  <2>1. \A s \in Run : run'[s] # NoRun => run'[s].at <= begun'
    BY <1>1, <1>5, <1>6, <2>0 DEF PolicyInv, StampsOK
  <2>2. \A g \in history' : g.at <= begun'
    BY <1>1, <1>13, <1>14, <2>0 DEF PolicyInv, StampsOK
  <2>3. ASSUME NEW s \in Run, NEW g \in history', run'[s] # NoRun, run'[s].at # 0
        PROVE  g.at # run'[s].at
    <3>1. s # r /\ run'[s] = run[s]
      BY <1>5, <1>6, <2>3
    <3>2. run[s] # NoRun /\ run[s].at # 0
      BY <2>3, <3>1
    <3>3. CASE g \in history
      BY <3>1, <3>2, <3>3 DEF PolicyInv, StampsOK
    <3>4. CASE g = h
      BY <1>1, <1>13, <3>1, <3>2, <3>4 DEF PolicyInv, StampsOK
    <3> QED
      BY <1>14, <3>3, <3>4
  <2>4. \A s, t \in Run : run'[s] # NoRun /\ run'[t] # NoRun /\ run'[s].at # 0
                            /\ run'[s].at = run'[t].at => s = t
    BY <1>5, <1>6 DEF PolicyInv, StampsOK
  <2> QED
    BY <2>1, <2>2, <2>3, <2>4 DEF StampsOK
<1>18. PopsOK'
  BY <1>1, <1>14 DEF PolicyInv, PopsOK
<1>19. ASSUME NEW q \in PolicySlot, q # p PROVE CountsOK(q)'
  <2>1. Promoted(q)' = Promoted(q) /\ \A s \in Promoted(q) : run'[s] = run[s]
    BY <1>3, <1>5, <1>6, <1>19 DEF Promoted
  <2>2. HistoryOf(q)' = HistoryOf(q)
    BY <1>8, <1>13, <1>19 DEF HistoryOf
  <2> QED
    BY <1>10, <1>11, <1>19, <2>1, <2>2, CountsFrame DEF PolicyInv
<1>20. CountsOK(p)'
  <2>0. CountsOK(p)
    BY DEF PolicyInv
  <2>1. Promoted(p)' = Promoted(p) \cup {r} /\ r \notin Promoted(p)
    BY <1>1, <1>5, <1>6 DEF Promoted
  <2>f. IsFiniteSet(Promoted(p))
    BY <2>0 DEF CountsOK
  <2>2. /\ IsFiniteSet(Promoted(p)') /\ Cardinality(Promoted(p)') = Cardinality(Promoted(p)) + 1
    BY <2>1, <2>f, FS_AddElement
  <2>3. ASSUME NEW s \in Promoted(p)'
        PROVE  ~run'[s].high /\ (run'[s].signoff => run'[s].signed)
    <3>1. CASE s = r
      BY <1>1, <1>5, <1>6, <3>1
    <3>2. CASE s # r
      <4>1. s \in Promoted(p) /\ s \in Run
        BY <2>1, <3>2 DEF Promoted
      <4>2. run'[s] = run[s]
        BY <1>6, <3>2, <4>1
      <4>3. ~run[s].high /\ (run[s].signoff => run[s].signed)
        BY <2>0, <4>1 DEF CountsOK
      <4> QED
        BY <4>2, <4>3
    <3> QED
      BY <3>1, <3>2
  <2>4. /\ IsFiniteSet(HistoryOf(p)')
        /\ Cardinality(HistoryOf(p)') = IF policy[p].published = 0 THEN Cardinality(HistoryOf(p))
                                        ELSE Cardinality(HistoryOf(p)) + 1
    <3>1. CASE policy[p].published = 0
      <4>1. HistoryOf(p)' = HistoryOf(p)
        BY <1>8, <3>1 DEF HistoryOf
      <4> QED
        BY <2>0, <3>1, <4>1 DEF CountsOK
    <3>2. CASE policy[p].published # 0
      <4>1. HistoryOf(p)' = HistoryOf(p) \cup {h} /\ h \notin HistoryOf(p)
        BY <1>8, <1>13, <3>2 DEF HistoryOf
      <4> QED
        BY <2>0, <3>2, <4>1, FS_AddElement DEF CountsOK
    <3> QED
      BY <3>1, <3>2
  <2>5. Cardinality(HistoryOf(p)) \in Nat
    BY <2>0, FS_CardinalityType DEF CountsOK
  <2>6. done[p].promotions =
          done[p].rollbacks + Cardinality(HistoryOf(p)) + (IF policy[p].published = 0 THEN 0 ELSE 1)
    BY <2>0 DEF CountsOK
  <2>7. done'[p].promotions = done'[p].rollbacks + Cardinality(HistoryOf(p)') + 1
    BY <1>11, <2>4, <2>5, <2>6
  <2>8. policy'[p].published # 0
    BY <1>9, <1>10
  <2>9. done'[p].promotions = Cardinality(Promoted(p)')
    BY <1>11, <2>0, <2>2 DEF CountsOK
  <2> QED
    BY <2>2, <2>3, <2>4, <2>7, <2>8, <2>9 DEF CountsOK
<1> QED
  BY <1>15, <1>16, <1>17, <1>18, <1>19, <1>20 DEF PolicyInv

\* The pop of a history row, and a rollback that gives it back: only the rows
\* in hand change.
LEMMA PopStep ==
  ASSUME PolicyInv, NEW b \in Rollback,
         \/ \E p \in PolicySlot : PopHistory(b, p)
         \/ RollbackFails(b)
  PROVE  PolicyInv'
<1>0. /\ rolling \in [Rollback -> [held: {TRUE}, row: HistoryRow] \cup {NoRollback}]
      /\ history \subseteq HistoryRow
  BY DEF PolicyInv, PolicyTyped
<1>1. UNCHANGED <<policy, history, run, policyTexts, begun, done>>
  BY DEF PopHistory, RollbackFails
<1>2. DraftsOK' /\ StampsOK' /\ \A q \in PolicySlot : CountsOK(q)'
  <2>1. DraftsOK' /\ StampsOK'
    BY <1>1 DEF PolicyInv, DraftsOK, StampsOK
  <2>2. ASSUME NEW q \in PolicySlot PROVE CountsOK(q)'
    <3>1. CountsOK(q) /\ Promoted(q)' = Promoted(q) /\ HistoryOf(q)' = HistoryOf(q)
      BY <1>1 DEF PolicyInv, Promoted, HistoryOf
    <3> QED
      BY <1>1, <3>1, CountsFrame
  <2> QED
    BY <2>1, <2>2
<1>3. ASSUME NEW p \in PolicySlot, PopHistory(b, p)
      PROVE  PolicyTyped' /\ PopsOK'
  <2>1. PICK h \in Newest(p) :
          Unclaimed(h) /\ rolling' = [rolling EXCEPT ![b] = [held |-> TRUE, row |-> h]]
    BY <1>3 DEF PopHistory
  <2>2. h \in history
    BY DEF Newest, HistoryOf
  <2>3. [held |-> TRUE, row |-> h] \in [held: {TRUE}, row: HistoryRow]
    BY <1>0, <2>2
  <2>4. /\ rolling'[b].row = h
        /\ \A a \in Rollback : a # b => rolling'[a] = rolling[a]
    BY <1>0, <2>1
  <2>5. PolicyTyped'
    BY <1>0, <1>1, <2>1, <2>3 DEF PolicyInv, PolicyTyped
  <2>6. PopsOK'
    BY <1>1, <2>1, <2>2, <2>4 DEF PolicyInv, PopsOK, Unclaimed
  <2> QED
    BY <2>5, <2>6
<1>4. CASE RollbackFails(b)
  <2>1. /\ rolling'[b] = NoRollback /\ ~rolling'[b].held
        /\ \A a \in Rollback : a # b => rolling'[a] = rolling[a]
        /\ rolling' \in [Rollback -> [held: {TRUE}, row: HistoryRow] \cup {NoRollback}]
    BY <1>0, <1>4 DEF RollbackFails, NoRollback
  <2>2. PolicyTyped'
    BY <1>1, <2>1 DEF PolicyInv, PolicyTyped
  <2>3. PopsOK'
    BY <1>1, <2>1 DEF PolicyInv, PopsOK
  <2> QED
    BY <1>2, <2>2, <2>3 DEF PolicyInv
<1> QED
  BY <1>2, <1>3, <1>4 DEF PolicyInv

\* rollback_published_policy: the popped row leaves the history and its text
\* replaces a published one.
LEMMA RollbackStep ==
  ASSUME PolicyInv, NEW b \in Rollback, rollback_published_policy(b)
  PROVE  PolicyInv'
<1>0. /\ run \in [Run -> RunRow \cup {NoRun}] /\ MaxText \in Nat
      /\ policy \in [PolicySlot -> PolicyRow] /\ history \subseteq HistoryRow
      /\ done \in [PolicySlot -> [promotions: Nat, rollbacks: Nat]]
      /\ rolling \in [Rollback -> [held: {TRUE}, row: HistoryRow] \cup {NoRollback}]
  BY PolicyAssumption DEF PolicyInv, PolicyTyped
<1>1. PICK h : h = rolling[b].row
  OBVIOUS
<1>2. /\ rolling[b].held /\ history' = history \ {h}
      /\ policy' = [policy EXCEPT ![h.slot].published = h.text, ![h.slot].status = "published"]
      /\ done' = [done EXCEPT ![h.slot].rollbacks = @ + 1]
      /\ rolling' = [rolling EXCEPT ![b] = NoRollback]
      /\ UNCHANGED <<run, policyTexts, begun>>
  BY <1>1 DEF rollback_published_policy
<1>3. h \in history /\ h \in HistoryRow
  BY <1>0, <1>1, <1>2 DEF PolicyInv, PopsOK
<1>4. PICK p \in PolicySlot : p = h.slot
  BY <1>3 DEF HistoryRow
<1>5. h.text \in 0..MaxText /\ h.text # 0
  <2>1. h.text \in 1..MaxText
    BY <1>3 DEF HistoryRow
  <2> QED
    BY <1>0, <2>1
<1>6. /\ policy' \in [PolicySlot -> PolicyRow]
      /\ policy'[p].draft = policy[p].draft /\ policy'[p].published = h.text
      /\ policy'[p].status = "published"
      /\ \A q \in PolicySlot : q # p => policy'[q] = policy[q]
  BY <1>0, <1>2, <1>4, <1>5 DEF PolicyRow
<1>7. /\ done' \in [PolicySlot -> [promotions: Nat, rollbacks: Nat]]
      /\ done'[p].rollbacks = done[p].rollbacks + 1
      /\ done'[p].promotions = done[p].promotions
      /\ \A q \in PolicySlot : q # p => done'[q] = done[q]
      /\ done[p].promotions \in Nat /\ done[p].rollbacks \in Nat
  BY <1>0, <1>2, <1>4
<1>8. /\ ~rolling'[b].held
      /\ \A a \in Rollback : a # b => rolling'[a] = rolling[a]
      /\ rolling' \in [Rollback -> [held: {TRUE}, row: HistoryRow] \cup {NoRollback}]
  BY <1>0, <1>2 DEF NoRollback
<1>9. PolicyTyped'
  BY <1>0, <1>2, <1>6, <1>7, <1>8 DEF PolicyInv, PolicyTyped
<1>10. DraftsOK'
  <2>1. \A s \in Run : run[s] # NoRun => run[s].slot \in PolicySlot
    BY <1>0, RunRowFields
  <2>2. \A s \in Run : run'[s] # NoRun => policy'[run'[s].slot].draft # 0
    BY <1>2, <1>6, <2>1 DEF PolicyInv, DraftsOK
  <2>3. \A g \in history' : policy'[g.slot].published # 0
    BY <1>0, <1>2, <1>5, <1>6 DEF PolicyInv, DraftsOK, HistoryRow
  <2>4. \A q \in PolicySlot : policy'[q].status = "pending_eval" => policy'[q].draft # 0
    BY <1>6 DEF PolicyInv, DraftsOK
  <2> QED
    BY <2>2, <2>3, <2>4 DEF DraftsOK
<1>11. StampsOK'
  BY <1>2 DEF PolicyInv, StampsOK
<1>12. PopsOK'
  BY <1>1, <1>2, <1>8 DEF PolicyInv, PopsOK
<1>13. ASSUME NEW q \in PolicySlot, q # p PROVE CountsOK(q)'
  <2>1. CountsOK(q) /\ Promoted(q)' = Promoted(q)
    BY <1>2 DEF PolicyInv, Promoted
  <2>2. HistoryOf(q)' = HistoryOf(q)
    BY <1>2, <1>4, <1>13 DEF HistoryOf
  <2> QED
    BY <1>2, <1>6, <1>7, <1>13, <2>1, <2>2, CountsFrame
<1>14. CountsOK(p)'
  <2>0. CountsOK(p) /\ Promoted(p)' = Promoted(p)
    BY <1>2 DEF PolicyInv, Promoted
  <2>f. IsFiniteSet(HistoryOf(p))
    BY <2>0 DEF CountsOK
  <2>1. HistoryOf(p)' = HistoryOf(p) \ {h} /\ h \in HistoryOf(p)
    BY <1>2, <1>3, <1>4 DEF HistoryOf
  <2>2. /\ IsFiniteSet(HistoryOf(p)')
        /\ Cardinality(HistoryOf(p)') = Cardinality(HistoryOf(p)) - 1
    BY <2>f, <2>1, FS_RemoveElement
  <2>3. Cardinality(HistoryOf(p)) \in Nat
    BY <2>f, FS_CardinalityType
  <2>4. policy[p].published # 0
    BY <1>3, <1>4 DEF PolicyInv, DraftsOK
  <2>5. done[p].promotions = done[p].rollbacks + Cardinality(HistoryOf(p)) + 1
    BY <2>0, <2>4 DEF CountsOK
  <2>6. done'[p].promotions = done'[p].rollbacks + Cardinality(HistoryOf(p)') + 1
    BY <1>7, <2>2, <2>3, <2>5
  <2>7. policy'[p].published # 0
    BY <1>5, <1>6
  <2>8. done'[p].promotions = Cardinality(Promoted(p)') /\ IsFiniteSet(Promoted(p)')
        /\ \A s \in Promoted(p)' : ~run'[s].high /\ (run'[s].signoff => run'[s].signed)
    BY <1>2, <1>7, <2>0 DEF CountsOK
  <2> QED
    BY <2>2, <2>6, <2>7, <2>8 DEF CountsOK
<1> QED
  BY <1>9, <1>10, <1>11, <1>12, <1>13, <1>14 DEF PolicyInv

LEMMA PolicyInvariant == PolicySpec => []PolicyInv
<1>1. PolicyInit => PolicyInv
  <2> SUFFICES ASSUME PolicyInit PROVE PolicyInv
    OBVIOUS
  <2> USE PolicyAssumption
  <2>1. PolicyTyped
    BY DEF PolicyInit, PolicyTyped, PolicyRow
  <2>2. DraftsOK /\ StampsOK /\ PopsOK
    BY DEF PolicyInit, DraftsOK, StampsOK, PopsOK, NoRollback
  <2>3. ASSUME NEW p \in PolicySlot PROVE CountsOK(p)
    <3>1. Promoted(p) = {} /\ HistoryOf(p) = {}
      BY DEF PolicyInit, Promoted, HistoryOf
    <3>2. IsFiniteSet({}) /\ Cardinality({}) = 0
      BY FS_EmptySet
    <3>3. done[p].promotions = 0 /\ done[p].rollbacks = 0 /\ policy[p].published = 0
      BY DEF PolicyInit
    <3> QED
      BY <3>1, <3>2, <3>3 DEF CountsOK
  <2> QED
    BY <2>1, <2>2, <2>3 DEF PolicyInv
<1>2. PolicyInv /\ [PolicyNext]_policyVars => PolicyInv'
  <2> SUFFICES ASSUME PolicyInv, [PolicyNext]_policyVars PROVE PolicyInv'
    OBVIOUS
  <2>1. CASE Author
    BY <2>1, AuthorStep DEF Author
  <2>2. ASSUME NEW r \in Run, Review(r) PROVE PolicyInv'
    BY <2>2, ReviewStep, PromoteStep DEF Review
  <2>3. ASSUME NEW b \in Rollback, RollBackPolicy(b) PROVE PolicyInv'
    BY <2>3, PopStep, RollbackStep DEF RollBackPolicy
  <2>4. CASE UNCHANGED policyVars
    <3>1. UNCHANGED <<policy, history, run, rolling, policyTexts, begun, done>>
      BY <2>4 DEF policyVars
    <3>2. PolicyTyped' /\ DraftsOK' /\ StampsOK' /\ PopsOK'
      BY <3>1 DEF PolicyInv, PolicyTyped, DraftsOK, StampsOK, PopsOK
    <3>3. ASSUME NEW q \in PolicySlot PROVE CountsOK(q)'
      <4>1. CountsOK(q) /\ Promoted(q)' = Promoted(q) /\ HistoryOf(q)' = HistoryOf(q)
        BY <3>1 DEF PolicyInv, Promoted, HistoryOf
      <4> QED
        BY <3>1, <4>1, CountsFrame
    <3> QED
      BY <3>2, <3>3 DEF PolicyInv
  <2> QED
    BY <2>1, <2>2, <2>3, <2>4 DEF PolicyNext
<1> QED
  BY <1>1, <1>2, PTL DEF PolicySpec

\* Every publication of a slot was earned by an eval run, once, after its gate,
\* and promotions and rollbacks that overlap lose no published text
\* (_promote_pending_policy, _rollback_published_policy).
THEOREM PublicationsCorrect == PolicySpec => []PublicationsAddUp
<1>1. PolicyInv => PublicationsAddUp
  BY DEF PolicyInv, CountsOK, PublicationsAddUp, PublishedOncePerRun, HistoryIsConserved
<1> QED
  BY <1>1, PolicyInvariant, PTL

(***************************************************************************)
(* Draft turns, their reviews and what is learned                          *)
(***************************************************************************)
DraftRow ==
  [at: {"new"}, injected: {{}}]
    \cup [at: {"drafting", "drafted", "answered", "failed"}, channel: Channel,
          injected: SUBSET ExperienceId]

ReviewRow == [status: {"none", "queued", "running", "succeeded", "dead"}, attempts: Nat]

ExperienceRow ==
  {NoEntry} \cup [status: {"proposed"}, of: Draft]
    \cup [status: {"confirmed", "rejected"}, of: Draft, decided: Nat]

LearningTyped ==
  /\ workerEnv \in WorkerEnv
  /\ draft \in [Draft -> DraftRow]
  /\ review \in [Draft -> ReviewRow]
  /\ fork \in Draft \cup {NoFork}
  /\ forks \in [Draft -> Nat]
  /\ experience \in [ExperienceId -> ExperienceRow]
  /\ decisions \in [ExperienceId -> SUBSET {"confirmed", "rejected"}]

\* The one attempt of a review is spent when it is claimed, and a turn that is
\* still being made has no review.
ReviewOK(d) ==
  /\ draft[d].at \in {"new", "drafting"} => review[d].status = "none"
  /\ review[d].status \in {"none", "queued"} => review[d].attempts = 0 /\ forks[d] = 0
  /\ review[d].status = "running" => review[d].attempts = 1
  /\ forks[d] <= 1

\* A fork runs only where its proposals are kept.
ForkOK == discarded = {} /\ (fork # NoFork => workerEnv.learning)

Decided == {e \in ExperienceId : decisions[e] # {}}

\* Decisions are numbered in the order they are made.
DecisionsOK ==
  /\ IsFiniteSet(Decided)
  /\ \A e \in ExperienceId : decisions[e] = {experience[e].status} \ {"absent", "proposed"}
  /\ \A e \in Decided : experience[e].decided < Cardinality(Decided)
  /\ \A e, f \in Decided : experience[e].decided = experience[f].decided => e = f
  /\ confirmedMetric = Cardinality(Confirmed)

LearningInv ==
  /\ LearningTyped /\ ForkOK /\ DecisionsOK
  /\ \A d \in Draft : ReviewOK(d)
  /\ InjectedIsConfirmed /\ AuditedIffAnswered

LEMMA LeastOf ==
  ASSUME NEW T, T \subseteq Nat, T # {}
  PROVE  \E m \in T : \A k \in T : m <= k
<1> DEFINE R == {ss \in Nat \X Nat : ss[1] < ss[2]}
<1>1. IsWellFoundedOn(R, Nat)
  BY NatLessThanWellFounded DEF OpToRel
<1>2. \E m \in T : \A k \in T : ~(<<k, m>> \in R)
  <2> HIDE DEF R
  <2> QED
    BY <1>1, WFMin
<1>3. PICK m \in T : \A k \in T : ~(<<k, m>> \in R)
  BY <1>2
<1>4. ASSUME NEW k \in T PROVE m <= k
  <2>1. ~(k < m)
    BY <1>3
  <2> QED
    BY <2>1
<1> QED
  BY <1>4

\* Of the ids of S, numbered without repetition, those with fewer than n above
\* them are at most n.
LEMMA TopOf ==
  ASSUME NEW S, IsFiniteSet(S), NEW num \in [S -> Nat], \A e, f \in S : num[e] = num[f] => e = f,
         NEW above \in [S -> SUBSET S], \A e, f \in S : num[f] > num[e] => f \in above[e],
         NEW n \in Nat, NEW T \in SUBSET S, \A e \in T : Cardinality(above[e]) < n
  PROVE  Cardinality(T) <= n
<1>1. IsFiniteSet(T) /\ Cardinality(T) \in Nat
  BY FS_Subset, FS_CardinalityType
<1>2. CASE T = {}
  <2>1. Cardinality(T) = 0
    BY <1>2, FS_EmptySet
  <2> QED
    BY <2>1
<1>3. CASE T # {}
  <2> DEFINE N == {num[e] : e \in T}
  <2>1. N \subseteq Nat /\ N # {}
    BY <1>3
  <2>2. PICK m \in T : \A e \in T : num[m] <= num[e]
    <3>1. PICK k \in N : \A j \in N : k <= j
      <4> HIDE DEF N
      <4> QED
        BY <2>1, LeastOf
    <3>2. PICK m \in T : num[m] = k
      BY <3>1
    <3> QED
      BY <3>1, <3>2
  <2>3. T \ {m} \subseteq above[m]
    <3>1. ASSUME NEW e \in T, e # m PROVE e \in above[m]
      <4>1. num[m] <= num[e] /\ num[m] # num[e] /\ num[e] \in Nat /\ num[m] \in Nat
        BY <2>2, <3>1
      <4>2. num[e] > num[m]
        BY <4>1
      <4> QED
        BY <4>2
    <3> QED
      BY <3>1
  <2>4. /\ IsFiniteSet(above[m]) /\ Cardinality(above[m]) < n
        /\ Cardinality(above[m]) \in Nat
    <3>1. above[m] \in SUBSET S
      OBVIOUS
    <3> QED
      BY <3>1, FS_Subset, FS_CardinalityType
  <2>5. IsFiniteSet(T \ {m}) /\ Cardinality(T \ {m}) = Cardinality(T) - 1
    BY <1>1, FS_RemoveElement
  <2>6. Cardinality(T \ {m}) <= Cardinality(above[m])
    BY <2>3, <2>4, FS_Subset
  <2> QED
    BY <1>1, <2>4, <2>5, <2>6
<1> QED
  BY <1>2, <1>3

\* A decision is a confirmation or a rejection, and its row carries its number.
LEMMA DecidedRows ==
  ASSUME LearningTyped, DecisionsOK
  PROVE  /\ \A e \in Decided : e \in ExperienceId /\ experience[e].decided \in Nat
         /\ Confirmed \subseteq Decided /\ IsFiniteSet(Confirmed)
         /\ Cardinality(Confirmed) \in Nat
<1>1. ASSUME NEW e \in ExperienceId, decisions[e] # {}
      PROVE  experience[e].decided \in Nat
  <2>1. experience[e].status \notin {"absent", "proposed"}
    BY <1>1 DEF DecisionsOK
  <2>2. experience[e] \in ExperienceRow
    BY DEF LearningTyped
  <2> QED
    BY <2>1, <2>2 DEF ExperienceRow, NoEntry
<1>2. Confirmed \subseteq Decided
  BY DEF Confirmed, Decided, DecisionsOK
<1>3. IsFiniteSet(Confirmed)
  BY <1>2, FS_Subset DEF DecisionsOK
<1> QED
  BY <1>1, <1>2, <1>3, FS_CardinalityType DEF Decided

\* load_confirmed_experience returns confirmed entries, the limit at most.
LEMMA InjectableBounded ==
  ASSUME LearningTyped, DecisionsOK
  PROVE  Injectable \subseteq Confirmed /\ Cardinality(Injectable) <= InjectionLimit
<1>1. Injectable \subseteq Confirmed
  BY DEF Injectable
<1>2. IsFiniteSet(Confirmed) /\ \A e \in Confirmed : e \in Decided /\ experience[e].decided \in Nat
  BY DecidedRows
<1> DEFINE num == [e \in Confirmed |-> experience[e].decided]
<1>3. num \in [Confirmed -> Nat]
  BY <1>2
<1>4. \A e, f \in Confirmed : num[e] = num[f] => e = f
  BY <1>2 DEF DecisionsOK
<1> DEFINE above == [e \in Confirmed |->
                       {f \in Confirmed : experience[f].decided > experience[e].decided}]
<1>5. /\ above \in [Confirmed -> SUBSET Confirmed]
      /\ \A e, f \in Confirmed : num[f] > num[e] => f \in above[e]
      /\ \A e \in Injectable : Cardinality(above[e]) < InjectionLimit
  BY <1>1 DEF Injectable
<1>6. InjectionLimit \in Nat
  BY LearningAssumption
<1> HIDE DEF num, above
<1>7. Cardinality(Injectable) <= InjectionLimit
  BY <1>1, <1>2, <1>3, <1>4, <1>5, <1>6, TopOf
<1> QED
  BY <1>1, <1>7

\* Steps that leave the entries alone.
LEMMA EntriesFrame ==
  ASSUME DecisionsOK, UNCHANGED entryVars
  PROVE  DecisionsOK' /\ Confirmed' = Confirmed
<1>1. Decided' = Decided /\ Confirmed' = Confirmed
  BY DEF entryVars, Decided, Confirmed
<1> QED
  BY <1>1 DEF DecisionsOK, entryVars

\* A step of one draft turn: its row, and the review and the audit row it
\* leaves when it is made and when it is answered.
LEMMA DraftMoves ==
  ASSUME LearningInv, NEW d \in Draft, NEW row \in DraftRow, draft' = [draft EXCEPT ![d] = row],
         row.injected \subseteq Confirmed, Cardinality(row.injected) <= InjectionLimit,
         row.at \in {"new", "drafting"} => draft[d].at \in {"new", "drafting"},
         \/ review' = review
         \/ /\ row.at = "drafted" /\ draft[d].at = "drafting"
            /\ review' = [review EXCEPT ![d] = [status |-> "queued", attempts |-> 0]],
         d \in draftAudit' <=> row.at = "answered" /\ row.channel # Chat,
         \A c \in Draft : c # d => (c \in draftAudit' <=> c \in draftAudit),
         UNCHANGED <<fork, discarded, forks, entryVars, envVars>>
  PROVE  LearningInv'
<1>0. /\ draft \in [Draft -> DraftRow] /\ review \in [Draft -> ReviewRow]
  BY DEF LearningInv, LearningTyped
<1>1. draft'[d] = row /\ \A c \in Draft : c # d => draft'[c] = draft[c]
  BY <1>0
<1>2. DecisionsOK' /\ Confirmed' = Confirmed
  BY EntriesFrame DEF LearningInv
<1>3. ForkOK'
  BY DEF LearningInv, ForkOK, envVars
<1>4. LearningTyped'
  <2>1. [status |-> "queued", attempts |-> 0] \in ReviewRow
    BY DEF ReviewRow
  <2>2. draft' \in [Draft -> DraftRow] /\ review' \in [Draft -> ReviewRow]
    BY <1>0, <2>1
  <2> QED
    BY <2>2 DEF LearningInv, LearningTyped, entryVars, envVars
<1>5. ASSUME NEW c \in Draft PROVE ReviewOK(c)'
  <2>0. ReviewOK(c)
    BY DEF LearningInv
  <2>1. CASE review' = review
    BY <1>1, <2>0, <2>1 DEF ReviewOK
  <2>2. CASE review' # review
    <3>1. /\ row.at = "drafted" /\ draft[d].at = "drafting"
          /\ review'[d].status = "queued" /\ review'[d].attempts = 0
          /\ c # d => review'[c] = review[c]
      BY <1>0, <2>2
    <3> QED
      BY <1>1, <2>0, <3>1 DEF ReviewOK
  <2> QED
    BY <2>1, <2>2
<1>6. InjectedIsConfirmed'
  <2>1. \A c \in Draft : /\ draft'[c].injected \subseteq Confirmed
                         /\ Cardinality(draft'[c].injected) <= InjectionLimit
    BY <1>1 DEF LearningInv, InjectedIsConfirmed
  <2> QED
    BY <1>2, <2>1 DEF InjectedIsConfirmed
<1>7. AuditedIffAnswered'
  BY <1>1 DEF LearningInv, AuditedIffAnswered
<1> QED
  BY <1>2, <1>3, <1>4, <1>5, <1>6, <1>7 DEF LearningInv

LEMMA DraftStep ==
  ASSUME LearningInv, NEW d \in Draft, DraftTurn(d)
  PROVE  LearningInv'
<1>0. /\ draft[d] \in DraftRow
      /\ draft[d].injected \subseteq Confirmed /\ Cardinality(draft[d].injected) <= InjectionLimit
      /\ d \in draftAudit <=> draft[d].at = "answered" /\ draft[d].channel # Chat
  BY DEF LearningInv, LearningTyped, InjectedIsConfirmed, AuditedIffAnswered
<1>1. ASSUME NEW c \in Channel, NEW readable \in BOOLEAN, BeginDraft(d, c, readable)
      PROVE  LearningInv'
  <2> DEFINE row == [at |-> "drafting", channel |-> c,
                     injected |-> IF copilotEnv.inject /\ readable THEN Injectable ELSE {}]
  <2>1. /\ draft[d].at = "new" /\ draft' = [draft EXCEPT ![d] = row]
        /\ UNCHANGED <<draftAudit, review, fork, discarded, forks, entryVars, envVars>>
    BY <1>1 DEF BeginDraft, jobVars
  <2>2. Injectable \subseteq Confirmed /\ Cardinality(Injectable) <= InjectionLimit
    BY InjectableBounded DEF LearningInv
  <2>3. {} \subseteq Confirmed /\ Cardinality({}) <= InjectionLimit
    BY FS_EmptySet, LearningAssumption
  <2>4. row.injected = Injectable \/ row.injected = {}
    OBVIOUS
  <2>5. row \in DraftRow
    <3>1. Injectable \subseteq ExperienceId
      BY <2>2 DEF Confirmed
    <3> QED
      BY <3>1 DEF DraftRow
  <2>6. row.at = "drafting"
    OBVIOUS
  <2> HIDE DEF row
  <2>7. row.injected \subseteq Confirmed /\ Cardinality(row.injected) <= InjectionLimit
    BY <2>2, <2>3, <2>4
  <2> QED
    BY <1>0, <2>1, <2>5, <2>6, <2>7, DraftMoves
<1>2. ASSUME draft[d].at \in {"drafting", "drafted"}, NEW at \in {"drafted", "answered", "failed"},
             draft' = [draft EXCEPT ![d].at = at],
             \/ review' = review
             \/ /\ at = "drafted" /\ draft[d].at = "drafting"
                /\ review' = [review EXCEPT ![d] = [status |-> "queued", attempts |-> 0]],
             d \in draftAudit' <=> at = "answered" /\ draft[d].channel # Chat,
             \A c \in Draft : c # d => (c \in draftAudit' <=> c \in draftAudit),
             UNCHANGED <<fork, discarded, forks, entryVars, envVars>>
      PROVE  LearningInv'
  <2> DEFINE row == [draft[d] EXCEPT !.at = at]
  <2>1. draft' = [draft EXCEPT ![d] = row]
    BY <1>2
  <2>2. /\ row \in DraftRow /\ row.at = at /\ row.channel = draft[d].channel
        /\ row.injected = draft[d].injected
    BY <1>0, <1>2 DEF DraftRow
  <2> HIDE DEF row
  <2>3. /\ row.injected \subseteq Confirmed /\ Cardinality(row.injected) <= InjectionLimit
        /\ row.at \notin {"new", "drafting"}
        /\ d \in draftAudit' <=> row.at = "answered" /\ row.channel # Chat
    BY <1>0, <1>2, <2>2
  <2>4. \/ review' = review
        \/ /\ row.at = "drafted" /\ draft[d].at = "drafting"
           /\ review' = [review EXCEPT ![d] = [status |-> "queued", attempts |-> 0]]
    BY <1>2, <2>2
  <2>5. /\ \A c \in Draft : c # d => (c \in draftAudit' <=> c \in draftAudit)
        /\ UNCHANGED <<fork, discarded, forks, entryVars, envVars>>
    BY <1>2
  <2> QED
    BY <2>1, <2>2, <2>3, <2>4, <2>5, DraftMoves
<1>3. CASE DraftRaises(d)
  BY <1>0, <1>2, <1>3 DEF DraftRaises, jobVars
<1>4. ASSUME NEW enqueued \in BOOLEAN, FinishDraft(d, enqueued) PROVE LearningInv'
  BY <1>0, <1>2, <1>4 DEF FinishDraft
<1>5. CASE AuditRaises(d)
  BY <1>0, <1>2, <1>5 DEF AuditRaises, jobVars
<1>6. CASE AnswerDraft(d)
  BY <1>0, <1>2, <1>6 DEF AnswerDraft, jobVars
<1> QED
  BY <1>1, <1>3, <1>4, <1>5, <1>6 DEF DraftTurn

\* A step of one review job.
LEMMA JobMoves ==
  ASSUME LearningInv, NEW d \in Draft, NEW row \in ReviewRow, review' = [review EXCEPT ![d] = row],
         forks' \in [Draft -> Nat], \A c \in Draft : c # d => forks'[c] = forks[c], forks'[d] <= 1,
         row.status \in {"running", "succeeded", "dead"}, row.status = "running" => row.attempts = 1,
         review[d].status # "none",
         fork' \in Draft \cup {NoFork}, fork' # NoFork => workerEnv.learning,
         UNCHANGED <<turnVars, discarded, entryVars, envVars>>
  PROVE  LearningInv'
<1>0. review \in [Draft -> ReviewRow]
  BY DEF LearningInv, LearningTyped
<1>1. review'[d] = row /\ \A c \in Draft : c # d => review'[c] = review[c]
  BY <1>0
<1>2. DecisionsOK' /\ Confirmed' = Confirmed
  BY EntriesFrame DEF LearningInv
<1>3. ForkOK'
  BY DEF LearningInv, ForkOK, envVars
<1>4. LearningTyped'
  BY <1>0 DEF LearningInv, LearningTyped, turnVars, entryVars, envVars
<1>5. ASSUME NEW c \in Draft PROVE ReviewOK(c)'
  <2>0. ReviewOK(c) /\ ReviewOK(d)
    BY DEF LearningInv
  <2>1. CASE c = d
    BY <1>1, <2>0, <2>1 DEF ReviewOK, turnVars
  <2>2. CASE c # d
    BY <1>1, <2>0, <2>2 DEF ReviewOK, turnVars
  <2> QED
    BY <2>1, <2>2
<1>6. InjectedIsConfirmed' /\ AuditedIffAnswered'
  BY <1>2 DEF LearningInv, InjectedIsConfirmed, AuditedIffAnswered, turnVars
<1> QED
  BY <1>2, <1>3, <1>4, <1>5, <1>6 DEF LearningInv

\* fail() of a job whose only attempt is spent: it is dead.
LEMMA FailedIsDead ==
  ASSUME NEW job \in ReviewRow, job.attempts = 1
  PROVE  Failed(job) \in ReviewRow /\ Failed(job).status = "dead"
BY DEF Failed, ReviewRow, MaxAttempts

LEMMA ReviewJobStep ==
  ASSUME LearningInv,
         \/ \E d \in Draft : ClaimReview(d) \/ SweepReview(d)
         \/ ForkEnds \/ ForkRaises
  PROVE  LearningInv'
<1>0. /\ review \in [Draft -> ReviewRow] /\ forks \in [Draft -> Nat]
      /\ fork \in Draft \cup {NoFork}
      /\ \A d \in Draft : review[d] \in ReviewRow /\ ReviewOK(d)
      /\ fork # NoFork => workerEnv.learning
  BY DEF LearningInv, LearningTyped, ForkOK
<1>f. \A d \in Draft : forks[d] <= 1
  BY <1>0 DEF ReviewOK
<1>1. ASSUME NEW d \in Draft, ClaimReview(d) PROVE LearningInv'
  <2> DEFINE claimed == [status |-> "running", attempts |-> review[d].attempts + 1]
  <2>1. /\ review[d].status = "queued"
        /\ IF Writable THEN /\ review' = [review EXCEPT ![d] = claimed]
                            /\ fork' = d /\ forks' = [forks EXCEPT ![d] = @ + 1]
           ELSE review' = [review EXCEPT ![d] = Failed(claimed)] /\ UNCHANGED <<fork, forks>>
        /\ UNCHANGED <<turnVars, discarded, entryVars, envVars>>
    BY <1>1 DEF ClaimReview
  <2>2. review[d].attempts = 0 /\ forks[d] = 0
    BY <1>0, <2>1 DEF ReviewOK
  <2>3. claimed \in ReviewRow /\ claimed.attempts = 1 /\ claimed.status = "running"
    BY <2>2 DEF ReviewRow
  <2> HIDE DEF claimed
  <2>4. CASE Writable
    <3>1. /\ review' = [review EXCEPT ![d] = claimed] /\ fork' = d
          /\ forks' = [forks EXCEPT ![d] = @ + 1]
      BY <2>1, <2>4
    <3>2. /\ forks' \in [Draft -> Nat] /\ forks'[d] <= 1
          /\ \A c \in Draft : c # d => forks'[c] = forks[c]
      BY <1>0, <2>2, <3>1
    <3>3. workerEnv.learning
      BY <2>4 DEF Writable
    <3> QED
      BY <2>1, <2>3, <3>1, <3>2, <3>3, JobMoves
  <2>5. CASE ~Writable
    <3>1. Failed(claimed) \in ReviewRow /\ Failed(claimed).status = "dead"
      BY <2>3, FailedIsDead
    <3>2. review' = [review EXCEPT ![d] = Failed(claimed)] /\ fork' = fork /\ forks' = forks
      BY <2>1, <2>5
    <3> QED
      BY <1>0, <1>f, <2>1, <3>1, <3>2, JobMoves
  <2> QED
    BY <2>4, <2>5
<1>2. ASSUME NEW d \in Draft, review[d].status = "running",
             \/ review' = [review EXCEPT ![d] = Failed(review[d])]
             \/ review' = [review EXCEPT ![d].status = "succeeded"],
             fork' \in {fork, NoFork}, UNCHANGED <<turnVars, discarded, forks, entryVars, envVars>>
      PROVE  LearningInv'
  <2>1. review[d] \in ReviewRow /\ review[d].attempts = 1
    BY <1>0, <1>2 DEF ReviewOK
  <2>2. Failed(review[d]) \in ReviewRow /\ Failed(review[d]).status = "dead"
    BY <2>1, FailedIsDead
  <2>3. PICK row \in ReviewRow :
          row.status \in {"succeeded", "dead"} /\ review' = [review EXCEPT ![d] = row]
    <3>1. CASE review' = [review EXCEPT ![d] = Failed(review[d])]
      BY <2>2, <3>1
    <3>2. CASE review' = [review EXCEPT ![d].status = "succeeded"]
      <4>1. [review[d] EXCEPT !.status = "succeeded"] \in ReviewRow
        BY <2>1 DEF ReviewRow
      <4>2. [review[d] EXCEPT !.status = "succeeded"].status = "succeeded"
        BY <2>1 DEF ReviewRow
      <4> QED
        BY <3>2, <4>1, <4>2
    <3> QED
      BY <1>2, <3>1, <3>2
  <2> QED
    BY <1>0, <1>f, <1>2, <2>3, JobMoves
<1>3. ASSUME NEW d \in Draft, SweepReview(d) PROVE LearningInv'
  BY <1>2, <1>3 DEF SweepReview
<1>4. CASE ForkEnds \/ ForkRaises
  <2>1. /\ fork # NoFork /\ fork \in Draft /\ fork' = NoFork
        /\ UNCHANGED <<turnVars, discarded, forks, entryVars, envVars>>
    BY <1>0, <1>4 DEF ForkEnds, ForkRaises
  <2>2. CASE review[fork].status = "running"
    <3>1. \/ review' = [review EXCEPT ![fork] = Failed(review[fork])]
          \/ review' = [review EXCEPT ![fork].status = "succeeded"]
      BY <1>4, <2>2 DEF ForkEnds, ForkRaises
    <3> QED
      BY <1>2, <2>1, <2>2, <3>1
  <2>3. CASE review[fork].status # "running"
    <3>1. review' = review
      BY <1>4, <2>3 DEF ForkEnds, ForkRaises
    <3>2. DecisionsOK' /\ Confirmed' = Confirmed
      BY <2>1, EntriesFrame DEF LearningInv
    <3>3. LearningTyped' /\ ForkOK'
      BY <2>1, <3>1 DEF LearningInv, LearningTyped, ForkOK, turnVars, entryVars, envVars
    <3>4. ASSUME NEW c \in Draft PROVE ReviewOK(c)'
      BY <1>0, <2>1, <3>1 DEF ReviewOK, turnVars
    <3>5. InjectedIsConfirmed' /\ AuditedIffAnswered'
      BY <2>1, <3>2 DEF LearningInv, InjectedIsConfirmed, AuditedIffAnswered, turnVars
    <3> QED
      BY <3>2, <3>3, <3>4, <3>5 DEF LearningInv
  <2> QED
    BY <2>2, <2>3
<1> QED
  BY <1>1, <1>3, <1>4

\* A proposal and a decision change one entry; a restart the worker's
\* environment and the fork it ran.
LEMMA ProposeStep ==
  ASSUME LearningInv, NEW e \in ExperienceId, ProposeExperience(e)
  PROVE  LearningInv'
<1>0. /\ experience \in [ExperienceId -> ExperienceRow]
      /\ decisions \in [ExperienceId -> SUBSET {"confirmed", "rejected"}]
      /\ fork \in Draft \cup {NoFork} /\ discarded = {}
      /\ fork # NoFork => workerEnv.learning
  BY DEF LearningInv, LearningTyped, ForkOK
<1> DEFINE row == [status |-> "proposed", of |-> fork]
<1>1. /\ experience' = [experience EXCEPT ![e] = row] /\ fork \in Draft
      /\ experience[e].status = "absent" /\ UNCHANGED discarded
      /\ UNCHANGED <<turnVars, review, fork, forks, decisions, confirmedMetric, envVars>>
  BY <1>0 DEF ProposeExperience
<1>2. row \in ExperienceRow /\ row.status = "proposed"
  BY <1>1 DEF ExperienceRow
<1> HIDE DEF row
<1>3. experience'[e] = row /\ \A f \in ExperienceId : f # e => experience'[f] = experience[f]
  BY <1>0, <1>1
<1>4. LearningTyped' /\ ForkOK'
  BY <1>0, <1>1, <1>2, <1>3
     DEF LearningInv, LearningTyped, ForkOK, turnVars, envVars
<1>5. Confirmed' = Confirmed /\ Decided' = Decided
  BY <1>1, <1>2, <1>3 DEF Confirmed, Decided
<1>6. e \notin Decided
  BY <1>1 DEF LearningInv, DecisionsOK, Decided
<1>7. DecisionsOK'
  <2>1. \A f \in ExperienceId : decisions'[f] = {experience'[f].status} \ {"absent", "proposed"}
    BY <1>1, <1>2, <1>3 DEF LearningInv, DecisionsOK
  <2>2. \A f \in Decided : experience'[f] = experience[f]
    BY <1>3, <1>6 DEF Decided
  <2>3. /\ \A f \in Decided : experience[f].decided < Cardinality(Decided)
        /\ \A f, g \in Decided : experience[f].decided = experience[g].decided => f = g
        /\ IsFiniteSet(Decided) /\ confirmedMetric = Cardinality(Confirmed)
    BY DEF LearningInv, DecisionsOK
  <2> QED
    BY <1>1, <1>5, <2>1, <2>2, <2>3 DEF DecisionsOK
<1>8. ASSUME NEW d \in Draft PROVE ReviewOK(d)'
  BY <1>1 DEF LearningInv, ReviewOK, turnVars
<1>9. InjectedIsConfirmed' /\ AuditedIffAnswered'
  BY <1>1, <1>5 DEF LearningInv, InjectedIsConfirmed, AuditedIffAnswered, turnVars
<1> QED
  BY <1>4, <1>7, <1>8, <1>9 DEF LearningInv

LEMMA DecideStep ==
  ASSUME LearningInv, NEW e \in ExperienceId, NEW verdict \in {"confirmed", "rejected"},
         Decide(e, verdict)
  PROVE  LearningInv'
<1>0. /\ experience \in [ExperienceId -> ExperienceRow]
      /\ decisions \in [ExperienceId -> SUBSET {"confirmed", "rejected"}]
      /\ IsFiniteSet(Decided) /\ Cardinality(Decided) \in Nat
      /\ \A f \in Decided : experience[f].decided < Cardinality(Decided)
      /\ \A f, g \in Decided : experience[f].decided = experience[g].decided => f = g
      /\ \A f \in ExperienceId : decisions[f] = {experience[f].status} \ {"absent", "proposed"}
      /\ confirmedMetric = Cardinality(Confirmed)
      /\ IsFiniteSet(Confirmed) /\ Cardinality(Confirmed) \in Nat /\ Confirmed \subseteq Decided
      /\ \A f \in Decided : f \in ExperienceId /\ experience[f].decided \in Nat
  BY DecidedRows, FS_CardinalityType DEF LearningInv, LearningTyped, DecisionsOK
<1> DEFINE row == [status |-> verdict, of |-> experience[e].of, decided |-> Cardinality(Decided)]
<1>1. /\ experience' = [experience EXCEPT ![e] = row]
      /\ experience[e].status = "proposed"
      /\ decisions' = [decisions EXCEPT ![e] = @ \cup {verdict}]
      /\ confirmedMetric' = IF verdict = "confirmed" THEN confirmedMetric + 1 ELSE confirmedMetric
      /\ UNCHANGED <<turnVars, jobVars, envVars>>
  BY DEF Decide, Decidable, Decided
<1>2. row \in ExperienceRow /\ row.status = verdict /\ row.decided = Cardinality(Decided)
  <2>1. experience[e].of \in Draft
    BY <1>0, <1>1 DEF ExperienceRow, NoEntry
  <2> QED
    BY <1>0, <2>1 DEF ExperienceRow
<1> HIDE DEF row
<1>3. experience'[e] = row /\ \A f \in ExperienceId : f # e => experience'[f] = experience[f]
  BY <1>0, <1>1
<1>4. decisions[e] = {} /\ decisions'[e] = {verdict}
      /\ \A f \in ExperienceId : f # e => decisions'[f] = decisions[f]
  BY <1>0, <1>1
<1>5. Decided' = Decided \cup {e} /\ e \notin Decided
  BY <1>4 DEF Decided
<1>6. IsFiniteSet(Decided') /\ Cardinality(Decided') = Cardinality(Decided) + 1
  BY <1>0, <1>5, FS_AddElement
<1>7. \A f \in Decided : experience'[f] = experience[f]
  BY <1>0, <1>3, <1>5
<1>8. LearningTyped' /\ ForkOK'
  BY <1>0, <1>1, <1>2, <1>3
     DEF LearningInv, LearningTyped, ForkOK, turnVars, jobVars, envVars
<1>9. Confirmed' = IF verdict = "confirmed" THEN Confirmed \cup {e} ELSE Confirmed
  BY <1>1, <1>2, <1>3 DEF Confirmed
<1>10. DecisionsOK'
  <2>1. \A f \in ExperienceId : decisions'[f] = {experience'[f].status} \ {"absent", "proposed"}
    BY <1>0, <1>2, <1>3, <1>4
  <2>2. ASSUME NEW f \in Decided' PROVE experience'[f].decided < Cardinality(Decided')
    <3>1. CASE f = e
      BY <1>0, <1>2, <1>3, <1>6, <3>1
    <3>2. CASE f \in Decided
      <4>1. /\ experience'[f].decided = experience[f].decided /\ experience[f].decided \in Nat
            /\ experience[f].decided < Cardinality(Decided)
        BY <1>0, <1>7, <3>2
      <4> QED
        BY <1>0, <1>6, <4>1
    <3> QED
      BY <1>5, <3>1, <3>2
  <2>3. ASSUME NEW f \in Decided PROVE experience'[f].decided # experience'[e].decided
    <3>1. /\ experience'[f].decided = experience[f].decided /\ experience[f].decided \in Nat
          /\ experience[f].decided < Cardinality(Decided)
      BY <1>0, <1>7
    <3> QED
      BY <1>0, <1>2, <1>3, <3>1
  <2>4. \A f, g \in Decided' : experience'[f].decided = experience'[g].decided => f = g
    BY <1>0, <1>5, <1>7, <2>3
  <2>5. confirmedMetric' = Cardinality(Confirmed')
    <3>1. CASE verdict = "confirmed"
      <4>1. e \notin Confirmed
        BY <1>0, <1>5
      <4> QED
        BY <1>0, <1>1, <1>9, <3>1, <4>1, FS_AddElement
    <3>2. CASE verdict # "confirmed"
      BY <1>0, <1>1, <1>9, <3>2
    <3> QED
      BY <3>1, <3>2
  <2> QED
    BY <1>6, <2>1, <2>2, <2>4, <2>5 DEF DecisionsOK
<1>11. ASSUME NEW d \in Draft PROVE ReviewOK(d)'
  BY <1>1 DEF LearningInv, ReviewOK, turnVars, jobVars
<1>12. InjectedIsConfirmed'
  <2>1. Confirmed \subseteq Confirmed'
    BY <1>9
  <2> QED
    BY <1>1, <2>1 DEF LearningInv, InjectedIsConfirmed, turnVars
<1>13. AuditedIffAnswered'
  BY <1>1 DEF LearningInv, AuditedIffAnswered, turnVars
<1> QED
  BY <1>8, <1>10, <1>11, <1>12, <1>13 DEF LearningInv

LEMMA LearningInvariant == LearningSpec => []LearningInv
<1>1. LearningInit => LearningInv
  <2> SUFFICES ASSUME LearningInit PROVE LearningInv
    OBVIOUS
  <2>1. Decided = {} /\ Confirmed = {}
    BY DEF LearningInit, Decided, Confirmed, NoEntry
  <2>2. IsFiniteSet({}) /\ Cardinality({}) = 0
    BY FS_EmptySet
  <2>3. LearningTyped
    BY DEF LearningInit, LearningTyped, DraftRow, ReviewRow, NoReview, ExperienceRow
  <2>4. ForkOK
    BY DEF LearningInit, ForkOK
  <2>5. DecisionsOK
    BY <2>1, <2>2 DEF LearningInit, DecisionsOK, NoEntry
  <2>6. ASSUME NEW d \in Draft PROVE ReviewOK(d)
    BY DEF LearningInit, ReviewOK, NoReview
  <2>7. InjectedIsConfirmed
    BY <2>2, LearningAssumption DEF LearningInit, InjectedIsConfirmed
  <2>8. AuditedIffAnswered
    BY DEF LearningInit, AuditedIffAnswered
  <2> QED
    BY <2>3, <2>4, <2>5, <2>6, <2>7, <2>8 DEF LearningInv
<1>2. LearningInv /\ [LearningNext]_learningVars => LearningInv'
  <2> SUFFICES ASSUME LearningInv, [LearningNext]_learningVars PROVE LearningInv'
    OBVIOUS
  <2>1. ASSUME NEW d \in Draft, DraftTurn(d) PROVE LearningInv'
    BY <2>1, DraftStep
  <2>2. ASSUME NEW e \in ExperienceId, NEW verdict \in {"confirmed", "rejected"}, Decide(e, verdict)
        PROVE  LearningInv'
    BY <2>2, DecideStep
  <2>3. ASSUME UNCHANGED <<turnVars, review, discarded, forks, entryVars>>, workerEnv' \in WorkerEnv,
               \/ fork' = NoFork
               \/ fork' = fork /\ workerEnv' = workerEnv
        PROVE  LearningInv'
    <3>1. DecisionsOK' /\ Confirmed' = Confirmed
      BY <2>3, EntriesFrame DEF LearningInv
    <3>2. LearningTyped' /\ ForkOK'
      BY <2>3 DEF LearningInv, LearningTyped, ForkOK, turnVars, entryVars
    <3>3. ASSUME NEW d \in Draft PROVE ReviewOK(d)'
      BY <2>3 DEF LearningInv, ReviewOK, turnVars
    <3>4. InjectedIsConfirmed' /\ AuditedIffAnswered'
      BY <2>3, <3>1 DEF LearningInv, InjectedIsConfirmed, AuditedIffAnswered, turnVars
    <3> QED
      BY <3>1, <3>2, <3>3, <3>4 DEF LearningInv
  <2>4. ASSUME NEW env \in WorkerEnv, RestartWorker(env) PROVE LearningInv'
    BY <2>3, <2>4 DEF RestartWorker
  <2>5. CASE UNCHANGED learningVars
    BY <2>3, <2>5 DEF LearningInv, LearningTyped, learningVars, jobVars, envVars
  <2> QED
    BY <2>1, <2>2, <2>4, <2>5, ReviewJobStep, ProposeStep DEF LearningNext, ReviewWorker
<1> QED
  BY <1>1, <1>2, PTL DEF LearningSpec

\* A turn is reviewed at most once, what its review proposed is kept, and an
\* answered draft is on record, through every failure, sweep and restart
\* (copilot_turn.py, background_worker.py, agent_turn_app.py).
THEOREM ReviewsCorrect == LearningSpec => []ReviewsAreSound
<1>1. LearningInv => ReviewsAreSound
  BY DEF LearningInv, ForkOK, ReviewOK, ReviewsAreSound, OneForkPerTurn, SucceededReviewsAreDurable
<1> QED
  BY <1>1, LearningInvariant, PTL

\* What later drafts learn from, at most the limit of it, one administrator had
\* confirmed, once and for good (_decide_experience, load_confirmed_experience).
THEOREM LessonsCorrect == LearningSpec => []LessonsAreDecided
<1>1. LearningInv => LessonsAreDecided
  BY DEF LearningInv, DecisionsOK, LessonsAreDecided, DecidedOnce
<1> QED
  BY <1>1, LearningInvariant, PTL

(***************************************************************************)
(* Integration health                                                      *)
(***************************************************************************)
ProbeResult == [key: Key, status: Status]

ProberRow ==
  [state: {"idle", "probing", "writing", "done", "refused"}, key: 0..Integrations,
   check: {"none", "pending", "returned", "raised"}, results: Seq(ProbeResult)]

ProbeRow == [key: Key, status: Status, at: Nat, by: Prober]

ProbesTyped ==
  /\ day \in Nat
  /\ prober \in [Prober -> ProberRow]
  /\ probeRows \subseteq ProbeRow
  /\ probeLog \in [AdminCall -> {"none", "reprobed", "reconnected"}]

\* The results in hand are those of the checks made so far, in the order of
\* PROBES, and each good one was answered.
ProberOK(p) ==
  /\ prober[p].state = "probing" => prober[p].key \in Key
  /\ p \in Cycle /\ prober[p].state = "probing" => Len(prober[p].results) + 1 = prober[p].key
  /\ p \in Cycle /\ prober[p].state = "writing" => Len(prober[p].results) = Integrations
  /\ \A i \in DOMAIN prober[p].results :
       /\ p \in Cycle => prober[p].results[i].key = i
       /\ prober[p].results[i].status = "ok" => <<p, prober[p].results[i].key>> \in told
  /\ prober[p].check = "returned" => <<p, prober[p].key>> \in told

\* The rows of one prober are written together and are pruned together.
ProbeRowsOK ==
  /\ \A r \in probeRows : r.status = "ok" => <<r.by, r.key>> \in told
  /\ \A r \in probeRows : prober[r.by].state = "done"
  /\ \A r, s \in probeRows : r.by = s.by => r.at = s.at
  /\ \A r, s \in probeRows : r.by \in Cycle /\ r.by = s.by /\ r.key = s.key => r = s
  /\ \A r \in probeRows, k \in Key :
       r.by \in Cycle => \E s \in probeRows : s.by = r.by /\ s.key = k

AdminOK(p) ==
  /\ prober[p].state # "done" => probeLog[p] = "none"
  /\ p \in links <=> probeLog[p] = "reconnected"
  /\ \A r \in probeRows : r.by = p => probeLog[p] = "reprobed"

ProbeInv ==
  /\ ProbesTyped /\ ProbeRowsOK
  /\ \A p \in Prober : ProberOK(p)
  /\ \A p \in AdminCall : AdminOK(p)

LEMMA ProberFrame ==
  ASSUME NEW p \in Prober, ProberOK(p), prober'[p] = prober[p], told \subseteq told'
  PROVE  ProberOK(p)'
BY DEF ProberOK

\* A step of one prober that has no row yet and writes none.
LEMMA ProberMoves ==
  ASSUME ProbeInv, NEW p \in Prober, prober[p].state # "done",
         NEW row \in ProberRow, prober' = [prober EXCEPT ![p] = row], told \subseteq told',
         UNCHANGED <<day, probeRows>>,
         probeLog' \in [AdminCall -> {"none", "reprobed", "reconnected"}],
         \A q \in AdminCall : q # p => probeLog'[q] = probeLog[q] /\ (q \in links' <=> q \in links),
         ProberOK(p)', p \in AdminCall => AdminOK(p)'
  PROVE  ProbeInv'
<1>0. prober \in [Prober -> ProberRow] /\ probeRows \subseteq ProbeRow
  BY DEF ProbeInv, ProbesTyped
<1>1. prober'[p] = row /\ \A q \in Prober : q # p => prober'[q] = prober[q]
  BY <1>0
<1>2. \A r \in probeRows : r.by # p /\ r.by \in Prober /\ prober'[r.by] = prober[r.by]
  BY <1>0, <1>1 DEF ProbeInv, ProbeRowsOK, ProbeRow
<1>3. ProbesTyped'
  BY <1>0 DEF ProbeInv, ProbesTyped
<1>4. ProbeRowsOK'
  BY <1>2 DEF ProbeInv, ProbeRowsOK
<1>5. \A q \in Prober : ProberOK(q)'
  BY <1>1, ProberFrame DEF ProbeInv
<1>6. ASSUME NEW q \in AdminCall, q # p PROVE AdminOK(q)'
  <2>1. q \in Prober
    BY DEF Prober
  <2> QED
    BY <1>1, <1>6, <2>1 DEF ProbeInv, AdminOK
<1> QED
  BY <1>3, <1>4, <1>5, <1>6 DEF ProbeInv

\* Idle, probing the first or the chosen integration, or refused: nothing is in
\* hand and no call is on record.
LEMMA StartStep ==
  ASSUME ProbeInv, NEW p \in Prober,
         \/ p \in Cycle /\ (StartCycle(p) \/ RecordRaises(p))
         \/ p \in AdminCall /\ (StartReprobe(p) \/ ReprobeRaises(p))
  PROVE  ProbeInv'
<1>0. /\ prober \in [Prober -> ProberRow] /\ prober[p] \in ProberRow /\ ProberOK(p)
      /\ Integrations \in Nat \ {0} /\ 1 \in Key /\ 1 \in 0..Integrations /\ 0 \in 0..Integrations
      /\ \A k \in Key : k \in 0..Integrations
      /\ probeLog \in [AdminCall -> {"none", "reprobed", "reconnected"}]
      /\ p \in AdminCall => AdminOK(p) /\ p \notin Cycle
  BY ProbeAssumption DEF ProbeInv, ProbesTyped, Key
<1>1. /\ prober[p].state # "done"
      /\ UNCHANGED <<day, configured, probeRows, probeLog, links, told>>
  BY DEF StartCycle, RecordRaises, StartReprobe, ReprobeRaises
<1>e. <<>> \in Seq(ProbeResult) /\ Len(<<>>) = 0 /\ DOMAIN <<>> = {}
  OBVIOUS
<1>2. ASSUME NEW k \in Key, NEW check \in {"none", "pending"}, p \in Cycle => k = 1,
             prober' = [prober EXCEPT
               ![p] = [state |-> "probing", key |-> k, check |-> check, results |-> <<>>]]
      PROVE  ProbeInv'
  <2> DEFINE row == [state |-> "probing", key |-> k, check |-> check, results |-> <<>>]
  <2>1. row \in ProberRow
    BY <1>0, <1>e DEF ProberRow
  <2>2. prober'[p] = row
    BY <1>0, <1>2
  <2>3. ProberOK(p)'
    BY <1>e, <1>2, <2>2 DEF ProberOK
  <2>4. p \in AdminCall => AdminOK(p)'
    BY <1>0, <1>1, <2>2 DEF AdminOK
  <2> HIDE DEF row
  <2> QED
    BY <1>0, <1>1, <1>2, <2>1, <2>3, <2>4, ProberMoves DEF row
<1>3. ASSUME NEW state \in {"idle", "refused"},
             prober' = [prober EXCEPT ![p].state = state]
      PROVE  ProbeInv'
  <2> DEFINE row == [prober[p] EXCEPT !.state = state]
  <2>1. /\ row \in ProberRow /\ row.state = state /\ row.results = prober[p].results
        /\ row.key = prober[p].key /\ row.check = prober[p].check
    BY <1>0 DEF ProberRow
  <2> HIDE DEF row
  <2>2. prober'[p] = row /\ prober' = [prober EXCEPT ![p] = row]
    BY <1>0, <1>3 DEF row
  <2>3. ProberOK(p)'
    BY <1>0, <1>1, <2>1, <2>2 DEF ProberOK
  <2>4. p \in AdminCall => AdminOK(p)'
    BY <1>0, <1>1, <2>1, <2>2 DEF AdminOK
  <2> QED
    BY <1>0, <1>1, <2>1, <2>2, <2>3, <2>4, ProberMoves
<1>4. CASE p \in Cycle /\ StartCycle(p)
  <2>1. Submitted(1) \in {"none", "pending"}
    BY DEF Submitted
  <2>2. prober' = [prober EXCEPT
          ![p] = [state |-> "probing", key |-> 1, check |-> Submitted(1), results |-> <<>>]]
    BY <1>4 DEF StartCycle, FirstCheck
  <2> QED
    BY <1>0, <1>2, <2>1, <2>2
<1>5. CASE p \in AdminCall /\ StartReprobe(p)
  <2>1. ASSUME NEW k \in Key,
               prober' = [prober EXCEPT ![p] = FirstCheck(k)]
        PROVE  ProbeInv'
    <3>1. Submitted(k) \in {"none", "pending"}
      BY DEF Submitted
    <3>2. prober' = [prober EXCEPT
            ![p] = [state |-> "probing", key |-> k, check |-> Submitted(k), results |-> <<>>]]
      BY <2>1 DEF FirstCheck
    <3> QED
      BY <1>0, <1>2, <1>5, <3>1, <3>2
  <2>2. CASE Goto(p, "refused")
    BY <1>3, <2>2 DEF Goto
  <2> QED
    BY <1>5, <2>1, <2>2 DEF StartReprobe
<1>6. CASE p \in Cycle /\ RecordRaises(p)
  <2>1. prober' = [prober EXCEPT ![p] = Idle]
    BY <1>6 DEF RecordRaises
  <2>2. Idle \in ProberRow
    BY <1>0, <1>e DEF Idle, ProberRow, NoKey
  <2>3. prober'[p] = Idle
    BY <1>0, <2>1
  <2>4. ProberOK(p)'
    BY <1>e, <2>3 DEF ProberOK, Idle
  <2>5. p \notin AdminCall
    BY <1>0, <1>6
  <2> QED
    BY <1>0, <1>1, <2>1, <2>2, <2>4, <2>5, ProberMoves
<1>7. CASE p \in AdminCall /\ ReprobeRaises(p)
  BY <1>3, <1>7 DEF ReprobeRaises, Goto
<1> QED
  BY <1>4, <1>5, <1>6, <1>7

LEMMA VendorStep ==
  ASSUME ProbeInv, NEW p \in Prober, VendorAnswers(p)
  PROVE  ProbeInv'
<1>0. /\ prober \in [Prober -> ProberRow] /\ prober[p] \in ProberRow /\ ProberOK(p)
      /\ probeLog \in [AdminCall -> {"none", "reprobed", "reconnected"}]
      /\ p \in AdminCall => AdminOK(p)
  BY DEF ProbeInv, ProbesTyped
<1>1. /\ prober[p].state = "probing" /\ told \subseteq told'
      /\ UNCHANGED <<day, configured, probeRows, probeLog, links>>
  BY DEF VendorAnswers
<1>2. PICK check \in {"returned", "raised"} :
        /\ prober' = [prober EXCEPT ![p].check = check]
        /\ check = "returned" => <<p, prober[p].key>> \in told'
  BY DEF VendorAnswers
<1> DEFINE row == [prober[p] EXCEPT !.check = check]
<1>3. /\ row \in ProberRow /\ row.state = prober[p].state /\ row.results = prober[p].results
      /\ row.key = prober[p].key /\ row.check = check
  BY <1>0 DEF ProberRow
<1>4. prober' = [prober EXCEPT ![p] = row]
  BY <1>2
<1> HIDE DEF row
<1>5. prober'[p] = row
  BY <1>0, <1>4
<1>6. ProberOK(p)'
  BY <1>0, <1>1, <1>2, <1>3, <1>5 DEF ProberOK
<1>7. p \in AdminCall => AdminOK(p)'
  BY <1>0, <1>1, <1>3, <1>5 DEF AdminOK
<1> QED
  BY <1>0, <1>1, <1>3, <1>4, <1>6, <1>7, ProberMoves

LEMMA EndCheckStep ==
  ASSUME ProbeInv, NEW p \in Prober, EndCheck(p)
  PROVE  ProbeInv'
<1>0. /\ prober \in [Prober -> ProberRow] /\ prober[p] \in ProberRow /\ ProberOK(p)
      /\ Integrations \in Nat \ {0}
      /\ probeLog \in [AdminCall -> {"none", "reprobed", "reconnected"}]
      /\ p \in AdminCall => AdminOK(p)
  BY ProbeAssumption DEF ProbeInv, ProbesTyped
<1>1. /\ prober[p].state = "probing"
      /\ UNCHANGED <<day, configured, probeRows, probeLog, links, told>>
  BY DEF EndCheck
<1>2. /\ prober[p].key \in Key /\ prober[p].key \in Nat /\ prober[p].key <= Integrations
      /\ prober[p].results \in Seq(ProbeResult)
  BY <1>0, <1>1 DEF ProberOK, ProberRow, Key
<1>3. PICK k \in Key, old \in Seq(ProbeResult), verdict \in Status :
        k = prober[p].key /\ old = prober[p].results /\ verdict = Verdict(prober[p].check)
  BY <1>2 DEF Verdict, Status
<1>4. verdict = "ok" => <<p, k>> \in told
  BY <1>0, <1>3 DEF Verdict, ProberOK
<1>q. /\ [key |-> k, status |-> verdict] \in ProbeResult
      /\ [key |-> k, status |-> verdict].key = k
      /\ [key |-> k, status |-> verdict].status = verdict
  <2>1. k \in Key /\ verdict \in Status
    BY <1>3
  <2> QED
    BY <2>1 DEF ProbeResult
<1>r. PICK result \in ProbeResult :
        /\ result = [key |-> k, status |-> verdict]
        /\ result.key = k /\ result.status = verdict
  BY <1>q
<1>a. Append(old, result) \in Seq(ProbeResult)
  BY <1>3, <1>r
<1>5. PICK results \in Seq(ProbeResult) : results = Append(old, [key |-> k, status |-> verdict])
  BY <1>a, <1>r
<1>6. /\ Len(results) = Len(old) + 1 /\ Len(old) \in Nat /\ DOMAIN results = 1..Len(results)
      /\ DOMAIN old = 1..Len(old)
      /\ \A i \in DOMAIN old : results[i] = old[i]
      /\ results[Len(old) + 1].key = k /\ results[Len(old) + 1].status = verdict
  BY <1>3, <1>5, <1>r
<1>7. /\ \A i \in DOMAIN old : /\ p \in Cycle => old[i].key = i
                               /\ old[i].status = "ok" => <<p, old[i].key>> \in told
      /\ p \in Cycle => Len(old) + 1 = k
  BY <1>0, <1>1, <1>3 DEF ProberOK
<1>8. ASSUME NEW i \in DOMAIN results
      PROVE  /\ p \in Cycle => results[i].key = i
             /\ results[i].status = "ok" => <<p, results[i].key>> \in told
  <2>1. CASE i \in DOMAIN old
    BY <1>6, <1>7, <2>1
  <2>2. CASE i = Len(old) + 1
    BY <1>4, <1>6, <1>7, <2>2
  <2>3. i \in DOMAIN old \/ i = Len(old) + 1
    BY <1>6
  <2> QED
    BY <2>1, <2>2, <2>3
<1>9. CASE p \in Cycle /\ CycleGoesOn(p)
  <2>1. k < Integrations /\ k + 1 \in Key /\ k + 1 \in 0..Integrations
    BY <1>0, <1>2, <1>3, <1>9 DEF CycleGoesOn, Key
  <2>2. PICK check \in {"none", "pending"} : check = Submitted(k + 1)
    BY DEF Submitted
  <2> DEFINE row == [state |-> "probing", key |-> k + 1, check |-> check, results |-> results]
  <2>3. prober' = [prober EXCEPT ![p] = row]
    BY <1>3, <1>5, <1>9, <2>2 DEF EndCheck
  <2>4. /\ row \in ProberRow /\ row.state = "probing" /\ row.key = k + 1 /\ row.check = check
        /\ row.results = results
    BY <1>5, <2>1 DEF ProberRow
  <2> HIDE DEF row
  <2>5. prober'[p] = row
    BY <1>0, <2>3
  <2>6. Len(row.results) + 1 = row.key
    BY <1>6, <1>7, <1>9, <2>4
  <2>7. ProberOK(p)'
    BY <1>1, <1>8, <2>1, <2>4, <2>5, <2>6 DEF ProberOK
  <2>8. p \in AdminCall => AdminOK(p)'
    BY <1>0, <1>1, <2>4, <2>5 DEF AdminOK
  <2> QED
    BY <1>0, <1>1, <2>3, <2>4, <2>7, <2>8, ProberMoves
<1>10. CASE ~(p \in Cycle /\ CycleGoesOn(p))
  <2> DEFINE row == [state |-> "writing", key |-> k, check |-> "none", results |-> results]
  <2>3. prober' = [prober EXCEPT ![p] = row]
    BY <1>3, <1>5, <1>10 DEF EndCheck
  <2>4. /\ row \in ProberRow /\ row.state = "writing" /\ row.key = k /\ row.check = "none"
        /\ row.results = results
    BY <1>0, <1>3, <1>5 DEF ProberRow, Key
  <2> HIDE DEF row
  <2>5. prober'[p] = row
    BY <1>0, <2>3
  <2>6. p \in Cycle => Len(row.results) = Integrations
    <3>1. p \in Cycle => k = Integrations
      BY <1>0, <1>2, <1>3, <1>10 DEF CycleGoesOn
    <3> QED
      BY <1>6, <1>7, <2>4, <3>1
  <2>7. ProberOK(p)'
    BY <1>1, <1>8, <2>4, <2>5, <2>6 DEF ProberOK
  <2>8. p \in AdminCall => AdminOK(p)'
    BY <1>0, <1>1, <2>4, <2>5 DEF AdminOK
  <2> QED
    BY <1>0, <1>1, <2>3, <2>4, <2>7, <2>8, ProberMoves
<1> QED
  BY <1>9, <1>10

\* A prober goes to a final state with its results in hand.
LEMMA FinalRow ==
  ASSUME ProbesTyped, NEW p \in Prober, NEW state \in {"done", "refused"}, Goto(p, state)
  PROVE  /\ prober' \in [Prober -> ProberRow]
         /\ prober'[p] \in ProberRow /\ prober' = [prober EXCEPT ![p] = prober'[p]]
         /\ prober'[p].state = state /\ prober'[p].results = prober[p].results
         /\ prober'[p].key = prober[p].key /\ prober'[p].check = prober[p].check
         /\ \A q \in Prober : q # p => prober'[q] = prober[q]
<1>0. prober \in [Prober -> ProberRow] /\ prober[p] \in ProberRow
  BY DEF ProbesTyped
<1> DEFINE row == [prober[p] EXCEPT !.state = state]
<1>1. /\ row \in ProberRow /\ row.state = state /\ row.results = prober[p].results
      /\ row.key = prober[p].key /\ row.check = prober[p].check
  BY <1>0 DEF ProberRow
<1>2. prober' = [prober EXCEPT ![p] = row]
  BY DEF Goto
<1> HIDE DEF row
<1> QED
  BY <1>0, <1>1, <1>2

LEMMA ReconnectStep ==
  ASSUME ProbeInv, NEW p \in AdminCall, InitiateReconnect(p)
  PROVE  ProbeInv'
<1>0. /\ p \in Prober /\ p \notin Cycle
      /\ prober \in [Prober -> ProberRow] /\ ProberOK(p) /\ ProbesTyped
      /\ probeLog \in [AdminCall -> {"none", "reprobed", "reconnected"}]
      /\ AdminOK(p)
  BY ProbeAssumption DEF ProbeInv, ProbesTyped, Prober
<1>1. prober[p].state = "idle" /\ UNCHANGED <<day, configured, probeRows, told>>
  BY DEF InitiateReconnect
<1>2. PICK state \in {"done", "refused"} :
        /\ Goto(p, state)
        /\ \/ /\ state = "done" /\ links' = links \union {p}
              /\ probeLog' = [probeLog EXCEPT ![p] = "reconnected"]
           \/ state = "refused" /\ UNCHANGED <<probeLog, links>>
  BY DEF InitiateReconnect, LinkRefused
<1>3. /\ prober'[p] \in ProberRow /\ prober' = [prober EXCEPT ![p] = prober'[p]]
      /\ prober'[p].state = state /\ prober'[p].results = prober[p].results
      /\ prober'[p].key = prober[p].key /\ prober'[p].check = prober[p].check
  BY <1>0, <1>2, FinalRow
<1>4. ProberOK(p)'
  BY <1>0, <1>1, <1>3 DEF ProberOK
<1>5. \A r \in probeRows : r.by # p
  BY <1>1 DEF ProbeInv, ProbeRowsOK
<1>6. AdminOK(p)'
  BY <1>0, <1>1, <1>2, <1>3, <1>5 DEF AdminOK
<1>7. /\ probeLog' \in [AdminCall -> {"none", "reprobed", "reconnected"}]
      /\ \A q \in AdminCall : q # p => probeLog'[q] = probeLog[q] /\ (q \in links' <=> q \in links)
  BY <1>0, <1>2
<1>8. PICK row \in ProberRow : row = prober'[p]
  BY <1>3
<1> QED
  BY <1>0, <1>1, <1>3, <1>4, <1>6, <1>7, <1>8, ProberMoves

\* _write_probe_results: the rows of p, all of them new, and of the others those
\* within the retention.
LEMMA RecordStep ==
  ASSUME ProbeInv, NEW p \in Prober,
         \/ p \in Cycle /\ RecordCycle(p)
         \/ p \in AdminCall /\ RecordReprobe(p)
  PROVE  ProbeInv'
<1>0. /\ prober \in [Prober -> ProberRow] /\ prober[p] \in ProberRow /\ ProberOK(p) /\ ProbesTyped
      /\ probeRows \subseteq ProbeRow /\ day \in Nat /\ Integrations \in Nat \ {0}
      /\ probeLog \in [AdminCall -> {"none", "reprobed", "reconnected"}]
      /\ p \in AdminCall => AdminOK(p) /\ p \notin Cycle
  BY ProbeAssumption DEF ProbeInv, ProbesTyped
<1>1. /\ prober[p].state = "writing" /\ probeRows' = Written(p) /\ Goto(p, "done")
      /\ UNCHANGED <<day, configured, links, told>>
      /\ p \in Cycle => probeLog' = probeLog
      /\ p \in AdminCall => probeLog' = [probeLog EXCEPT ![p] = "reprobed"]
  BY <1>0 DEF RecordCycle, RecordReprobe
<1>2. /\ prober' \in [Prober -> ProberRow]
      /\ prober'[p].state = "done" /\ prober'[p].results = prober[p].results
      /\ prober'[p].key = prober[p].key /\ prober'[p].check = prober[p].check
      /\ \A q \in Prober : q # p => prober'[q] = prober[q]
  BY <1>0, <1>1, FinalRow
<1>3. PICK res \in Seq(ProbeResult) :
        /\ res = prober[p].results
        /\ \A i \in DOMAIN res : /\ p \in Cycle => res[i].key = i
                                 /\ res[i].status = "ok" => <<p, res[i].key>> \in told
        /\ p \in Cycle => Len(res) = Integrations
  BY <1>0, <1>1 DEF ProberRow, ProberOK
<1> DEFINE new(i) == [key |-> res[i].key, status |-> res[i].status, at |-> day, by |-> p]
           Kept == {r \in probeRows : r.at + Retention >= day}
<1>4. probeRows' = Kept \cup {new(i) : i \in DOMAIN res}
  BY <1>1, <1>3 DEF Written
<1>5. ASSUME NEW i \in DOMAIN res
      PROVE  /\ new(i) \in ProbeRow /\ new(i).by = p /\ new(i).at = day /\ new(i).key = res[i].key
             /\ new(i).status = res[i].status
  <2>0. res[i] \in ProbeResult
    BY <1>3
  <2>1. res[i].key \in Key /\ res[i].status \in Status
    BY <2>0 DEF ProbeResult
  <2> QED
    BY <1>0, <2>1 DEF ProbeRow
<1>6. /\ \A r \in probeRows' : r \in Kept \/ \E i \in DOMAIN res : r = new(i)
      /\ Kept \subseteq probeRows'
      /\ \A i \in DOMAIN res : new(i) \in probeRows'
  BY <1>4
<1>7. /\ \A r \in Kept : /\ r \in probeRows /\ r \in ProbeRow /\ r.by \in Prober /\ r.by # p
                         /\ prober'[r.by] = prober[r.by]
      /\ \A r \in Kept, s \in probeRows : s.by = r.by => s \in Kept
  <2>1. \A r \in Kept : r \in probeRows /\ r \in ProbeRow /\ r.by \in Prober /\ r.by # p
    BY <1>0, <1>1 DEF ProbeInv, ProbeRowsOK, ProbeRow
  <2>2. \A r \in Kept, s \in probeRows : s.by = r.by => s \in Kept
    BY DEF ProbeInv, ProbeRowsOK
  <2> QED
    BY <1>2, <2>1, <2>2
<1> HIDE DEF new, Kept
<1>8. ProbesTyped'
  <2>1. probeRows' \subseteq ProbeRow
    BY <1>5, <1>6, <1>7
  <2>2. probeLog' \in [AdminCall -> {"none", "reprobed", "reconnected"}]
    BY <1>0, <1>1 DEF Prober
  <2> QED
    BY <1>0, <1>1, <1>2, <2>1, <2>2 DEF ProbesTyped
<1>9. ProbeRowsOK'
  <2>1. \A r \in probeRows' : r.status = "ok" => <<r.by, r.key>> \in told'
    <3>1. ASSUME NEW i \in DOMAIN res, new(i).status = "ok"
          PROVE  <<new(i).by, new(i).key>> \in told
      BY <1>3, <1>5, <3>1
    <3>2. \A r \in Kept : r.status = "ok" => <<r.by, r.key>> \in told
      BY <1>7 DEF ProbeInv, ProbeRowsOK
    <3> QED
      BY <1>1, <1>6, <3>1, <3>2
  <2>2. \A r \in probeRows' : prober'[r.by].state = "done"
    BY <1>2, <1>5, <1>6, <1>7 DEF ProbeInv, ProbeRowsOK
  <2>3. \A r, s \in probeRows' : r.by = s.by => r.at = s.at
    BY <1>5, <1>6, <1>7 DEF ProbeInv, ProbeRowsOK
  <2>4. ASSUME NEW r \in probeRows', NEW s \in probeRows', r.by \in Cycle, r.by = s.by, r.key = s.key
        PROVE  r = s
    <3>1. CASE r \in Kept /\ s \in Kept
      BY <1>7, <2>4, <3>1 DEF ProbeInv, ProbeRowsOK
    <3>2. ASSUME NEW i \in DOMAIN res, NEW j \in DOMAIN res, r = new(i), s = new(j)
          PROVE  r = s
      <4>1. p \in Cycle /\ res[i].key = res[j].key
        BY <1>5, <2>4, <3>2
      <4>2. i = j
        BY <1>3, <4>1
      <4> QED
        BY <3>2, <4>2
    <3> QED
      BY <1>5, <1>6, <1>7, <2>4, <3>1, <3>2
  <2>5. ASSUME NEW r \in probeRows', NEW k \in Key, r.by \in Cycle
        PROVE  \E s \in probeRows' : s.by = r.by /\ s.key = k
    <3>1. CASE r \in Kept
      <4>1. PICK s \in probeRows : s.by = r.by /\ s.key = k
        BY <1>7, <2>5, <3>1 DEF ProbeInv, ProbeRowsOK
      <4>2. s \in Kept
        BY <1>7, <3>1, <4>1
      <4> QED
        BY <1>6, <4>1, <4>2
    <3>2. CASE r.by = p
      <4>0. p \in Cycle /\ Len(res) = Integrations /\ DOMAIN res = 1..Len(res)
        BY <1>3, <2>5, <3>2
      <4>1. k \in DOMAIN res /\ res[k].key = k
        BY <1>3, <4>0 DEF Key
      <4> QED
        BY <1>5, <1>6, <3>2, <4>1
    <3> QED
      BY <1>5, <1>6, <3>1, <3>2
  <2> QED
    BY <2>1, <2>2, <2>3, <2>4, <2>5 DEF ProbeRowsOK
<1>10. ASSUME NEW q \in Prober PROVE ProberOK(q)'
  <2>1. CASE q = p
    BY <1>0, <1>1, <1>2, <2>1 DEF ProberOK
  <2>2. CASE q # p
    BY <1>1, <1>2, <2>2, ProberFrame DEF ProbeInv
  <2> QED
    BY <2>1, <2>2
<1>11. ASSUME NEW q \in AdminCall PROVE AdminOK(q)'
  <2>0. AdminOK(q) /\ q \in Prober
    BY DEF ProbeInv, Prober
  <2>1. CASE q = p
    <3>1. p \in AdminCall /\ probeLog[p] = "none" /\ probeLog'[p] = "reprobed" /\ p \notin links
      BY <1>0, <1>1, <2>0, <2>1 DEF AdminOK
    <3> QED
      BY <1>1, <1>2, <2>1, <3>1 DEF AdminOK
  <2>2. CASE q # p
    <3>1. probeLog'[q] = probeLog[q] /\ prober'[q] = prober[q]
      BY <1>0, <1>1, <1>2, <2>0, <2>2 DEF Prober
    <3>2. \A r \in probeRows' : r.by = q => r \in probeRows
      BY <1>5, <1>6, <1>7, <2>2
    <3> QED
      BY <1>1, <2>0, <3>1, <3>2 DEF AdminOK
  <2> QED
    BY <2>1, <2>2
<1> QED
  BY <1>8, <1>9, <1>10, <1>11 DEF ProbeInv

LEMMA ProbeInvariant == ProbeSpec => []ProbeInv
<1>1. ProbeInit => ProbeInv
  <2> SUFFICES ASSUME ProbeInit PROVE ProbeInv
    OBVIOUS
  <2>0. /\ \A p \in Prober : prober[p] = Idle
        /\ Integrations \in Nat \ {0}
    BY ProbeAssumption DEF ProbeInit
  <2>1. Idle \in ProberRow
    <3>1. <<>> \in Seq(ProbeResult) /\ 0 \in 0..Integrations
      BY <2>0
    <3> QED
      BY <3>1 DEF Idle, ProberRow, NoKey
  <2>2. ProbesTyped /\ ProbeRowsOK
    BY <2>1 DEF ProbeInit, ProbesTyped, ProbeRowsOK
  <2>3. ASSUME NEW p \in Prober PROVE ProberOK(p)
    BY <2>0 DEF ProberOK, Idle
  <2>4. ASSUME NEW p \in AdminCall PROVE AdminOK(p)
    BY DEF ProbeInit, AdminOK
  <2> QED
    BY <2>2, <2>3, <2>4 DEF ProbeInv
<1>2. ProbeInv /\ [ProbeNext]_probeVars => ProbeInv'
  <2> SUFFICES ASSUME ProbeInv, [ProbeNext]_probeVars PROVE ProbeInv'
    OBVIOUS
  <2>1. ASSUME NEW p \in Cycle, CycleStep(p) PROVE ProbeInv'
    <3>1. p \in Prober
      BY DEF Prober
    <3> QED
      BY <2>1, <3>1, StartStep, RecordStep DEF CycleStep
  <2>2. ASSUME NEW p \in AdminCall, AdminStep(p) PROVE ProbeInv'
    <3>1. p \in Prober
      BY DEF Prober
    <3> QED
      BY <2>2, <3>1, StartStep, RecordStep, ReconnectStep DEF AdminStep
  <2>3. ASSUME UNCHANGED <<prober, probeRows, probeLog, links, told>>, day' \in Nat
        PROVE  ProbeInv'
    <3>1. ProbesTyped' /\ ProbeRowsOK'
      BY <2>3 DEF ProbeInv, ProbesTyped, ProbeRowsOK
    <3>2. ASSUME NEW p \in Prober PROVE ProberOK(p)'
      BY <2>3, ProberFrame DEF ProbeInv
    <3>3. ASSUME NEW p \in AdminCall PROVE AdminOK(p)'
      BY <2>3 DEF ProbeInv, AdminOK
    <3> QED
      BY <3>1, <3>2, <3>3 DEF ProbeInv
  <2>4. day \in Nat
    BY DEF ProbeInv, ProbesTyped
  <2>5. CASE Redeploy \/ NextDay \/ UNCHANGED probeVars
    BY <2>3, <2>4, <2>5 DEF Redeploy, NextDay, probeVars
  <2> QED
    BY <2>1, <2>2, <2>5, VendorStep, EndCheckStep DEF ProbeNext
<1> QED
  BY <1>1, <1>2, PTL DEF ProbeSpec

\* What the status page and the audit log say of the integrations happened, as a
\* whole, for any number of integrations, cycles and admin calls
\* (integration_probe.py, handlers/integrations.py).
THEOREM ProbesCorrect == ProbeSpec => []ProbesAreHonest
<1>1. ProbeInv => ProbesAreHonest
  <2> SUFFICES ASSUME ProbeInv PROVE ProbesAreHonest
    OBVIOUS
  <2>1. GreenWasAnswered
    BY DEF ProbeInv, ProbeRowsOK, GreenWasAnswered, Badge
  <2>2. ASSUME NEW p \in Cycle, NEW r \in probeRows, r.by = p, NEW k \in Key
        PROVE  Cardinality({s \in probeRows : s.by = p /\ s.key = k}) = 1
    <3>1. PICK s \in probeRows : s.by = p /\ s.key = k
      BY <2>2 DEF ProbeInv, ProbeRowsOK
    <3>2. {t \in probeRows : t.by = p /\ t.key = k} = {s}
      BY <2>2, <3>1 DEF ProbeInv, ProbeRowsOK
    <3> QED
      BY <3>2, FS_Singleton
  <2>3. CyclesAreWhole
    BY <2>2 DEF CyclesAreWhole
  <2>4. AdminProbesAreOnRecord
    BY DEF ProbeInv, AdminOK, AdminProbesAreOnRecord
  <2> QED
    BY <2>1, <2>3, <2>4 DEF ProbesAreHonest
<1> QED
  BY <1>1, ProbeInvariant, PTL
=============================================================================
