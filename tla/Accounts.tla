------------------------------ MODULE Accounts ------------------------------
(***************************************************************************)
(* Workbench accounts and the login lockout ladder                         *)
(* (datastore/handlers/accounts.py).                                       *)
(*                                                                         *)
(* An administrator's write is one row statement and its audit row in one  *)
(* transaction, hence one action; a transaction that fails leaves nothing. *)
(* A login reads the account, verifies the password while it holds no      *)
(* lock, and only then writes: another login, or an administrator, may     *)
(* come in between.                                                        *)
(***************************************************************************)
EXTENDS Naturals, Sequences

CONSTANTS
  AccountId,          \* identities new_id("acct") can hand out
  Username, Role, Login,  \* Login: concurrent authenticate calls
  MaxFailedAttempts,  \* _MAX_FAILED_ATTEMPTS
  Lockout,            \* _LOCKOUT_MINUTES
  MaxWrong,           \* bound on wrong passwords in a row
  MaxAdminLog, MaxNow \* bounds on the audit log and the database clock

ASSUME AccountsAssumption ==
  /\ MaxFailedAttempts \in Nat \ {0} /\ Lockout \in Nat \ {0}
  /\ MaxWrong \in Nat /\ MaxAdminLog \in Nat /\ MaxNow \in Nat

VARIABLES
  account,   \* workbench_account, by id
  login,     \* what each authenticate call has read, and when
  adminLog,  \* workbench_audit_log rows on accounts, in the order they commit
  wrong,     \* history: wrong passwords recorded since the last login
  dbNow      \* the database's now()

accountsVars == <<account, login, adminLog, wrong, dbNow>>

Enrolled == DOMAIN account

(***************************************************************************)
(* Administration                                                          *)
(***************************************************************************)
LogAdmin(entry) ==
  /\ Len(adminLog) < MaxAdminLog
  /\ adminLog' = Append(adminLog, entry)

NewAccount(name, role) ==
  [username |-> name, role |-> role, status |-> "active", failed |-> 0, locked |-> 0]

NameTaken(name) == \E i \in Enrolled : account[i].username = name

\* INSERT ... ON CONFLICT (username) DO NOTHING: the loser raises, so its
\* audit row is rolled back.
create_account(id, name, role) ==
  /\ id \notin Enrolled
  /\ ~NameTaken(name)
  /\ account' = [i \in Enrolled \cup {id} |->
                   IF i = id THEN NewAccount(name, role) ELSE account[i]]
  /\ wrong' = [wrong EXCEPT ![id] = 0]
  /\ LogAdmin([action |-> "create_account", id |-> id, role |-> role])
  /\ UNCHANGED <<login, dbNow>>

update_account_role(id, role) ==
  /\ id \in Enrolled
  /\ account' = [account EXCEPT ![id].role = role]
  /\ LogAdmin([action |-> "update_account_role", id |-> id, role |-> role])
  /\ UNCHANGED <<login, wrong, dbNow>>

\* Disabling twice is allowed; it is audited twice.
disable_account(id) ==
  /\ id \in Enrolled
  /\ account' = [account EXCEPT ![id].status = "disabled"]
  /\ LogAdmin([action |-> "disable_account", id |-> id])
  /\ UNCHANGED <<login, wrong, dbNow>>

(***************************************************************************)
(* Login                                                                   *)
(***************************************************************************)
\* Mutant: a window is no obstacle to the right password.
AdmittedThroughTheWindow(id) == account[id].status = "active"

\* disabled, then locked, are refused before the password is looked at.
Admitted(id) ==
  /\ account[id].status = "active"
  /\ ~ account[id].locked > dbNow

\* The SELECT, which begins the transaction: now() is dbNow for the rest of it.
\* A refused call raises here and leaves no trace.
LookUp(l, id) ==
  /\ login[l].at = "idle"
  /\ id \in Enrolled /\ Admitted(id)
  /\ login' = [login EXCEPT ![l] = [at |-> "verify", id |-> id, since |-> dbNow,
                                    saw |-> account[id].locked]]
  /\ UNCHANGED <<account, adminLog, wrong, dbNow>>

\* Mutant: an off-by-one in the threshold.
ClimbedLate(row, since) ==
  IF row.failed >= MaxFailedAttempts
    THEN [row EXCEPT !.failed = 0, !.locked = since + Lockout]
    ELSE [row EXCEPT !.failed = @ + 1]

\* The window opened by a login counts from its own SELECT.
Climbed(row, since) ==
  IF row.failed + 1 >= MaxFailedAttempts
    THEN [row EXCEPT !.failed = 0, !.locked = since + Lockout]
    ELSE [row EXCEPT !.failed = @ + 1]

\* Wrong password: one UPDATE evaluated on the current row, committed before
\* the call raises.
record_failed_login(l) ==
  /\ login[l].at = "verify"
  /\ LET id == login[l].id IN
       /\ wrong[id] < MaxWrong
       /\ account' = [account EXCEPT ![id] = Climbed(@, login[l].since)]
       /\ wrong' = [wrong EXCEPT ![id] = @ + 1]
  /\ login' = [login EXCEPT ![l] = [at |-> "idle"]]
  /\ UNCHANGED <<adminLog, dbNow>>

\* Right password: last_login_at, and the ladder starts over.
log_in(l) ==
  /\ login[l].at = "verify"
  /\ LET id == login[l].id IN
       /\ account' = [account EXCEPT ![id].failed = 0, ![id].locked = 0]
       /\ wrong' = [wrong EXCEPT ![id] = 0]
  /\ login' = [login EXCEPT ![l] = [at |-> "idle"]]
  /\ UNCHANGED <<adminLog, dbNow>>

\* The connection is lost before the write commits.
LoginLost(l) ==
  /\ login[l].at = "verify"
  /\ login' = [login EXCEPT ![l] = [at |-> "idle"]]
  /\ UNCHANGED <<account, adminLog, wrong, dbNow>>

DbTick ==
  /\ dbNow < MaxNow
  /\ dbNow' = dbNow + 1
  /\ UNCHANGED <<account, login, adminLog, wrong>>

AccountsInit ==
  /\ account = <<>>
  /\ login = [l \in Login |-> [at |-> "idle"]]
  /\ adminLog = <<>>
  /\ wrong = [i \in AccountId |-> 0]
  /\ dbNow = 1

Administration ==
  \E i \in AccountId :
    \/ \E r \in Role : update_account_role(i, r)
    \/ \E n \in Username, r \in Role : create_account(i, n, r)
    \/ disable_account(i)

Authenticate(l) ==
  \/ \E i \in AccountId : LookUp(l, i)
  \/ record_failed_login(l)
  \/ log_in(l)
  \/ LoginLost(l)

AccountsNext ==
  \/ Administration
  \/ \E l \in Login : Authenticate(l)
  \/ DbTick

AccountsSpec == AccountsInit /\ [][AccountsNext]_accountsVars

(***************************************************************************)
(* Properties                                                              *)
(***************************************************************************)
\* No wrong password is lost and none is counted twice, however the logins of
\* an account interleave: the counter is the number of wrong passwords in a row
\* modulo the threshold, and a window is on record exactly when the threshold
\* has been reached since the last login (_record_failed_login).
LadderCounts ==
  \A i \in Enrolled :
    /\ account[i].failed = wrong[i] % MaxFailedAttempts
    /\ (account[i].locked > 0) <=> (wrong[i] >= MaxFailedAttempts)

Ladder(i) == <<account[i].failed, account[i].locked>>

\* While a window is open its account's ladder stands still but for the logins
\* that were already verifying a password when the window was written: the right
\* password does not end it, and a wrong one neither counts nor slides it, for
\* anybody who met it (_authenticate).
WindowIsServed ==
  [][\A i \in Enrolled :
       account[i].locked > dbNow /\ Ladder(i)' # Ladder(i)
         => \E l \in Login : /\ login[l].at = "verify" /\ login[l].id = i
                             /\ login'[l].at = "idle"
                             /\ login[l].saw < account[i].locked]_accountsVars

EntriesOn(i) == {k \in DOMAIN adminLog : adminLog[k].id = i}

Creations(i) == {k \in EntriesOn(i) : adminLog[k].action = "create_account"}

Grants(i) == {k \in EntriesOn(i) : adminLog[k].action # "disable_account"}

\* The audit log alone tells what every account is: one creation, first; the
\* role is the one last granted; disabled exactly when an entry says so;
\* and nobody is on record whose creation lost to a taken username.
AdminLogAccountsForAccounts ==
  \A i \in AccountId :
    /\ (EntriesOn(i) # {}) <=> (i \in Enrolled)
    /\ i \in Enrolled =>
         /\ \E c \in EntriesOn(i) : Creations(i) = {c} /\ \A k \in EntriesOn(i) : c <= k
         /\ \E g \in Grants(i) : /\ account[i].role = adminLog[g].role
                                 /\ \A k \in Grants(i) : k <= g
         /\ (account[i].status = "disabled")
              <=> \E k \in EntriesOn(i) : adminLog[k].action = "disable_account"
         /\ \A j \in Enrolled : account[i].username = account[j].username => i = j

\* The lockout ladder misses no wrong password and no window, and the audit log
\* accounts for every account, while logins and administration interleave at
\* will (handlers/accounts.py).
AccountsAddUp == LadderCounts /\ AdminLogAccountsForAccounts
=============================================================================
