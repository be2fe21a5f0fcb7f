--------------------------- MODULE CaseDeskProofs ---------------------------
(***************************************************************************)
(* Proofs about CaseDesk, for any number of gateway processes, workbench   *)
(* accounts and concurrent sends: one open case per thread, an audit log   *)
(* that accounts for every case, and no more recorded sends than sends.    *)
(***************************************************************************)
EXTENDS CaseDesk, FiniteSetTheorems, TLAPS

\* The row lock of the thread upsert: one filing transaction per thread.
LockHeldOnce ==
  \A g, h \in Process :
    filing[g] # NULL /\ filing[h] # NULL /\ filing[g].thread = filing[h].thread => g = h

\* What the SELECT did not find is still not there when the case is inserted,
\* because only a filing transaction opens a case on a thread.
NoneSeenNoneThere ==
  \A g \in Process :
    filing[g] # NULL /\ filing[g].at = "write" /\ filing[g].seen = NULL =>
      OpenOn(filing[g].thread) = {}

DeskInv == CaseDeskTypeOK /\ LockHeldOnce /\ NoneSeenNoneThere /\ OneOpenCasePerThread

\* A write to an existing row that keeps its thread and opens nothing leaves
\* no thread with an open case it did not have (claim, assign and resolve).
LEMMA RowUpdateOpensNothing ==
  ASSUME CaseDeskTypeOK, NEW c \in Cases, NEW row \in CaseRow,
         row.thread = cases[c].thread,
         row.status \in OpenStatus => cases[c].status \in OpenStatus,
         cases' = [cases EXCEPT ![c] = row]
  PROVE  /\ cases' \in [CaseId -> CaseRow \cup {NULL}]
         /\ \A t \in Thread : OpenOn(t)' \subseteq OpenOn(t)
<1>1. c \in CaseId /\ cases[c] # NULL /\ cases \in [CaseId -> CaseRow \cup {NULL}]
  BY DEF Cases, CaseDeskTypeOK
<1>2. cases' \in [CaseId -> CaseRow \cup {NULL}]
  BY <1>1
<1>3. ASSUME NEW t \in Thread, NEW d \in OpenOn(t)'  PROVE d \in OpenOn(t)
  <2>1. d \in CaseId /\ cases'[d] # NULL /\ cases'[d].thread = t
        /\ cases'[d].status \in OpenStatus
    BY <1>3 DEF OpenOn, Cases
  <2>2. CASE d = c
    BY <2>1, <2>2, <1>1 DEF OpenOn, Cases
  <2>3. CASE d # c
    BY <2>1, <2>3, <1>1 DEF OpenOn, Cases
  <2> QED BY <2>2, <2>3
<1> QED BY <1>2, <1>3

\* Steps that neither file a message nor open a case keep the invariant.
LEMMA NothingOpened ==
  ASSUME DeskInv, CaseDeskTypeOK', filing' = filing,
         \A t \in Thread : OpenOn(t)' \subseteq OpenOn(t)
  PROVE  DeskInv'
<1>1. LockHeldOnce'
  BY DEF DeskInv, LockHeldOnce
<1>2. NoneSeenNoneThere'
  <2> SUFFICES ASSUME NEW g \in Process, filing[g] # NULL, filing[g].at = "write",
                      filing[g].seen = NULL
               PROVE  OpenOn(filing[g].thread)' = {}
    BY DEF NoneSeenNoneThere
  <2>1. filing[g] \in Filing
    BY DEF DeskInv, CaseDeskTypeOK
  <2>2. filing[g].thread \in Thread
    BY <2>1 DEF Filing
  <2>3. OpenOn(filing[g].thread) = {}
    BY DEF DeskInv, NoneSeenNoneThere
  <2>4. filing'[g].thread = filing[g].thread
    OBVIOUS
  <2>5. \A t \in Thread : OpenOn(t) = {} => OpenOn(t)' = {}
    OBVIOUS
  <2> QED BY <2>2, <2>3, <2>4, <2>5
<1>3. OneOpenCasePerThread'
  BY DEF DeskInv, OneOpenCasePerThread
<1> QED BY <1>1, <1>2, <1>3 DEF DeskInv

\* Every entry a workbench action writes is an audit entry.
LEMMA AuditType ==
  ASSUME CaseDeskTypeOK, NEW c \in CaseId, NEW a \in Account,
         NEW b \in Account \cup {NULL},
         NEW action \in {"claim_case", "assign_case", "resolve_case", "sms_send", "note"},
         insert_audit(action, c, a, b)
  PROVE  audit' \in Seq(Entry)
<1>1. [action |-> action, case |-> c, actor |-> a, assignee |-> b] \in Entry
  BY DEF Entry
<1> QED BY <1>1 DEF insert_audit, CaseDeskTypeOK

\* The inductive step of OneOpenCaseCorrect: every action of CaseDesk keeps
\* the invariant.
LEMMA DeskStep ==
  ASSUME DeskInv, [Next]_vars
  PROVE  DeskInv'
<1> USE CaseDeskAssumption
<1>t. CaseDeskTypeOK
  BY DEF DeskInv
<1>same. ASSUME CaseDeskTypeOK', UNCHANGED <<cases, filing>>  PROVE DeskInv'
  <2>1. \A t \in Thread : OpenOn(t)' = OpenOn(t)
    BY <1>same DEF OpenOn, Cases
  <2> QED BY <1>same, <2>1, NothingOpened
<1>0. CASE UNCHANGED vars
  <2>1. CaseDeskTypeOK'
    BY <1>0, <1>t DEF vars, CaseDeskTypeOK
  <2> QED BY <1>0, <2>1, <1>same DEF vars
<1>1. ASSUME NEW g \in Process, NEW t \in Thread, UpsertThread(g, t)  PROVE DeskInv'
  <2>1. CaseDeskTypeOK'
    <3>1. [thread |-> t, at |-> "select", seen |-> NULL] \in Filing
      BY DEF Filing
    <3> QED BY <3>1, <1>1, <1>t DEF UpsertThread, CaseDeskTypeOK
  <2>2. filing' = [filing EXCEPT ![g] = [thread |-> t, at |-> "select", seen |-> NULL]]
        /\ filing \in [Process -> Filing \cup {NULL}]
    BY <1>1, <1>t DEF UpsertThread, CaseDeskTypeOK
  <2>3. LockHeldOnce'
    BY <2>2, <1>1 DEF UpsertThread, LockFree, LockHeldOnce, DeskInv
  <2>4. \A s : OpenOn(s)' = OpenOn(s)
    BY <1>1 DEF UpsertThread, OpenOn, Cases
  <2>5. NoneSeenNoneThere'
    BY <2>2, <2>4 DEF NoneSeenNoneThere, DeskInv
  <2>6. OneOpenCasePerThread'
    BY <2>4 DEF OneOpenCasePerThread, DeskInv
  <2> QED BY <2>1, <2>3, <2>5, <2>6 DEF DeskInv
<1>2. ASSUME NEW g \in Process, SelectOpenCase(g)  PROVE DeskInv'
  <2>1. filing[g] \in Filing /\ filing[g] # NULL
    BY <1>2, <1>t DEF SelectOpenCase, CaseDeskTypeOK
  <2>2. PICK c \in IF OpenOn(filing[g].thread) = {} THEN {NULL}
                     ELSE OpenOn(filing[g].thread) :
          filing' = [filing EXCEPT ![g] = [thread |-> filing[g].thread, at |-> "write",
                                           seen |-> c]]
    BY <1>2 DEF SelectOpenCase
  <2>3. c \in CaseId \cup {NULL} /\ (c = NULL => OpenOn(filing[g].thread) = {})
    BY <2>2 DEF OpenOn, Cases
  <2>4. [thread |-> filing[g].thread, at |-> "write", seen |-> c] \in Filing
    BY <2>1, <2>3 DEF Filing
  <2>5. CaseDeskTypeOK'
    BY <2>2, <2>4, <1>2, <1>t DEF SelectOpenCase, CaseDeskTypeOK
  <2>6. filing \in [Process -> Filing \cup {NULL}]
    BY <1>t DEF CaseDeskTypeOK
  <2>7. \A h \in Process : /\ filing'[h] # NULL <=> filing[h] # NULL
                           /\ filing[h] # NULL => filing'[h].thread = filing[h].thread
                           /\ h # g => filing'[h] = filing[h]
    BY <2>1, <2>2, <2>4, <2>6
  <2>8. LockHeldOnce'
    BY <2>7 DEF LockHeldOnce, DeskInv
  <2>9. \A s : OpenOn(s)' = OpenOn(s)
    BY <1>2 DEF SelectOpenCase, OpenOn, Cases
  <2>10. NoneSeenNoneThere'
    <3> SUFFICES ASSUME NEW h \in Process, filing'[h] # NULL, filing'[h].at = "write",
                        filing'[h].seen = NULL
                 PROVE  OpenOn(filing'[h].thread) = {}
      BY <2>9 DEF NoneSeenNoneThere
    <3>1. CASE h = g
      BY <3>1, <2>1, <2>2, <2>3, <2>6
    <3>2. CASE h # g
      BY <3>2, <2>7 DEF NoneSeenNoneThere, DeskInv
    <3> QED BY <3>1, <3>2
  <2>11. OneOpenCasePerThread'
    BY <2>9 DEF OneOpenCasePerThread, DeskInv
  <2> QED BY <2>5, <2>8, <2>10, <2>11 DEF DeskInv
<1>3. ASSUME NEW g \in Process, NEW n \in {0, 1}, FileTurn(g, n)  PROVE DeskInv'
  <2>0. filing[g] \in Filing /\ filing[g] # NULL /\ filing[g].at = "write"
    BY <1>3, <1>t DEF FileTurn, CaseDeskTypeOK
  <2>1. PICK t \in Thread : t = filing[g].thread
    BY <2>0 DEF Filing
  <2>2. filing' = [filing EXCEPT ![g] = NULL] /\ filing \in [Process -> Filing \cup {NULL}]
    BY <1>3, <1>t DEF FileTurn, CaseDeskTypeOK
  <2>3. LockHeldOnce'
    BY <2>2 DEF LockHeldOnce, DeskInv
  <2>4. stored' \in [Thread -> Nat] /\ live' \subseteq Thread
    BY <1>3, <2>1, <1>t DEF FileTurn, CaseDeskTypeOK
  <2>5. CASE filing[g].seen # NULL
    <3>1. cases' = cases
      BY <1>3, <2>5 DEF FileTurn
    <3>2. CaseDeskTypeOK'
      BY <3>1, <2>2, <2>4, <1>3, <1>t DEF FileTurn, CaseDeskTypeOK
    <3>3. \A s : OpenOn(s)' = OpenOn(s)
      BY <3>1 DEF OpenOn, Cases
    <3>4. NoneSeenNoneThere'
      BY <3>3, <2>2 DEF NoneSeenNoneThere, DeskInv
    <3>5. OneOpenCasePerThread'
      BY <3>3 DEF OneOpenCasePerThread, DeskInv
    <3> QED BY <3>2, <2>3, <3>4, <3>5 DEF DeskInv
  <2>6. CASE filing[g].seen = NULL
    <3>1. PICK c \in CaseId \ Cases : cases' = [cases EXCEPT ![c] = NewCase(t)]
      BY <1>3, <2>1, <2>6 DEF FileTurn
    <3>2. NewCase(t) \in CaseRow /\ NewCase(t).thread = t
      BY <2>1 DEF NewCase, CaseRow, OpenStatus
    <3>3. cases \in [CaseId -> CaseRow \cup {NULL}]
      BY <1>t DEF CaseDeskTypeOK
    <3>4. CaseDeskTypeOK'
      BY <3>1, <3>2, <3>3, <2>2, <2>4, <1>3, <1>t DEF FileTurn, CaseDeskTypeOK
    <3>5. OpenOn(t) = {}
      BY <2>0, <2>1, <2>6 DEF NoneSeenNoneThere, DeskInv
    <3>6. \A s \in Thread : s # t => OpenOn(s)' \subseteq OpenOn(s)
      BY <3>1, <3>2, <3>3 DEF OpenOn, Cases
    <3>7. OpenOn(t)' \subseteq {c}
      BY <3>1, <3>3, <3>5, <2>1 DEF OpenOn, Cases
    <3>8. OneOpenCasePerThread'
      <4> SUFFICES ASSUME NEW s \in Thread, NEW d \in OpenOn(s)', NEW e \in OpenOn(s)'
                   PROVE  d = e
        BY DEF OneOpenCasePerThread
      <4>1. CASE s = t
        BY <4>1, <3>7
      <4>2. CASE s # t
        BY <4>2, <3>6 DEF OneOpenCasePerThread, DeskInv
      <4> QED BY <4>1, <4>2
    <3>9. NoneSeenNoneThere'
      <4> SUFFICES ASSUME NEW h \in Process, filing'[h] # NULL, filing'[h].at = "write",
                          filing'[h].seen = NULL
                   PROVE  OpenOn(filing[h].thread)' = {}
        BY DEF NoneSeenNoneThere
      <4>1. h # g /\ filing[h] = filing'[h] /\ filing[h] # NULL
        BY <2>2
      <4>2. PICK s \in Thread : s = filing[h].thread
        BY <4>1, <2>2 DEF Filing
      <4>3. s # t
        BY <4>1, <4>2, <2>0, <2>1 DEF LockHeldOnce, DeskInv
      <4>4. OpenOn(s) = {}
        BY <4>1, <4>2 DEF NoneSeenNoneThere, DeskInv
      <4>5. OpenOn(s)' = {}
        BY <4>3, <4>4, <3>6
      <4>6. s = filing'[h].thread
        BY <4>1, <4>2
      <4> QED BY <4>5, <4>6
    <3> QED BY <3>4, <2>3, <3>8, <3>9 DEF DeskInv
  <2> QED BY <2>5, <2>6
<1>4. ASSUME NEW g \in Process, RollBack(g)  PROVE DeskInv'
  <2>1. CaseDeskTypeOK'
    BY <1>4, <1>t DEF RollBack, CaseDeskTypeOK
  <2>2. filing' = [filing EXCEPT ![g] = NULL] /\ filing \in [Process -> Filing \cup {NULL}]
    BY <1>4, <1>t DEF RollBack, CaseDeskTypeOK
  <2>3. \A s : OpenOn(s)' = OpenOn(s)
    BY <1>4 DEF RollBack, OpenOn, Cases
  <2>4. LockHeldOnce' /\ NoneSeenNoneThere'
    BY <2>2, <2>3 DEF LockHeldOnce, NoneSeenNoneThere, DeskInv
  <2>5. OneOpenCasePerThread'
    BY <2>3 DEF OneOpenCasePerThread, DeskInv
  <2> QED BY <2>1, <2>4, <2>5 DEF DeskInv
<1>5. ASSUME NEW t \in Thread, SessionExpires(t)  PROVE DeskInv'
  <2>1. CaseDeskTypeOK'
    BY <1>5, <1>t DEF SessionExpires, CaseDeskTypeOK
  <2> QED BY <1>5, <2>1, <1>same DEF SessionExpires
<1>6. CASE create_case
  <2>1. PICK c \in CaseId \ Cases : cases' = [cases EXCEPT ![c] = NewCase(NULL)]
    BY <1>6 DEF create_case
  <2>2. NewCase(NULL) \in CaseRow /\ NewCase(NULL).thread = NULL
    BY DEF NewCase, CaseRow, OpenStatus
  <2>3. cases \in [CaseId -> CaseRow \cup {NULL}]
    BY <1>t DEF CaseDeskTypeOK
  <2>4. CaseDeskTypeOK'
    BY <2>1, <2>2, <2>3, <1>6, <1>t DEF create_case, CaseDeskTypeOK
  <2>5. \A s \in Thread : OpenOn(s)' \subseteq OpenOn(s)
    BY <2>1, <2>2, <2>3 DEF OpenOn, Cases
  <2> QED BY <2>4, <2>5, <1>6, NothingOpened DEF create_case
<1>7. ASSUME NEW c \in CaseId, NEW b \in Account, c \in Cases,
             cases' = [cases EXCEPT ![c] = TakenUp(cases[c], b)],
             audit' \in Seq(Entry), UNCHANGED <<stored, live, filing, sending, texts>>
      PROVE  DeskInv'
  <2>1. cases[c] \in CaseRow
    BY <1>7, <1>t DEF CaseDeskTypeOK, Cases
  <2>2. /\ TakenUp(cases[c], b) \in CaseRow
        /\ TakenUp(cases[c], b).thread = cases[c].thread
        /\ TakenUp(cases[c], b).status \in OpenStatus => cases[c].status \in OpenStatus
    BY <2>1 DEF TakenUp, CaseRow, OpenStatus
  <2>3. /\ cases' \in [CaseId -> CaseRow \cup {NULL}]
        /\ \A t \in Thread : OpenOn(t)' \subseteq OpenOn(t)
    BY <1>7, <1>t, <2>2, RowUpdateOpensNothing
  <2>4. CaseDeskTypeOK'
    BY <1>7, <1>t, <2>3 DEF CaseDeskTypeOK
  <2> QED BY <2>3, <2>4, <1>7, NothingOpened
<1>8. ASSUME NEW c \in CaseId, NEW a \in Account, claim_case(c, a)  PROVE DeskInv'
  <2>1. audit' \in Seq(Entry)
    BY <1>8, <1>t, AuditType DEF claim_case
  <2> QED BY <1>8, <2>1, <1>7 DEF claim_case
<1>9. ASSUME NEW c \in CaseId, NEW a \in Account, NEW b \in Account, assign_case(c, a, b)
      PROVE  DeskInv'
  <2>1. audit' \in Seq(Entry)
    BY <1>9, <1>t, AuditType DEF assign_case
  <2> QED BY <1>9, <2>1, <1>7 DEF assign_case
<1>10. ASSUME NEW c \in CaseId, NEW a \in Account, note_case(c, a)  PROVE DeskInv'
  <2>1. audit' \in Seq(Entry)
    BY <1>10, <1>t, AuditType DEF note_case
  <2>2. CaseDeskTypeOK'
    BY <1>10, <1>t, <2>1 DEF note_case, CaseDeskTypeOK
  <2> QED BY <1>10, <2>2, <1>same DEF note_case
<1>11. ASSUME NEW c \in CaseId, NEW a \in Account, resolve_case(c, a)  PROVE DeskInv'
  <2> DEFINE row == [thread |-> cases[c].thread, status |-> "resolved",
                     assignee |-> cases[c].assignee]
  <2>1. cases[c] \in CaseRow /\ c \in Cases
    BY <1>11, <1>t DEF CaseDeskTypeOK, Cases, resolve_case
  <2>2. row \in CaseRow /\ row.thread = cases[c].thread /\ row.status \notin OpenStatus
    BY <2>1 DEF CaseRow, OpenStatus
  <2>3. cases' = [cases EXCEPT ![c] = row]
    BY <1>11 DEF resolve_case
  <2>4. /\ cases' \in [CaseId -> CaseRow \cup {NULL}]
        /\ \A t \in Thread : OpenOn(t)' \subseteq OpenOn(t)
    BY <2>1, <2>2, <2>3, <1>t, RowUpdateOpensNothing
  <2>5. audit' \in Seq(Entry)
    BY <1>11, <1>t, AuditType DEF resolve_case
  <2>6. CaseDeskTypeOK'
    BY <1>11, <1>t, <2>4, <2>5 DEF resolve_case, CaseDeskTypeOK
  <2> QED BY <2>4, <2>6, <1>11, NothingOpened DEF resolve_case
<1>12. ASSUME NEW d \in Desk, Send(d)  PROVE DeskInv'
  <2>1. sending \in [Desk -> Sending \cup {NULL}] /\ texts \in [CaseId -> Nat]
    BY <1>t DEF CaseDeskTypeOK
  <2>2. ASSUME sending[d] # NULL
        PROVE  sending[d].case \in CaseId /\ sending[d].actor \in Account
    BY <2>1, <2>2 DEF Sending
  <2>3. sending' \in [Desk -> Sending \cup {NULL}]
    <3>1. ASSUME NEW c \in CaseId, NEW a \in Account, CheckSend(d, c, a)
          PROVE  sending' \in [Desk -> Sending \cup {NULL}]
      BY <3>1, <2>1 DEF CheckSend, Sending
    <3>2. CASE PostText(d)
      BY <3>2, <2>1, <2>2 DEF PostText, Sending
    <3>3. CASE (\E taken \in BOOLEAN : PostFails(d, taken)) \/ RecordSend(d) \/ SendLost(d)
      BY <3>3, <2>1 DEF PostFails, RecordSend, SendLost
    <3> QED BY <1>12, <3>1, <3>2, <3>3 DEF Send
  <2>4. texts' \in [CaseId -> Nat]
    <3>1. CASE PostText(d) \/ \E taken \in BOOLEAN : PostFails(d, taken)
      BY <3>1, <2>1, <2>2 DEF PostText, PostFails
    <3>2. CASE (\E c \in CaseId, a \in Account : CheckSend(d, c, a))
               \/ RecordSend(d) \/ SendLost(d)
      BY <3>2, <2>1 DEF CheckSend, RecordSend, SendLost
    <3> QED BY <1>12, <3>1, <3>2 DEF Send
  <2>5. audit' \in Seq(Entry)
    <3>1. CASE RecordSend(d)
      BY <3>1, <2>2, <1>t, AuditType DEF RecordSend
    <3>2. CASE ~RecordSend(d)
      BY <3>2, <1>12, <1>t DEF Send, CheckSend, PostText, PostFails, SendLost, CaseDeskTypeOK
    <3> QED BY <3>1, <3>2
  <2>6. UNCHANGED <<cases, stored, live, filing>>
    BY <1>12 DEF Send, CheckSend, PostText, PostFails, RecordSend, SendLost
  <2>7. CaseDeskTypeOK'
    BY <2>3, <2>4, <2>5, <2>6, <1>t DEF CaseDeskTypeOK
  <2> QED BY <2>6, <2>7, <1>same
<1> QED
  BY <1>0, <1>1, <1>2, <1>3, <1>4, <1>5, <1>6, <1>8, <1>9, <1>10, <1>11, <1>12
     DEF Next, Gateway, Workbench

\* _ensure_open_case: for any processes, accounts and desks, the tables keep
\* their types and no thread ever has two open cases, although the SELECT
\* locks nothing and the table has no constraint: the thread row's lock is
\* enough.
THEOREM OneOpenCaseCorrect == Spec => [](CaseDeskTypeOK /\ OneOpenCasePerThread)
<1>1. Init => DeskInv
  BY CaseDeskAssumption DEF Init, DeskInv, CaseDeskTypeOK, LockHeldOnce,
     NoneSeenNoneThere, OneOpenCasePerThread, OpenOn, Cases, Entry
<1>2. DeskInv /\ [Next]_vars => DeskInv'
  BY DeskStep
<1>3. DeskInv => CaseDeskTypeOK /\ OneOpenCasePerThread
  BY DEF DeskInv
<1> QED BY <1>1, <1>2, <1>3, PTL DEF Spec

(***************************************************************************)
(* The audit log accounts for the cases                                    *)
(***************************************************************************)

Resolved(c) ==
  \E i \in 1..Len(audit) : audit[i].case = c /\ audit[i].action = "resolve_case"

\* What AuditAccountsForTheCase says of one case.
Accounted(c) ==
  /\ cases[c].assignee = IF Assignments(c) = {} THEN NULL
                         ELSE audit[LastOf(Assignments(c))].assignee
  /\ cases[c].status = IF Resolved(c) THEN "resolved"
                       ELSE IF Assignments(c) = {} THEN "open" ELSE "in_progress"

HasLast(S) == \E i \in S : \A j \in S : j <= i

\* The log speaks of cases that exist, a claim and an assignment name somebody,
\* and a send in progress is about a case that exists: without these a case
\* could be born with a history.
LogInv ==
  /\ \A c \in Cases : Accounted(c)
  /\ \A i \in 1..Len(audit) :
       /\ audit[i].case \in Cases
       /\ audit[i].action \in {"claim_case", "assign_case"} => audit[i].assignee # NULL
  /\ \A c \in CaseId : Assignments(c) # {} => HasLast(Assignments(c))
  /\ \A d \in Desk : sending[d] # NULL => sending[d].case \in Cases

\* LastOf picks the greatest element of a set that has one.
LEMMA LastOfIsLast ==
  ASSUME NEW S, S \subseteq Nat, NEW m \in S, \A j \in S : j <= m
  PROVE  LastOf(S) = m
<1>1. LastOf(S) \in S /\ \A j \in S : j <= LastOf(S)
  BY Zenon DEF LastOf
<1> DEFINE l == LastOf(S)
<1>2. l \in Nat /\ m \in Nat
  BY <1>1
<1>3. l <= m /\ m <= l
  BY <1>1
<1> HIDE DEF l
<1>4. l = m
  BY <1>2, <1>3
<1> QED
  BY <1>4 DEF l

\* One more entry: the old ones keep their places.
LEMMA Appended ==
  ASSUME audit \in Seq(Entry), NEW e \in Entry, audit' = Append(audit, e)
  PROVE  /\ Len(audit) \in Nat
         /\ Len(audit') = Len(audit) + 1
         /\ audit'[Len(audit) + 1] = e
         /\ \A i \in 1..Len(audit) : audit'[i] = audit[i]
OBVIOUS

\* insert_audit with an entry about case c: what it does to every history.
LEMMA HistoryGrows ==
  ASSUME audit \in Seq(Entry), NEW e \in Entry, audit' = Append(audit, e), NEW c \in CaseId
  PROVE  /\ Assignments(c)' =
              IF e.case = c /\ e.action \in {"claim_case", "assign_case"}
                THEN Assignments(c) \cup {Len(audit) + 1} ELSE Assignments(c)
         /\ Resolved(c)' <=> Resolved(c) \/ (e.case = c /\ e.action = "resolve_case")
<1> DEFINE n == Len(audit)
<1>1. /\ n \in Nat /\ Len(audit') = n + 1
      /\ audit'[n + 1] = e
      /\ \A i \in 1..n : audit'[i] = audit[i]
  BY Appended
<1>2. 1..Len(audit') = (1..n) \cup {n + 1}
  BY <1>1
<1>3. Assignments(c)' =
        {i \in (1..n) \cup {n + 1} :
           audit'[i].case = c /\ audit'[i].action \in {"claim_case", "assign_case"}}
  BY <1>2 DEF Assignments
<1>4. Assignments(c)' =
        IF e.case = c /\ e.action \in {"claim_case", "assign_case"}
          THEN Assignments(c) \cup {n + 1} ELSE Assignments(c)
  <2> HIDE DEF n
  <2>1. \A i : i \in Assignments(c)' <=>
                 \/ i \in Assignments(c)
                 \/ /\ i = n + 1
                    /\ e.case = c /\ e.action \in {"claim_case", "assign_case"}
    BY <1>1, <1>3 DEF Assignments, n
  <2> QED
    BY <2>1
<1>5. Resolved(c)' <=>
        \E i \in (1..n) \cup {n + 1} :
          audit'[i].case = c /\ audit'[i].action = "resolve_case"
  BY <1>2 DEF Resolved
<1>6. Resolved(c)' <=> Resolved(c) \/ (e.case = c /\ e.action = "resolve_case")
  <2> HIDE DEF n
  <2> QED BY <1>1, <1>5 DEF Resolved, n
<1> QED
  BY <1>4, <1>6

\* A case with a history has a last assignment in it, and nobody unassigned it.
LEMMA LastAssignment ==
  ASSUME LogInv, audit \in Seq(Entry), NEW c \in CaseId, Assignments(c) # {}
  PROVE  /\ LastOf(Assignments(c)) \in Assignments(c)
         /\ LastOf(Assignments(c)) \in 1..Len(audit)
         /\ audit[LastOf(Assignments(c))].assignee # NULL
<1>1. Assignments(c) \subseteq 1..Len(audit) /\ Len(audit) \in Nat
  BY DEF Assignments
<1>2. PICK m \in Assignments(c) : \A j \in Assignments(c) : j <= m
  BY DEF LogInv, HasLast
<1>3. LastOf(Assignments(c)) = m
  BY <1>1, <1>2, LastOfIsLast
<1> QED
  BY <1>1, <1>2, <1>3 DEF LogInv, Assignments

\* A case whose row and whose history did not change is accounted for as before.
LEMMA StillAccounted ==
  ASSUME CaseDeskTypeOK, LogInv, NEW c \in Cases, cases'[c] = cases[c],
         Assignments(c)' = Assignments(c), Resolved(c)' <=> Resolved(c),
         \A i \in 1..Len(audit) : audit'[i] = audit[i]
  PROVE  Accounted(c)'
<1>0. c \in CaseId /\ audit \in Seq(Entry) /\ Accounted(c)
  BY DEF Cases, CaseDeskTypeOK, LogInv
<1>1. Assignments(c) # {} => LastOf(Assignments(c)) \in 1..Len(audit)
  BY <1>0, LastAssignment
<1>2. Assignments(c) # {} =>
        audit'[LastOf(Assignments(c))] = audit[LastOf(Assignments(c))]
  BY <1>1
<1> HIDE DEF LastOf
<1> QED
  BY <1>0, <1>2 DEF Accounted

\* Steps that write no entry: cases stay, or one without a history is added.
LEMMA NoEntry ==
  ASSUME CaseDeskTypeOK, LogInv, audit' = audit,
         \/ cases' = cases
         \/ \E c \in CaseId \ Cases, t \in Thread \cup {NULL} :
              cases' = [cases EXCEPT ![c] = NewCase(t)],
         \A d \in Desk : sending'[d] # NULL => sending'[d].case \in Cases
  PROVE  LogInv'
<1>0. /\ audit \in Seq(Entry) /\ cases \in [CaseId -> CaseRow \cup {NULL}]
      /\ NULL \notin CaseRow
  BY CaseDeskAssumption DEF CaseDeskTypeOK
<1>1. \A c \in CaseId : Assignments(c)' = Assignments(c) /\ (Resolved(c)' <=> Resolved(c))
  BY DEF Assignments, Resolved
<1>2. \A c \in Cases : cases'[c] = cases[c] /\ c \in Cases'
  BY <1>0 DEF Cases
<1>3. ASSUME NEW c \in Cases' PROVE Accounted(c)'
  <2>1. CASE c \in Cases
    BY <1>1, <1>2, <2>1, StillAccounted DEF Cases
  <2>2. CASE c \notin Cases
    <3>1. c \in CaseId /\ cases'[c].assignee = NULL /\ cases'[c].status = "open"
      BY <1>0, <2>2 DEF Cases, NewCase
    <3>2. Assignments(c) = {} /\ ~Resolved(c)
      BY <2>2 DEF LogInv, Assignments, Resolved
    <3> QED
      BY <1>1, <3>1, <3>2 DEF Accounted
  <2> QED
    BY <2>1, <2>2
<1> QED
  BY <1>1, <1>2, <1>3 DEF LogInv

\* Steps that write an entry about case c and touch no other case.
LEMMA OneEntry ==
  ASSUME CaseDeskTypeOK, LogInv, NEW e \in Entry, e.case \in Cases,
         audit' = Append(audit, e),
         e.action \in {"claim_case", "assign_case"} => e.assignee # NULL,
         Cases' = Cases,
         \A c \in Cases : c # e.case => cases'[c] = cases[c],
         Accounted(e.case)',
         \A d \in Desk : sending'[d] # NULL => sending'[d].case \in Cases
  PROVE  LogInv'
<1>0. audit \in Seq(Entry)
  BY DEF CaseDeskTypeOK
<1>1. /\ Len(audit) \in Nat /\ Len(audit') = Len(audit) + 1
      /\ audit'[Len(audit) + 1] = e
      /\ \A i \in 1..Len(audit) : audit'[i] = audit[i]
  BY <1>0, Appended
<1>2. ASSUME NEW c \in Cases PROVE Accounted(c)'
  <2>1. CASE c = e.case
    BY <2>1
  <2>2. CASE c # e.case
    <3>1. Assignments(c)' = Assignments(c) /\ (Resolved(c)' <=> Resolved(c))
      BY <1>0, <2>2, HistoryGrows DEF Cases
    <3> QED
      BY <1>1, <2>2, <3>1, StillAccounted
  <2> QED
    BY <2>1, <2>2
<1>3. ASSUME NEW i \in 1..Len(audit')
      PROVE  /\ audit'[i].case \in Cases
             /\ audit'[i].action \in {"claim_case", "assign_case"} => audit'[i].assignee # NULL
  <2>1. CASE i = Len(audit) + 1
    BY <1>1, <2>1
  <2>2. CASE i # Len(audit) + 1
    <3>1. i \in 1..Len(audit)
      BY <1>1, <1>3, <2>2
    <3> QED
      BY <1>1, <3>1 DEF LogInv
  <2> QED
    BY <2>1, <2>2
<1>4. ASSUME NEW c \in CaseId, Assignments(c)' # {} PROVE HasLast(Assignments(c)')
  <2>1. CASE Assignments(c)' = Assignments(c)
    BY <1>4, <2>1 DEF LogInv
  <2>2. CASE Assignments(c)' = Assignments(c) \cup {Len(audit) + 1}
    <3>1. Assignments(c) \subseteq 1..Len(audit)
      BY DEF Assignments
    <3>2. \A j \in Assignments(c)' : j <= Len(audit) + 1
      BY <1>1, <2>2, <3>1
    <3> QED
      BY <2>2, <3>2 DEF HasLast
  <2> QED
    BY <1>0, <2>1, <2>2, HistoryGrows
<1> QED
  BY <1>2, <1>3, <1>4 DEF LogInv, HasLast

\* claim_case and assign_case leave a case its last entry accounts for.
LEMMA TakenUpAccounted ==
  ASSUME CaseDeskTypeOK, LogInv, NEW e \in Entry, e.case \in Cases, audit' = Append(audit, e),
         e.action \in {"claim_case", "assign_case"},
         cases' = [cases EXCEPT ![e.case] = TakenUp(cases[e.case], e.assignee)]
  PROVE  Accounted(e.case)'
<1> DEFINE c == e.case
           n == Len(audit) + 1
<1>0. /\ audit \in Seq(Entry) /\ c \in CaseId /\ cases \in [CaseId -> CaseRow \cup {NULL}]
      /\ Accounted(c)
  BY DEF CaseDeskTypeOK, Cases, LogInv
<1>1. Len(audit) \in Nat /\ audit'[n] = e
  BY <1>0, Appended
<1>2. Assignments(c)' = Assignments(c) \cup {n} /\ (Resolved(c)' <=> Resolved(c))
  BY <1>0, HistoryGrows
<1>3. LastOf(Assignments(c)') = n
  <2>1. Assignments(c) \subseteq 1..Len(audit)
    BY DEF Assignments
  <2>2. Assignments(c)' \subseteq Nat /\ n \in Assignments(c)' /\ \A j \in Assignments(c)' : j <= n
    BY <1>1, <1>2, <2>1
  <2> QED
    BY <2>2, LastOfIsLast
<1>4. cases'[c] = TakenUp(cases[c], e.assignee)
  BY <1>0
<1>5. cases'[c].assignee = e.assignee
  BY <1>4 DEF TakenUp
<1>6. cases'[c].status = IF Resolved(c) THEN "resolved" ELSE "in_progress"
  BY <1>0, <1>4 DEF TakenUp, Accounted
<1> HIDE DEF c, n
<1>7. Accounted(c)'
  BY <1>1, <1>2, <1>3, <1>5, <1>6 DEF Accounted
<1> QED
  BY <1>7 DEF c

\* resolve_case and the entries that change nothing.
LEMMA KeptAccounted ==
  ASSUME CaseDeskTypeOK, LogInv, NEW e \in Entry, e.case \in Cases, audit' = Append(audit, e),
         e.action \notin {"claim_case", "assign_case"},
         cases'[e.case].assignee = cases[e.case].assignee,
         cases'[e.case].status = IF e.action = "resolve_case" THEN "resolved"
                                 ELSE cases[e.case].status
  PROVE  Accounted(e.case)'
<1> DEFINE c == e.case
<1>0. audit \in Seq(Entry) /\ c \in CaseId /\ Accounted(c)
  BY DEF CaseDeskTypeOK, Cases, LogInv
<1>1. Len(audit) \in Nat /\ \A i \in 1..Len(audit) : audit'[i] = audit[i]
  BY <1>0, Appended
<1>2. /\ Assignments(c)' = Assignments(c)
      /\ Resolved(c)' <=> Resolved(c) \/ e.action = "resolve_case"
  BY <1>0, HistoryGrows
<1>3. Assignments(c) # {} => LastOf(Assignments(c)) \in 1..Len(audit)
  BY <1>0, LastAssignment
<1> HIDE DEF c, LastOf
<1>4. cases'[c].assignee = IF Assignments(c)' = {} THEN NULL
                           ELSE audit'[LastOf(Assignments(c)')].assignee
  BY <1>0, <1>1, <1>2, <1>3 DEF Accounted, c
<1>5. cases'[c].status = IF Resolved(c)' THEN "resolved"
                         ELSE IF Assignments(c)' = {} THEN "open" ELSE "in_progress"
  BY <1>0, <1>2 DEF Accounted, c
<1>6. Accounted(c)'
  BY <1>4, <1>5 DEF Accounted
<1> QED
  BY <1>6 DEF c

\* The UPDATE that goes with an audit entry.
EntryUpdates(e) ==
  \/ /\ e.action \in {"claim_case", "assign_case"}
     /\ e.assignee # NULL
     /\ e.action = "claim_case" => cases[e.case].assignee \in {NULL, e.actor}
     /\ cases' = [cases EXCEPT ![e.case] = TakenUp(cases[e.case], e.assignee)]
  \/ /\ e.action = "resolve_case"
     /\ cases' = [cases EXCEPT ![e.case] = [thread |-> cases[e.case].thread,
                                            status |-> "resolved",
                                            assignee |-> cases[e.case].assignee]]
  \/ /\ e.action \in {"sms_send", "note"}
     /\ cases' = cases

\* Every step writes no entry and at most adds a case, or one entry about an
\* existing case together with the UPDATE it stands for.
LEMMA EntryStep ==
  ASSUME CaseDeskTypeOK, LogInv, [Next]_vars
  PROVE  /\ \A d \in Desk : sending'[d] # NULL => sending'[d].case \in Cases
         /\ \/ /\ audit' = audit
               /\ \/ cases' = cases
                  \/ \E c \in CaseId \ Cases, t \in Thread \cup {NULL} :
                       cases' = [cases EXCEPT ![c] = NewCase(t)]
            \/ \E e \in Entry :
                 /\ e.case \in Cases
                 /\ audit' = Append(audit, e)
                 /\ EntryUpdates(e)
<1> USE CaseDeskAssumption
<1> DEFINE SendsKept == \A d \in Desk : sending'[d] # NULL => sending'[d].case \in Cases
           NewEntry == \E e \in Entry :
                         /\ e.case \in Cases
                         /\ audit' = Append(audit, e)
                         /\ EntryUpdates(e)
<1>s. sending' = sending => SendsKept
  BY DEF LogInv
<1>1. ASSUME NEW c \in CaseId, NEW a \in Account, claim_case(c, a)
      PROVE  SendsKept /\ NewEntry
  <2> DEFINE e == [action |-> "claim_case", case |-> c, actor |-> a, assignee |-> a]
  <2>1. e \in Entry /\ audit' = Append(audit, e) /\ c \in Cases /\ a # NULL
    BY <1>1 DEF claim_case, insert_audit, Entry
  <2>2. EntryUpdates(e)
    BY <1>1, <2>1 DEF claim_case, MayClaim, EntryUpdates
  <2> QED
    BY <1>1, <1>s, <2>1, <2>2 DEF claim_case
<1>2. ASSUME NEW c \in CaseId, NEW a \in Account, NEW b \in Account, assign_case(c, a, b)
      PROVE  SendsKept /\ NewEntry
  <2> DEFINE e == [action |-> "assign_case", case |-> c, actor |-> a, assignee |-> b]
  <2>1. e \in Entry /\ audit' = Append(audit, e) /\ c \in Cases /\ b # NULL
    BY <1>2 DEF assign_case, insert_audit, Entry
  <2>2. EntryUpdates(e)
    BY <1>2, <2>1 DEF assign_case, EntryUpdates
  <2> QED
    BY <1>2, <1>s, <2>1, <2>2 DEF assign_case
<1>3. ASSUME NEW c \in CaseId, NEW a \in Account, note_case(c, a)
      PROVE  SendsKept /\ NewEntry
  <2> DEFINE e == [action |-> "note", case |-> c, actor |-> a, assignee |-> NULL]
  <2>1. e \in Entry /\ audit' = Append(audit, e) /\ c \in Cases
    BY <1>3 DEF note_case, insert_audit, Entry
  <2>2. EntryUpdates(e)
    BY <1>3, <2>1 DEF note_case, EntryUpdates
  <2> QED
    BY <1>3, <1>s, <2>1, <2>2 DEF note_case
<1>4. ASSUME NEW c \in CaseId, NEW a \in Account, resolve_case(c, a)
      PROVE  SendsKept /\ NewEntry
  <2> DEFINE e == [action |-> "resolve_case", case |-> c, actor |-> a, assignee |-> NULL]
  <2>1. e \in Entry /\ audit' = Append(audit, e) /\ c \in Cases
    BY <1>4 DEF resolve_case, insert_audit, Entry
  <2>2. EntryUpdates(e)
    BY <1>4, <2>1 DEF resolve_case, EntryUpdates
  <2> QED
    BY <1>4, <1>s, <2>1, <2>2 DEF resolve_case
<1>5. ASSUME NEW d \in Desk, RecordSend(d)
      PROVE  SendsKept /\ NewEntry
  <2>0. sending[d] \in Sending /\ sending[d].case \in Cases
    BY <1>5 DEF RecordSend, CaseDeskTypeOK, LogInv
  <2> DEFINE e == [action |-> "sms_send", case |-> sending[d].case,
                   actor |-> sending[d].actor, assignee |-> NULL]
  <2>1. e \in Entry /\ audit' = Append(audit, e)
    BY <1>5, <2>0 DEF RecordSend, insert_audit, Entry, Sending
  <2>2. EntryUpdates(e)
    BY <1>5, <2>1 DEF RecordSend, EntryUpdates
  <2>3. SendsKept
    BY <1>5 DEF RecordSend, CaseDeskTypeOK, LogInv
  <2> QED
    BY <2>0, <2>1, <2>2, <2>3
<1>6. ASSUME NEW d \in Desk, NEW c \in CaseId, NEW a \in Account, CheckSend(d, c, a)
      PROVE  SendsKept /\ UNCHANGED <<cases, audit>>
  BY <1>6 DEF CheckSend, CaseDeskTypeOK, LogInv
<1>7. ASSUME NEW d \in Desk,
             PostText(d) \/ (\E taken \in BOOLEAN : PostFails(d, taken)) \/ SendLost(d)
      PROVE  SendsKept /\ UNCHANGED <<cases, audit>>
  BY <1>7 DEF PostText, PostFails, SendLost, CaseDeskTypeOK, LogInv
<1>8. ASSUME NEW g \in Process, NEW n \in {0, 1}, FileTurn(g, n)
      PROVE  /\ sending' = sending /\ audit' = audit
             /\ \/ cases' = cases
                \/ \E c \in CaseId \ Cases, t \in Thread \cup {NULL} :
                     cases' = [cases EXCEPT ![c] = NewCase(t)]
  <2>1. filing[g].thread \in Thread
    BY <1>8 DEF FileTurn, CaseDeskTypeOK, Filing
  <2> QED
    BY <1>8, <2>1 DEF FileTurn
<1>9. CASE create_case
  BY <1>9, <1>s DEF create_case
<1>10. CASE \/ \E g \in Process : (\E t \in Thread : UpsertThread(g, t)) \/ SelectOpenCase(g)
                                  \/ RollBack(g)
            \/ \E t \in Thread : SessionExpires(t)
            \/ UNCHANGED vars
  BY <1>10, <1>s DEF UpsertThread, SelectOpenCase, RollBack, SessionExpires, vars
<1> HIDE DEF SendsKept, NewEntry
<1>11. CASE \E c \in CaseId, a \in Account : Workbench(c, a)
  BY <1>1, <1>2, <1>3, <1>4, <1>11 DEF Workbench, SendsKept, NewEntry
<1>12. CASE \E d \in Desk : Send(d)
  BY <1>5, <1>6, <1>7, <1>12 DEF Send, SendsKept, NewEntry
<1> QED
  BY <1>s, <1>8, <1>9, <1>10, <1>11, <1>12 DEF Next, Gateway, SendsKept, NewEntry

\* The accounting is inductive.
LEMMA LogStep ==
  ASSUME CaseDeskTypeOK, LogInv, [Next]_vars
  PROVE  LogInv'
<1>1. CASE /\ audit' = audit
           /\ \/ cases' = cases
              \/ \E c \in CaseId \ Cases, t \in Thread \cup {NULL} :
                   cases' = [cases EXCEPT ![c] = NewCase(t)]
  BY <1>1, EntryStep, NoEntry
<1>2. ASSUME NEW e \in Entry, e.case \in Cases, audit' = Append(audit, e), EntryUpdates(e)
      PROVE  LogInv'
  <2>0. /\ cases \in [CaseId -> CaseRow \cup {NULL}] /\ NULL \notin CaseRow
        /\ e.case \in CaseId /\ cases[e.case] \in CaseRow
    BY <1>2, CaseDeskAssumption DEF CaseDeskTypeOK, Cases
  <2>1. PICK row \in CaseRow : cases' = [cases EXCEPT ![e.case] = row]
    <3>1. CASE e.action \in {"claim_case", "assign_case"} /\ EntryUpdates(e)
      BY <2>0, <3>1 DEF EntryUpdates, TakenUp, CaseRow, OpenStatus, Entry
    <3>2. CASE e.action = "resolve_case" /\ EntryUpdates(e)
      BY <2>0, <3>2 DEF EntryUpdates, CaseRow
    <3>3. CASE e.action \in {"sms_send", "note"} /\ EntryUpdates(e)
      BY <2>0, <3>3 DEF EntryUpdates
    <3> QED
      BY <1>2, <3>1, <3>2, <3>3 DEF EntryUpdates
  <2>2. Cases' = Cases /\ \A c \in Cases : c # e.case => cases'[c] = cases[c]
    BY <2>0, <2>1, <1>2 DEF Cases
  <2>3. Accounted(e.case)'
    <3>1. CASE e.action \in {"claim_case", "assign_case"}
      BY <1>2, <3>1, TakenUpAccounted DEF EntryUpdates
    <3>2. CASE e.action \notin {"claim_case", "assign_case"}
      <4>1. /\ cases'[e.case].assignee = cases[e.case].assignee
            /\ cases'[e.case].status = IF e.action = "resolve_case" THEN "resolved"
                                       ELSE cases[e.case].status
        BY <1>2, <2>0, <3>2 DEF EntryUpdates
      <4> QED
        BY <1>2, <3>2, <4>1, KeptAccounted
    <3> QED
      BY <3>1, <3>2
  <2>4. e.action \in {"claim_case", "assign_case"} => e.assignee # NULL
    BY <1>2 DEF EntryUpdates
  <2> QED
    BY <1>2, <2>2, <2>3, <2>4, EntryStep, OneEntry
<1> QED
  BY <1>1, <1>2, EntryStep

\* LogInv holds of every reachable state.
LEMMA LogInvariant == Spec => []LogInv
<1>1. Init => LogInv
  BY DEF Init, LogInv, Cases, Assignments
<1>2. CaseDeskTypeOK /\ LogInv /\ [Next]_vars => LogInv'
  BY LogStep
<1> QED
  BY <1>1, <1>2, OneOpenCaseCorrect, PTL DEF Spec

\* ADR-0029 for any number of accounts, processes and requests: who has a case
\* and whether it is resolved can be read off the audit log at any moment.
THEOREM AuditCorrect == Spec => []AuditAccountsForTheCase
<1>1. LogInv => AuditAccountsForTheCase
  BY DEF LogInv, Accounted, Resolved, AuditAccountsForTheCase
<1> QED
  BY <1>1, LogInvariant, PTL

\* The claims and assignments of an entry's case that came before it.
Before(i) == {j \in Assignments(audit[i].case) : j < i}

\* NoSilentSteal of one entry, with the last of the earlier ones at hand.
FairEntry(i) ==
  Before(i) # {} =>
    /\ HasLast(Before(i))
    /\ audit[i].action = "claim_case" =>
         audit[LastOf(Before(i))].assignee = audit[i].actor

StealInv == \A i \in 1..Len(audit) : FairEntry(i)

\* A new claim finds the case free or its own, because the log accounts for
\* who has it; earlier entries keep what came before them.
LEMMA StealStep ==
  ASSUME CaseDeskTypeOK, LogInv, StealInv, [Next]_vars
  PROVE  StealInv'
<1>1. CASE audit' = audit
  <2>1. ASSUME NEW i \in 1..Len(audit) PROVE FairEntry(i)'
    <3>1. Before(i)' = Before(i)
      BY <1>1 DEF Before, Assignments
    <3>2. FairEntry(i)
      BY DEF StealInv
    <3> QED
      BY <1>1, <3>1, <3>2 DEF FairEntry, HasLast
  <2> QED
    BY <1>1, <2>1 DEF StealInv
<1>2. ASSUME NEW e \in Entry, e.case \in Cases, audit' = Append(audit, e), EntryUpdates(e)
      PROVE  StealInv'
  <2>0. audit \in Seq(Entry)
    BY DEF CaseDeskTypeOK
  <2>1. /\ Len(audit) \in Nat /\ Len(audit') = Len(audit) + 1
        /\ audit'[Len(audit) + 1] = e
        /\ \A i \in 1..Len(audit) : audit'[i] = audit[i]
    BY <1>2, <2>0, Appended
  <2>2. \A c \in CaseId : Assignments(c) \subseteq 1..Len(audit)
    BY DEF Assignments
  <2>3. ASSUME NEW i \in 1..Len(audit) PROVE FairEntry(i)'
    <3>1. FairEntry(i)
      BY DEF StealInv
    <3>2. audit[i].case \in CaseId /\ audit'[i] = audit[i]
      BY <2>1 DEF LogInv, Cases
    <3>3. Before(i)' = {j \in Assignments(audit[i].case)' : j < i}
      BY <3>2 DEF Before
    <3>4. Len(audit) + 1 >= i
      BY <2>1
    <3>5. Before(i)' = Before(i)
      BY <1>2, <2>0, <2>1, <3>2, <3>3, <3>4, HistoryGrows DEF Before
    <3>6. Before(i) # {} => LastOf(Before(i)) \in 1..Len(audit)
      <4>1. SUFFICES ASSUME Before(i) # {} PROVE LastOf(Before(i)) \in 1..Len(audit)
        OBVIOUS
      <4>2. PICK m \in Before(i) : \A j \in Before(i) : j <= m
        BY <3>1, <4>1 DEF FairEntry, HasLast
      <4>3. Before(i) \subseteq 1..Len(audit)
        BY <2>2, <3>2 DEF Before
      <4> QED
        BY <4>2, <4>3, LastOfIsLast
    <3> QED
      BY <2>1, <3>1, <3>2, <3>5, <3>6 DEF FairEntry
  <2>n. PICK n \in Nat : n = Len(audit) + 1
    BY <2>1
  <2>4. FairEntry(n)'
    <3>1. Before(n)' = Assignments(e.case)
      <4>1. Before(n)' = {j \in Assignments(e.case)' : j < n}
        BY <2>1, <2>n DEF Before
      <4>2. e.case \in CaseId
        BY <1>2 DEF Cases
      <4>3. \/ Assignments(e.case)' = Assignments(e.case)
            \/ Assignments(e.case)' = Assignments(e.case) \cup {n}
        BY <1>2, <2>0, <2>n, <4>2, HistoryGrows
      <4>4. \A j \in Assignments(e.case) : j \in Nat /\ j < n
        BY <2>1, <2>2, <2>n, <4>2
      <4> QED
        BY <2>n, <4>1, <4>3, <4>4
    <3>2. SUFFICES ASSUME Assignments(e.case) # {}
                   PROVE  /\ HasLast(Assignments(e.case))
                          /\ e.action = "claim_case" =>
                               audit'[LastOf(Assignments(e.case))].assignee = e.actor
      BY <2>1, <2>n, <3>1 DEF FairEntry
    <3>3. e.case \in CaseId /\ Accounted(e.case)
      BY <1>2 DEF Cases, LogInv
    <3>4. /\ LastOf(Assignments(e.case)) \in 1..Len(audit)
          /\ audit[LastOf(Assignments(e.case))].assignee # NULL
      BY <2>0, <3>2, <3>3, LastAssignment
    <3>5. HasLast(Assignments(e.case))
      BY <3>2, <3>3 DEF LogInv
    <3>6. e.action = "claim_case" => cases[e.case].assignee \in {NULL, e.actor}
      BY <1>2 DEF EntryUpdates
    <3> QED
      BY <2>1, <3>2, <3>3, <3>4, <3>5, <3>6 DEF Accounted
  <2>5. \A i \in 1..Len(audit') : i \in 1..Len(audit) \/ i = n
    BY <2>1, <2>n
  <2> QED
    BY <2>3, <2>4, <2>5 DEF StealInv
<1> QED
  BY <1>1, <1>2, EntryStep

\* "No silent steal" for any number of accounts claiming at once: whoever
\* claims a case had it already, or nobody did; it changes hands by
\* assignment only (claim_case's conflict guard).
THEOREM NoStealCorrect == Spec => []NoSilentSteal
<1>1. Init => StealInv
  BY DEF Init, StealInv
<1>2. CaseDeskTypeOK /\ LogInv /\ StealInv /\ [Next]_vars => StealInv'
  BY StealStep
<1>3. StealInv => NoSilentSteal
  BY DEF StealInv, FairEntry, Before, NoSilentSteal
<1> QED
  BY <1>1, <1>2, <1>3, LogInvariant, OneOpenCaseCorrect, PTL DEF Spec

(***************************************************************************)
(* Recorded sends                                                          *)
(***************************************************************************)
SendEntries(c) ==
  {i \in 1..Len(audit) : audit[i].case = c /\ audit[i].action = "sms_send"}

ToRecord(c) ==
  {d \in Desk : sending[d] # NULL /\ sending[d].case = c /\ sending[d].at = "record"}

\* RecordedSendsWereSent of one case; both sets stay finite, whatever Desk is.
SendsCovered(c) ==
  /\ IsFiniteSet(SendEntries(c)) /\ IsFiniteSet(ToRecord(c))
  /\ Cardinality(SendEntries(c)) + Cardinality(ToRecord(c)) <= texts[c]

SendsInv == \A c \in CaseId : SendsCovered(c)

\* A step that records nothing, and puts nobody in front of the record, keeps
\* every case's sends covered.
LEMMA NothingRecorded ==
  ASSUME CaseDeskTypeOK, NEW c \in CaseId, SendsCovered(c),
         SendEntries(c)' = SendEntries(c), ToRecord(c)' \subseteq ToRecord(c),
         texts' \in [CaseId -> Nat], texts'[c] >= texts[c]
  PROVE  SendsCovered(c)'
<1>1. IsFiniteSet(SendEntries(c)) /\ IsFiniteSet(ToRecord(c))
  BY DEF SendsCovered
<1>2. IsFiniteSet(ToRecord(c)') /\ Cardinality(ToRecord(c)') <= Cardinality(ToRecord(c))
  BY <1>1, FS_Subset
<1>3. /\ Cardinality(SendEntries(c)) \in Nat /\ Cardinality(ToRecord(c)) \in Nat
      /\ Cardinality(ToRecord(c)') \in Nat /\ texts[c] \in Nat /\ texts'[c] \in Nat
  BY <1>1, <1>2, FS_CardinalityType DEF CaseDeskTypeOK
<1>4. Cardinality(SendEntries(c)) + Cardinality(ToRecord(c)) <= texts[c]
  BY DEF SendsCovered
<1>5. Cardinality(SendEntries(c)) + Cardinality(ToRecord(c)') <= texts'[c]
  BY <1>2, <1>3, <1>4
<1> QED
  BY <1>1, <1>2, <1>5 DEF SendsCovered

\* What an entry does to the recorded sends of a case.
LEMMA SendEntriesGrow ==
  ASSUME audit \in Seq(Entry), NEW e \in Entry, audit' = Append(audit, e), NEW c \in CaseId
  PROVE  SendEntries(c)' = IF e.case = c /\ e.action = "sms_send"
                             THEN SendEntries(c) \cup {Len(audit) + 1} ELSE SendEntries(c)
<1> DEFINE n == Len(audit)
<1>1. /\ n \in Nat /\ Len(audit') = n + 1
      /\ audit'[n + 1] = e
      /\ \A i \in 1..n : audit'[i] = audit[i]
  BY Appended
<1>2. SendEntries(c)' =
        {i \in (1..n) \cup {n + 1} : audit'[i].case = c /\ audit'[i].action = "sms_send"}
  <2>1. 1..Len(audit') = (1..n) \cup {n + 1}
    BY <1>1
  <2> QED
    BY <2>1 DEF SendEntries
<1>3. \A i : i \in SendEntries(c)' <=>
               \/ i \in SendEntries(c)
               \/ i = n + 1 /\ e.case = c /\ e.action = "sms_send"
  <2> HIDE DEF n
  <2> QED
    BY <1>1, <1>2 DEF SendEntries, n
<1> QED
  BY <1>3

\* The entries that are not sends leave the recorded sends alone.
LEMMA NotASend ==
  ASSUME CaseDeskTypeOK, NEW c \in CaseId, NEW a, NEW b, NEW k \in CaseId,
         NEW action \in {"claim_case", "assign_case", "resolve_case", "note"},
         a \in Account, b \in Account \cup {NULL}, insert_audit(action, k, a, b)
  PROVE  SendEntries(c)' = SendEntries(c)
<1> DEFINE e == [action |-> action, case |-> k, actor |-> a, assignee |-> b]
<1>1. e \in Entry /\ audit' = Append(audit, e) /\ audit \in Seq(Entry)
  BY DEF Entry, insert_audit, CaseDeskTypeOK
<1> QED
  BY <1>1, SendEntriesGrow

\* A recorded send was waiting to be recorded, and waits only after its text
\* was taken.
LEMMA SendsStep ==
  ASSUME CaseDeskTypeOK, CaseDeskTypeOK', SendsInv, [Next]_vars
  PROVE  SendsInv'
<1> SUFFICES ASSUME NEW c \in CaseId PROVE SendsCovered(c)'
  BY DEF SendsInv
<1>0. /\ SendsCovered(c) /\ texts \in [CaseId -> Nat] /\ texts' \in [CaseId -> Nat]
      /\ sending \in [Desk -> Sending \cup {NULL}] /\ audit \in Seq(Entry)
      /\ NULL \notin Sending
  BY CaseDeskAssumption DEF SendsInv, CaseDeskTypeOK
<1>1. CASE UNCHANGED <<sending, texts>> /\ SendEntries(c)' = SendEntries(c)
  <2>1. ToRecord(c)' = ToRecord(c)
    BY <1>1 DEF ToRecord
  <2> QED
    BY <1>0, <1>1, <2>1, NothingRecorded
<1>2. CASE UNCHANGED <<sending, texts, audit>>
  BY <1>1, <1>2 DEF SendEntries
<1>3. ASSUME NEW k \in CaseId, NEW a \in Account, Workbench(k, a) PROVE SendsCovered(c)'
  <2>1. UNCHANGED <<sending, texts>>
    BY <1>3 DEF Workbench, claim_case, assign_case, note_case, resolve_case
  <2>2. PICK action \in {"claim_case", "assign_case", "resolve_case", "note"},
             b \in Account \cup {NULL} : insert_audit(action, k, a, b)
    BY <1>3 DEF Workbench, claim_case, assign_case, note_case, resolve_case
  <2> QED
    BY <1>1, <2>1, <2>2, NotASend
<1>4. ASSUME NEW d \in Desk, audit' = audit, NEW s \in Sending \cup {NULL},
             s # NULL => s.at = "post",
             sending' = [sending EXCEPT ![d] = s],
             texts'[c] >= texts[c]
      PROVE  SendsCovered(c)'
  <2>1. ToRecord(c)' \subseteq ToRecord(c)
    BY <1>0, <1>4 DEF ToRecord
  <2>2. SendEntries(c)' = SendEntries(c)
    BY <1>4 DEF SendEntries
  <2> QED
    BY <1>0, <1>4, <2>1, <2>2, NothingRecorded
<1>5. ASSUME NEW d \in Desk, NEW k \in CaseId, NEW a \in Account, CheckSend(d, k, a)
      PROVE  SendsCovered(c)'
  <2>1. [case |-> k, actor |-> a, at |-> "post"] \in Sending
    BY DEF Sending
  <2>2. texts'[c] >= texts[c]
    BY <1>0, <1>5 DEF CheckSend
  <2> QED
    BY <1>4, <1>5, <2>1, <2>2 DEF CheckSend
<1>6. ASSUME NEW d \in Desk, (\E taken \in BOOLEAN : PostFails(d, taken)) \/ SendLost(d)
      PROVE  SendsCovered(c)'
  <2>1. texts'[c] >= texts[c]
    BY <1>0, <1>6 DEF PostFails, SendLost
  <2> QED
    BY <1>4, <1>6, <2>1 DEF PostFails, SendLost
<1>7. ASSUME NEW d \in Desk, PostText(d) PROVE SendsCovered(c)'
  <2>0. /\ sending[d] \in Sending /\ sending[d].at = "post" /\ audit' = audit
        /\ texts' = [texts EXCEPT ![sending[d].case] = @ + 1]
        /\ sending' = [sending EXCEPT ![d] = [case |-> sending[d].case,
                                              actor |-> sending[d].actor, at |-> "record"]]
    BY <1>0, <1>7 DEF PostText
  <2>1. SendEntries(c)' = SendEntries(c)
    BY <2>0 DEF SendEntries
  <2>2. CASE sending[d].case # c
    <3>1. ToRecord(c)' \subseteq ToRecord(c)
      BY <1>0, <2>0, <2>2 DEF ToRecord
    <3>2. texts'[c] >= texts[c]
      BY <1>0, <2>0, <2>2
    <3> QED
      BY <1>0, <2>1, <3>1, <3>2, NothingRecorded
  <2>3. CASE sending[d].case = c
    <3>0. [case |-> c, actor |-> sending[d].actor, at |-> "record"] \in Sending
      BY <2>0, <2>3 DEF Sending
    <3>1. ToRecord(c)' = ToRecord(c) \cup {d}
      BY <1>0, <2>0, <2>3, <3>0 DEF ToRecord
    <3>2. d \notin ToRecord(c)
      BY <2>0 DEF ToRecord
    <3>3. IsFiniteSet(SendEntries(c)) /\ IsFiniteSet(ToRecord(c))
      BY <1>0 DEF SendsCovered
    <3>4. IsFiniteSet(ToRecord(c)') /\ Cardinality(ToRecord(c)') = Cardinality(ToRecord(c)) + 1
      BY <3>1, <3>2, <3>3, FS_AddElement
    <3>5. texts'[c] = texts[c] + 1 /\ texts[c] \in Nat
      BY <1>0, <2>0, <2>3
    <3>6. Cardinality(SendEntries(c)) \in Nat /\ Cardinality(ToRecord(c)) \in Nat
      BY <3>3, FS_CardinalityType
    <3>7. Cardinality(SendEntries(c)) + Cardinality(ToRecord(c)) <= texts[c]
      BY <1>0 DEF SendsCovered
    <3>8. Cardinality(SendEntries(c)) + Cardinality(ToRecord(c)') <= texts'[c]
      BY <3>4, <3>5, <3>6, <3>7
    <3> QED
      BY <2>1, <3>3, <3>4, <3>8 DEF SendsCovered
  <2> QED
    BY <2>2, <2>3
<1>8. ASSUME NEW d \in Desk, RecordSend(d) PROVE SendsCovered(c)'
  <2>0. /\ sending[d] \in Sending /\ sending[d].at = "record"
        /\ texts' = texts
        /\ sending' = [sending EXCEPT ![d] = NULL]
    BY <1>0, <1>8 DEF RecordSend
  <2>1. PICK e \in Entry : /\ audit' = Append(audit, e)
                           /\ e.case = sending[d].case /\ e.action = "sms_send"
    BY <1>8, <2>0 DEF RecordSend, insert_audit, Entry, Sending
  <2>2. CASE sending[d].case # c
    <3>1. ToRecord(c)' \subseteq ToRecord(c)
      BY <1>0, <2>0 DEF ToRecord
    <3>2. SendEntries(c)' = SendEntries(c)
      BY <1>0, <2>1, <2>2, SendEntriesGrow
    <3> QED
      BY <1>0, <2>0, <3>1, <3>2, NothingRecorded
  <2>3. CASE sending[d].case = c
    <3>1. ToRecord(c)' = ToRecord(c) \ {d} /\ d \in ToRecord(c)
      BY <1>0, <2>0, <2>3 DEF ToRecord
    <3>2. SendEntries(c)' = SendEntries(c) \cup {Len(audit) + 1}
      BY <1>0, <2>1, <2>3, SendEntriesGrow
    <3>3. IsFiniteSet(SendEntries(c)) /\ IsFiniteSet(ToRecord(c))
      BY <1>0 DEF SendsCovered
    <3>4. Len(audit) + 1 \notin SendEntries(c)
      <4>1. Len(audit) \in Nat
        BY <1>0
      <4> QED
        BY <4>1 DEF SendEntries
    <3>5. /\ IsFiniteSet(ToRecord(c)')
          /\ Cardinality(ToRecord(c)') = Cardinality(ToRecord(c)) - 1
      BY <3>1, <3>3, FS_RemoveElement
    <3>6. /\ IsFiniteSet(SendEntries(c)')
          /\ Cardinality(SendEntries(c)') = Cardinality(SendEntries(c)) + 1
      BY <3>2, <3>3, <3>4, FS_AddElement
    <3>7. Cardinality(SendEntries(c)) \in Nat /\ Cardinality(ToRecord(c)) \in Nat
      BY <3>3, FS_CardinalityType
    <3>8. /\ Cardinality(SendEntries(c)) + Cardinality(ToRecord(c)) <= texts[c]
          /\ texts[c] \in Nat /\ texts'[c] = texts[c]
      BY <1>0, <2>0 DEF SendsCovered
    <3>9. Cardinality(SendEntries(c)') + Cardinality(ToRecord(c)') <= texts'[c]
      BY <3>5, <3>6, <3>7, <3>8
    <3> QED
      BY <3>5, <3>6, <3>9 DEF SendsCovered
  <2> QED
    BY <2>2, <2>3
<1>9. CASE \E g \in Process : Gateway(g)
  BY <1>2, <1>9 DEF Gateway, UpsertThread, SelectOpenCase, FileTurn, RollBack
<1>10. CASE (\E t \in Thread : SessionExpires(t)) \/ create_case \/ UNCHANGED vars
  BY <1>2, <1>10 DEF SessionExpires, create_case, vars
<1>11. CASE \E d \in Desk : Send(d)
  BY <1>5, <1>6, <1>7, <1>8, <1>11 DEF Send
<1> QED
  BY <1>3, <1>9, <1>10, <1>11 DEF Next

\* send_sms_message posts before it records: for any number of concurrent send
\* requests, crashes and provider timeouts, the audit log never shows more
\* messages on a case than the provider took for it.
THEOREM RecordedSendsCorrect == Spec => []RecordedSendsWereSent
<1>1. Init => SendsInv
  <2> SUFFICES ASSUME Init, NEW c \in CaseId PROVE SendsCovered(c)
    BY DEF SendsInv
  <2>1. SendEntries(c) = {} /\ ToRecord(c) = {} /\ texts[c] = 0
    BY DEF Init, SendEntries, ToRecord
  <2> QED
    BY <2>1, FS_EmptySet DEF SendsCovered
<1>2. CaseDeskTypeOK /\ CaseDeskTypeOK' /\ SendsInv /\ [Next]_vars => SendsInv'
  BY SendsStep
<1>3. SendsInv => RecordedSendsWereSent
  BY DEF SendsInv, SendsCovered, SendEntries, ToRecord, RecordedSendsWereSent
<1> QED
  BY <1>1, <1>2, <1>3, OneOpenCaseCorrect, PTL DEF Spec
=============================================================================
