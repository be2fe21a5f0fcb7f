------------------------------ MODULE CaseDesk ------------------------------
(***************************************************************************)
(* Follow-up cases: the gateway files every accepted message under an open *)
(* case of its thread (_ensure_open_case in postgres_gateway_store.py),    *)
(* while the workbench claims, assigns, resolves and answers cases         *)
(* (datastore/handlers/cases.py), each write with its audit row.           *)
(*                                                                         *)
(* Transactions run at READ COMMITTED.  The upsert of customer_thread      *)
(* holds that row until commit, so two messages of one thread are filed    *)
(* one after the other; the SELECT that looks for an open case locks       *)
(* nothing.  A workbench write is one UPDATE by id with its guard, hence   *)
(* one action; a manual SMS send reads, calls the provider, then writes.   *)
(***************************************************************************)
EXTENDS Naturals, Sequences, FiniteSets

CONSTANTS
  CaseId,      \* identities new_id("case") can hand out
  Thread,      \* customer threads on the SMS channel
  Account,     \* workbench accounts
  Process,     \* gateway processes
  Desk,        \* concurrent workbench send requests
  MaxTurns,    \* bound on stored inbound turns per thread
  MaxTexts,    \* bound on texts sent per case
  MaxAudit,    \* bound on the audit log
  NULL

VARIABLES
  cases,    \* the cases table: a row for every inserted id, NULL for the others
  stored,   \* inbound message_turn rows committed, by thread
  live,     \* threads with an unexpired sms_session
  filing,   \* the persist transaction each gateway process is in, or NULL
  sending,  \* the send_sms_message transaction of each desk request, or NULL
  texts,    \* messages the provider took for a case
  audit     \* workbench_audit_log rows on cases, in the order they commit

vars == <<cases, stored, live, filing, sending, texts, audit>>

OpenStatus == {"open", "in_progress"}

CaseRow == [thread: Thread \cup {NULL}, status: OpenStatus \cup {"resolved"},
            assignee: Account \cup {NULL}]

Filing == [thread: Thread, at: {"select", "write"}, seen: CaseId \cup {NULL}]

Sending == [case: CaseId, actor: Account, at: {"post", "record"}]

Entry == [action: {"claim_case", "assign_case", "resolve_case", "sms_send", "note"},
          case: CaseId, actor: Account, assignee: Account \cup {NULL}]

ASSUME CaseDeskAssumption ==
  /\ NULL \notin CaseId \cup Thread \cup Account \cup CaseRow \cup Filing \cup Sending
  /\ MaxTurns \in Nat /\ MaxTexts \in Nat /\ MaxAudit \in Nat

Cases == {c \in CaseId : cases[c] # NULL}

\* WHERE customer_thread_id = t AND status IN ('open', 'in_progress')
OpenOn(t) == {c \in Cases : cases[c].thread = t /\ cases[c].status \in OpenStatus}

NewCase(t) == [thread |-> t, status |-> "open", assignee |-> NULL]

(***************************************************************************)
(* The gateway: persist_accepted_inbound                                   *)
(***************************************************************************)
\* Mutant: an upsert that leaves the thread row unlocked.
LockFreeNever(t) == TRUE

\* Nobody else is between the thread upsert and its commit.
LockFree(t) == \A g \in Process : filing[g] # NULL => filing[g].thread # t

\* INSERT INTO customer_thread ... ON CONFLICT DO UPDATE
UpsertThread(g, t) ==
  /\ filing[g] = NULL
  /\ LockFree(t)
  /\ filing' = [filing EXCEPT ![g] = [thread |-> t, at |-> "select", seen |-> NULL]]
  /\ UNCHANGED <<cases, stored, live, sending, texts, audit>>

\* _ensure_open_case's SELECT ... LIMIT 1: any open case will do.
SelectOpenCase(g) ==
  /\ filing[g] # NULL /\ filing[g].at = "select"
  /\ \E c \in IF OpenOn(filing[g].thread) = {} THEN {NULL} ELSE OpenOn(filing[g].thread) :
       filing' = [filing EXCEPT ![g] = [thread |-> filing[g].thread, at |-> "write",
                                        seen |-> c]]
  /\ UNCHANGED <<cases, stored, live, sending, texts, audit>>

\* Touch the case that was seen, or insert one; then commit.  A redelivery that
\* passed the duplicate check stores no second turn and is filed all the same.
FileTurn(g, n) ==
  /\ filing[g] # NULL /\ filing[g].at = "write"
  /\ LET t == filing[g].thread IN
       /\ n = 1 \/ stored[t] > 0
       /\ stored[t] + n <= MaxTurns
       /\ IF filing[g].seen = NULL
            THEN \E c \in CaseId \ Cases : cases' = [cases EXCEPT ![c] = NewCase(t)]
            ELSE cases' = cases
       /\ stored' = [stored EXCEPT ![t] = @ + n]
       /\ live' = live \cup {t}
  /\ filing' = [filing EXCEPT ![g] = NULL]
  /\ UNCHANGED <<sending, texts, audit>>

\* A statement raised, or the process died: everything is rolled back.
RollBack(g) ==
  /\ filing[g] # NULL
  /\ filing' = [filing EXCEPT ![g] = NULL]
  /\ UNCHANGED <<cases, stored, live, sending, texts, audit>>

\* expires_at passes
SessionExpires(t) ==
  /\ t \in live
  /\ live' = live \ {t}
  /\ UNCHANGED <<cases, stored, filing, sending, texts, audit>>

(***************************************************************************)
(* The workbench                                                           *)
(***************************************************************************)
insert_audit(action, c, a, assignee) ==
  /\ Len(audit) < MaxAudit
  /\ audit' = Append(audit, [action |-> action, case |-> c, actor |-> a,
                             assignee |-> assignee])

\* toee_case.create_case: the agent opens a case that has no thread.
create_case ==
  /\ \E c \in CaseId \ Cases : cases' = [cases EXCEPT ![c] = NewCase(NULL)]
  /\ UNCHANGED <<stored, live, filing, sending, texts, audit>>

\* Mutant: a claim or an assignment takes the case up whatever its status.
TakenUpAlways(row, a) ==
  [thread |-> row.thread, status |-> "in_progress", assignee |-> a]

\* CASE WHEN status = 'open' THEN 'in_progress' ELSE status END
TakenUp(row, a) ==
  [thread |-> row.thread,
   status |-> IF row.status = "open" THEN "in_progress" ELSE row.status,
   assignee |-> a]

\* Mutant: the conflict guard is left to the reader of the queue.
MayClaimAnything(c, a) == TRUE

MayClaim(c, a) == cases[c].assignee \in {NULL, a}

claim_case(c, a) ==
  /\ c \in Cases
  /\ MayClaim(c, a)
  /\ cases' = [cases EXCEPT ![c] = TakenUp(cases[c], a)]
  /\ insert_audit("claim_case", c, a, a)
  /\ UNCHANGED <<stored, live, filing, sending, texts>>

assign_case(c, a, b) ==
  /\ c \in Cases
  /\ cases' = [cases EXCEPT ![c] = TakenUp(cases[c], b)]
  /\ insert_audit("assign_case", c, a, b)
  /\ UNCHANGED <<stored, live, filing, sending, texts>>

\* update_priority, update_contact_reason and get_thread: an audit row, and
\* nothing the case's life depends on.
note_case(c, a) ==
  /\ c \in Cases
  /\ insert_audit("note", c, a, NULL)
  /\ UNCHANGED <<cases, stored, live, filing, sending, texts>>

resolve_case(c, a) ==
  /\ c \in Cases
  /\ cases' = [cases EXCEPT ![c] = [thread |-> cases[c].thread, status |-> "resolved",
                                    assignee |-> cases[c].assignee]]
  /\ insert_audit("resolve_case", c, a, NULL)
  /\ UNCHANGED <<stored, live, filing, sending, texts>>

(***************************************************************************)
(* send_sms_message: check, POST, then message_turn and audit row          *)
(***************************************************************************)
CheckSend(d, c, a) ==
  /\ sending[d] = NULL
  /\ c \in Cases
  /\ cases[c].assignee = a
  /\ cases[c].thread \in live
  /\ texts[c] < MaxTexts
  /\ sending' = [sending EXCEPT ![d] = [case |-> c, actor |-> a, at |-> "post"]]
  /\ UNCHANGED <<cases, stored, live, filing, texts, audit>>

PostText(d) ==
  /\ sending[d] # NULL /\ sending[d].at = "post"
  /\ texts' = [texts EXCEPT ![sending[d].case] = @ + 1]
  /\ sending' = [sending EXCEPT ![d] = [case |-> sending[d].case,
                                        actor |-> sending[d].actor, at |-> "record"]]
  /\ UNCHANGED <<cases, stored, live, filing, audit>>

\* Mutant: a send error is swallowed and recorded as a send.
PostFailsRecorded(d, taken) ==
  /\ sending[d] # NULL /\ sending[d].at = "post"
  /\ texts' = IF taken THEN [texts EXCEPT ![sending[d].case] = @ + 1] ELSE texts
  /\ sending' = [sending EXCEPT ![d] = [case |-> sending[d].case,
                                        actor |-> sending[d].actor, at |-> "record"]]
  /\ UNCHANGED <<cases, stored, live, filing, audit>>

\* SimpleTextingSendError: the provider refused, or took it and timed out.
PostFails(d, taken) ==
  /\ sending[d] # NULL /\ sending[d].at = "post"
  /\ texts' = IF taken THEN [texts EXCEPT ![sending[d].case] = @ + 1] ELSE texts
  /\ sending' = [sending EXCEPT ![d] = NULL]
  /\ UNCHANGED <<cases, stored, live, filing, audit>>

RecordSend(d) ==
  /\ sending[d] # NULL /\ sending[d].at = "record"
  /\ insert_audit("sms_send", sending[d].case, sending[d].actor, NULL)
  /\ sending' = [sending EXCEPT ![d] = NULL]
  /\ UNCHANGED <<cases, stored, live, filing, texts>>

\* The commit failed, or the process died at any point of the send.
SendLost(d) ==
  /\ sending[d] # NULL
  /\ sending' = [sending EXCEPT ![d] = NULL]
  /\ UNCHANGED <<cases, stored, live, filing, texts, audit>>

Init ==
  /\ cases = [c \in CaseId |-> NULL]
  /\ stored = [t \in Thread |-> 0]
  /\ live = {}
  /\ filing = [g \in Process |-> NULL]
  /\ sending = [d \in Desk |-> NULL]
  /\ texts = [c \in CaseId |-> 0]
  /\ audit = <<>>

Gateway(g) ==
  \/ \E t \in Thread : UpsertThread(g, t)
  \/ SelectOpenCase(g)
  \/ \E n \in {0, 1} : FileTurn(g, n)
  \/ RollBack(g)

Workbench(c, a) ==
  \/ claim_case(c, a)
  \/ \E b \in Account : assign_case(c, a, b)
  \/ note_case(c, a)
  \/ resolve_case(c, a)

Send(d) ==
  \/ \E c \in CaseId, a \in Account : CheckSend(d, c, a)
  \/ PostText(d)
  \/ \E taken \in BOOLEAN : PostFails(d, taken)
  \/ RecordSend(d)
  \/ SendLost(d)

Next ==
  \/ \E g \in Process : Gateway(g)
  \/ \E t \in Thread : SessionExpires(t)
  \/ create_case
  \/ \E c \in CaseId, a \in Account : Workbench(c, a)
  \/ \E d \in Desk : Send(d)

Spec == Init /\ [][Next]_vars

(***************************************************************************)
(* Properties                                                              *)
(***************************************************************************)

\* Every row, transaction and audit entry has its type.
CaseDeskTypeOK ==
  /\ cases \in [CaseId -> CaseRow \cup {NULL}]
  /\ stored \in [Thread -> Nat]
  /\ live \subseteq Thread
  /\ filing \in [Process -> Filing \cup {NULL}]
  /\ sending \in [Desk -> Sending \cup {NULL}]
  /\ texts \in [CaseId -> Nat]
  /\ audit \in Seq(Entry)

\* However many processes file messages of one customer at once, the thread
\* has one open case at most (_ensure_open_case has only its SELECT and the
\* thread row's lock to rely on; the table has no such constraint).
OneOpenCasePerThread ==
  \A t \in Thread : \A c, d \in OpenOn(t) : c = d

\* Positions of the entries that decide who has case c.
Assignments(c) ==
  {i \in 1..Len(audit) :
     audit[i].case = c /\ audit[i].action \in {"claim_case", "assign_case"}}

LastOf(S) == CHOOSE i \in S : \A j \in S : j <= i

\* ADR-0029: the audit log accounts for the case.  Its assignee is the one the
\* last claim or assignment names, and it is resolved exactly if somebody
\* resolved it, whoever claimed or was assigned it since.
AuditAccountsForTheCase ==
  \A c \in Cases :
    /\ cases[c].assignee = IF Assignments(c) = {} THEN NULL
                           ELSE audit[LastOf(Assignments(c))].assignee
    /\ cases[c].status =
         IF \E i \in 1..Len(audit) : audit[i].case = c /\ audit[i].action = "resolve_case"
           THEN "resolved"
           ELSE IF Assignments(c) = {} THEN "open" ELSE "in_progress"

\* claim_case, "no silent steal": a case changes hands by assignment only.
\* Whoever claims it had it already, or nobody did.
NoSilentSteal ==
  \A i \in 1..Len(audit) :
    audit[i].action = "claim_case" =>
      LET before == {j \in Assignments(audit[i].case) : j < i} IN
        before # {} => audit[LastOf(before)].assignee = audit[i].actor

\* The log never claims more than was sent: every sms_send entry, and every
\* one about to be written, stands for a message of its own the provider took.
RecordedSendsWereSent ==
  \A c \in CaseId :
    Cardinality({i \in 1..Len(audit) : audit[i].case = c /\ audit[i].action = "sms_send"})
      + Cardinality({d \in Desk : sending[d] # NULL /\ sending[d].case = c
                                    /\ sending[d].at = "record"})
      <= texts[c]

\* _ensure_open_case: "Open a Follow-up Case when none exists so Tier B
\* Workbench shows the thread".  A message is stored with an open case on its
\* thread.
InboundIsListed ==
  [][\A t \in Thread : stored'[t] # stored[t] =>
       \E c \in CaseId : /\ cases'[c] # NULL
                         /\ cases'[c].thread = t
                         /\ cases'[c].status \in OpenStatus]_vars
=============================================================================
