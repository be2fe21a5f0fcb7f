---------------------------- MODULE PolicyReview ----------------------------
(***************************************************************************)
(* Operational policy: authoring slots, eval runs and their promotion, and *)
(* the rollback of a published text (handlers/knowledge.py and             *)
(* handlers/eval_review.py).                                               *)
(*                                                                         *)
(* Every write is one transaction.  A single guarded UPDATE is one action. *)
(* A promotion begins, which stamps the history row it will write, and     *)
(* commits later under the lock of its slot; a rollback pops a history row *)
(* first and only then waits for the slot.                                 *)
(***************************************************************************)
EXTENDS Naturals, FiniteSets

CONSTANTS
  PolicySlot,    \* rows of workbench_policy_slot
  Run,           \* identities of eval runs
  Rollback,      \* concurrent rollback_published_policy calls
  MaxText,       \* bound on the texts ever saved
  MaxBegun       \* bound on the promotions ever begun

ASSUME PolicyAssumption == MaxText \in Nat /\ MaxBegun \in Nat

VARIABLES
  policy,    \* workbench_policy_slot
  history,   \* workbench_policy_slot_history
  run,       \* eval_run, with the promotion in progress
  rolling,   \* the rollbacks in progress
  policyTexts,  \* history: the number of texts saved so far
  begun,     \* transactions begun so far, the clock of archived_at
  done       \* history: promotions and rollbacks of each slot

policyVars == <<policy, history, run, rolling, policyTexts, begun, done>>

\* Texts are numbered as they are saved; 0 is NULL.
PolicyRow == [draft: 0..MaxText, published: 0..MaxText,
              status: {"empty", "draft", "pending_eval", "published"}]

HistoryRow == [slot: PolicySlot, text: 1..MaxText, at: Nat]

\* evaluated is the draft the run was made on; the row does not store it.
RunRow == [slot: PolicySlot, evaluated: 0..MaxText, high: BOOLEAN, signoff: BOOLEAN,
           signed: BOOLEAN, promoted: BOOLEAN, at: Nat]

NoRun == [slot |-> "none"]
NoRollback == [held |-> FALSE]

(***************************************************************************)
(* Authoring                                                               *)
(***************************************************************************)
\* saveDraft: an empty slot becomes a draft, a published or pending one keeps
\* its status.
update_policy_slot(p) ==
  /\ policyTexts < MaxText
  /\ policyTexts' = policyTexts + 1
  /\ policy' = [policy EXCEPT ![p].draft = policyTexts + 1,
                              ![p].status = IF @ = "empty" THEN "draft" ELSE @]
  /\ UNCHANGED <<history, run, rolling, begun, done>>

submit_for_eval(p) ==
  /\ policy[p].draft # 0
  /\ policy' = [policy EXCEPT ![p].status = "pending_eval"]
  /\ UNCHANGED <<history, run, rolling, policyTexts, begun, done>>

(***************************************************************************)
(* Review                                                                  *)
(***************************************************************************)
\* External: a policy_publish run on the draft of a slot is recorded.  Assumed of
\* the harness, since no code checks it: the slot has a draft.
RecordRun(r, p, high, signoff) ==
  /\ run[r] = NoRun
  /\ policy[p].draft # 0
  /\ run' = [run EXCEPT ![r] =
       [slot |-> p, evaluated |-> policy[p].draft, high |-> high, signoff |-> signoff,
        signed |-> FALSE, promoted |-> FALSE, at |-> 0]]
  /\ UNCHANGED <<policy, history, rolling, policyTexts, begun, done>>

\* UPDATE eval_run, and the stamp of a promotion in progress: the columns that
\* are written; the others stay.
RunUpdated(row, signed, promoted, at) ==
  [slot |-> row.slot, evaluated |-> row.evaluated, high |-> row.high,
   signoff |-> row.signoff, signed |-> signed, promoted |-> promoted, at |-> at]

sign_off_medium_failure(r) ==
  /\ run[r] # NoRun
  /\ ~run[r].high /\ run[r].signoff
  /\ run' = [run EXCEPT ![r] = RunUpdated(run[r], TRUE, run[r].promoted, run[r].at)]
  /\ UNCHANGED <<policy, history, rolling, policyTexts, begun, done>>

Promotable(row) ==
  /\ ~row.high
  /\ ~row.signoff \/ row.signed
  /\ ~row.promoted

\* A promotion's transaction begins; now() is fixed here.
BeginPromote(r) ==
  /\ run[r] # NoRun /\ run[r].at = 0
  /\ begun < MaxBegun
  /\ begun' = begun + 1
  /\ run' = [run EXCEPT ![r] = RunUpdated(run[r], run[r].signed, run[r].promoted, begun + 1)]
  /\ UNCHANGED <<policy, history, rolling, policyTexts, done>>

\* _publish_authoring_slot: the prior text goes to history, the draft of now is
\* published.  A second promotion of the run is a no-op success.
promote_pending_policy(r) ==
  /\ run[r] # NoRun /\ run[r].at # 0
  /\ Promotable(run[r])
  /\ LET p == run[r].slot IN
       /\ history' = IF policy[p].published = 0 THEN history
                     ELSE history \cup {[slot |-> p, text |-> policy[p].published,
                                         at |-> run[r].at]}
       /\ policy' = [policy EXCEPT ![p].published = policy[p].draft,
                                   ![p].status = "published"]
       /\ done' = [done EXCEPT ![p].promotions = @ + 1]
  /\ run' = [run EXCEPT ![r] = RunUpdated(run[r], run[r].signed, TRUE, 0)]
  /\ UNCHANGED <<rolling, policyTexts, begun>>

\* Refused by a gate, or rolled back.
PromoteRefused(r) ==
  /\ run[r] # NoRun /\ run[r].at # 0
  /\ run' = [run EXCEPT ![r] = RunUpdated(run[r], run[r].signed, run[r].promoted, 0)]
  /\ UNCHANGED <<policy, history, rolling, policyTexts, begun, done>>

(***************************************************************************)
(* Rollback                                                                *)
(***************************************************************************)
HistoryOf(p) == {h \in history : h.slot = p}

\* ORDER BY archived_at DESC LIMIT 1
Newest(p) == {h \in HistoryOf(p) : \A g \in HistoryOf(p) : g.at <= h.at}

\* Mutant: the pop is a SELECT.
UnclaimedAlways(h) == TRUE

\* DELETE ... RETURNING: a row another rollback has deleted is not returned.
Unclaimed(h) == \A b \in Rollback : rolling[b].held => rolling[b].row # h

\* The DELETE.
PopHistory(b, p) ==
  /\ ~rolling[b].held
  /\ \E h \in Newest(p) :
       /\ Unclaimed(h)
       /\ rolling' = [rolling EXCEPT ![b] = [held |-> TRUE, row |-> h]]
  /\ UNCHANGED <<policy, history, run, policyTexts, begun, done>>

\* The UPDATE of the slot, and the commit.
rollback_published_policy(b) ==
  /\ rolling[b].held
  /\ LET h == rolling[b].row IN
       /\ history' = history \ {h}
       /\ policy' = [policy EXCEPT ![h.slot].published = h.text,
                                   ![h.slot].status = "published"]
       /\ done' = [done EXCEPT ![h.slot].rollbacks = @ + 1]
  /\ rolling' = [rolling EXCEPT ![b] = NoRollback]
  /\ UNCHANGED <<run, policyTexts, begun>>

RollbackFails(b) ==
  /\ rolling[b].held
  /\ rolling' = [rolling EXCEPT ![b] = NoRollback]
  /\ UNCHANGED <<policy, history, run, policyTexts, begun, done>>

PolicyInit ==
  /\ policy = [p \in PolicySlot |-> [draft |-> 0, published |-> 0, status |-> "empty"]]
  /\ history = {}
  /\ run = [r \in Run |-> NoRun]
  /\ rolling = [b \in Rollback |-> NoRollback]
  /\ policyTexts = 0 /\ begun = 0
  /\ done = [p \in PolicySlot |-> [promotions |-> 0, rollbacks |-> 0]]

Author == \E p \in PolicySlot : update_policy_slot(p) \/ submit_for_eval(p)

Review(r) ==
  \/ \E p \in PolicySlot, high \in BOOLEAN, signoff \in BOOLEAN : RecordRun(r, p, high, signoff)
  \/ sign_off_medium_failure(r)
  \/ BeginPromote(r)
  \/ promote_pending_policy(r)
  \/ PromoteRefused(r)

RollBackPolicy(b) ==
  \/ \E p \in PolicySlot : PopHistory(b, p)
  \/ rollback_published_policy(b)
  \/ RollbackFails(b)

PolicyNext ==
  \/ Author
  \/ \E r \in Run : Review(r)
  \/ \E b \in Rollback : RollBackPolicy(b)

PolicySpec == PolicyInit /\ [][PolicyNext]_policyVars

(***************************************************************************)
(* Properties                                                              *)
(***************************************************************************)
Promoted(p) == {r \in Run : run[r] # NoRun /\ run[r].promoted /\ run[r].slot = p}

\* A run publishes once, however often its promotion is asked for, and only
\* after its gate: no high failure, and medium ones signed off
\* (_promote_pending_policy).
PublishedOncePerRun ==
  \A p \in PolicySlot :
    /\ done[p].promotions = Cardinality(Promoted(p))
    /\ \A r \in Promoted(p) : ~run[r].high /\ (run[r].signoff => run[r].signed)

\* No published text disappears: what was promoted and not rolled back is the
\* published text and the history behind it, also when promotions and rollbacks
\* of a slot run at the same time (_publish_authoring_slot,
\* _rollback_published_policy).
HistoryIsConserved ==
  \A p \in PolicySlot :
    done[p].promotions =
      done[p].rollbacks + Cardinality(HistoryOf(p)) + (IF policy[p].published = 0 THEN 0 ELSE 1)

\* A slot's publications are those its eval runs earned, each once, and none of
\* them is lost to a rollback that ran beside it (_promote_pending_policy,
\* _rollback_published_policy).
PublicationsAddUp == PublishedOncePerRun /\ HistoryIsConserved
=============================================================================
