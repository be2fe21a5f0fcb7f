--------------------------- MODULE CopilotLearning ---------------------------
(***************************************************************************)
(* The copilot draft turn and the learning loop behind it: the draft       *)
(* (copilot_turn.py, agent_turn_app.py), the l6_review job it leaves for   *)
(* the background worker (background_worker.py), the proposals the review  *)
(* fork makes, the decisions of administrators on them                     *)
(* (handlers/agent_experience.py) and the injection of the confirmed ones  *)
(* into later drafts (tool_backend.py, postgres_gateway_store.py).         *)
(*                                                                         *)
(* The copilot server and the background worker are two processes, each    *)
(* with an environment of its own.                                         *)
(***************************************************************************)
EXTENDS Naturals, FiniteSets

CONSTANTS
  Draft,             \* requests to agent:turn
  ExperienceId,      \* ids of agent_experience rows
  InjectionLimit,    \* _CONFIRMED_EXPERIENCE_LIMIT
  MaxRestarts        \* bound on restarts of the background worker

ASSUME LearningAssumption ==
  /\ InjectionLimit \in Nat \ {0}
  /\ MaxRestarts \in Nat

VARIABLES
  copilotEnv,   \* flags of the copilot server
  workerEnv,    \* flags of the background worker
  restarts,     \* restarts of the worker so far
  draft,        \* the request: its stage, its channel and what was injected
  review,       \* the l6_review job of a draft
  fork,         \* the review fork the worker runs, if any
  discarded,    \* drafts with a proposal that went to the throwaway mock
  forks,        \* history: how many review forks ran for a draft
  experience,   \* agent_experience
  draftAudit,   \* drafts with a draft_generated row
  decisions,    \* agent_experience_confirmed and _rejected rows of an entry
  confirmedMetric \* METRIC_L6_CONFIRMED events

turnVars == <<draft, draftAudit>>
jobVars == <<review, fork, discarded, forks>>
entryVars == <<experience, decisions, confirmedMetric>>
envVars == <<copilotEnv, workerEnv, restarts>>
learningVars == <<turnVars, jobVars, entryVars, envVars>>

Chat == "chat"
Channel == {"sms", Chat}   \* email and internal_note are handled as sms is

NoEntry == [status |-> "absent"]
NoReview == [status |-> "none", attempts |-> 0]
NoFork == "none"

Confirmed == {e \in ExperienceId : experience[e].status = "confirmed"}

(***************************************************************************)
(* The draft turn                                                          *)
(***************************************************************************)
\* Mutant: the read does not filter on the status.
InjectableUndecided ==
  {e \in ExperienceId : experience[e].status \in {"proposed", "confirmed"}}

\* load_confirmed_experience: the newest confirmed entries up to the limit.
Injectable ==
  {e \in Confirmed :
     Cardinality({f \in Confirmed : experience[f].decided > experience[e].decided}) < InjectionLimit}

\* run_turn up to the first completion. A failing read injects nothing.
BeginDraft(d, channel, readable) ==
  /\ draft[d].at = "new"
  /\ draft' = [draft EXCEPT ![d] =
       [at |-> "drafting", channel |-> channel,
        injected |-> IF copilotEnv.inject /\ readable THEN Injectable ELSE {}]]
  /\ UNCHANGED <<draftAudit, jobVars, entryVars, envVars>>

\* The model's completion raised out of the turn: a 500.
DraftRaises(d) ==
  /\ draft[d].at = "drafting"
  /\ draft' = [draft EXCEPT ![d].at = "failed"]
  /\ UNCHANGED <<draftAudit, jobVars, entryVars, envVars>>

\* The draft is made; with the flag on its review is enqueued. A failing
\* enqueue is logged and swallowed.
FinishDraft(d, enqueued) ==
  /\ draft[d].at = "drafting"
  /\ enqueued => copilotEnv.learning
  /\ draft' = [draft EXCEPT ![d].at = "drafted"]
  /\ review' = IF enqueued THEN [review EXCEPT ![d] = [status |-> "queued", attempts |-> 0]]
               ELSE review
  /\ UNCHANGED <<draftAudit, fork, discarded, forks, entryVars, envVars>>

\* _record_draft_generated raises: a 500, although the review is queued.
AuditRaises(d) ==
  /\ draft[d].at = "drafted" /\ draft[d].channel # Chat
  /\ draft' = [draft EXCEPT ![d].at = "failed"]
  /\ UNCHANGED <<draftAudit, jobVars, entryVars, envVars>>

\* A chat reply is not a draft and leaves no audit row.
AnswerDraft(d) ==
  /\ draft[d].at = "drafted"
  /\ draftAudit' = IF draft[d].channel = Chat THEN draftAudit ELSE draftAudit \cup {d}
  /\ draft' = [draft EXCEPT ![d].at = "answered"]
  /\ UNCHANGED <<jobVars, entryVars, envVars>>

(***************************************************************************)
(* The review job on the background worker                                 *)
(***************************************************************************)
\* The enqueue's max_attempts.
MaxAttempts == 1

\* fail() and the sweep: queued again while attempts are left, else dead.
Failed(job) == [job EXCEPT !.status = IF job.attempts < MaxAttempts THEN "queued" ELSE "dead"]

\* Mutant: the body starts without looking at the worker's own environment.
WritableUnchecked == TRUE

\* _require_l6_writable
Writable == workerEnv.learning /\ workerEnv.key

\* The claim, and the check the body starts with.
ClaimReview(d) ==
  /\ fork = NoFork
  /\ review[d].status = "queued"
  /\ LET claimed == [status |-> "running", attempts |-> review[d].attempts + 1] IN
       IF Writable
       THEN /\ review' = [review EXCEPT ![d] = claimed]
            /\ fork' = d
            /\ forks' = [forks EXCEPT ![d] = @ + 1]
       ELSE /\ review' = [review EXCEPT ![d] = Failed(claimed)]
            /\ UNCHANGED <<fork, forks>>
  /\ UNCHANGED <<turnVars, discarded, entryVars, envVars>>

\* propose_experience of the fork: the write-side scan may refuse it, which the
\* fork takes as a tool error. With the flag off it would land in the mock, which
\* is what the check above keeps from happening. A fork without a model proposes
\* nothing.
ProposeExperience(e) ==
  /\ fork # NoFork
  /\ workerEnv.key
  /\ experience[e].status = "absent"
  /\ IF workerEnv.learning
     THEN /\ experience' = [experience EXCEPT ![e] = [status |-> "proposed", of |-> fork]]
          /\ UNCHANGED discarded
     ELSE /\ discarded' = discarded \cup {fork}
          /\ UNCHANGED experience
  /\ UNCHANGED <<turnVars, review, fork, forks, decisions, confirmedMetric, envVars>>

\* complete() is fenced: a fork whose lease was swept changes nothing.
ForkEnds ==
  /\ fork # NoFork
  /\ fork' = NoFork
  /\ review' = IF review[fork].status = "running"
               THEN [review EXCEPT ![fork].status = "succeeded"]
               ELSE review
  /\ UNCHANGED <<turnVars, discarded, forks, entryVars, envVars>>

\* The fork raises, possibly after a proposal: fail(), fenced as well.
ForkRaises ==
  /\ fork # NoFork
  /\ fork' = NoFork
  /\ review' = IF review[fork].status = "running"
               THEN [review EXCEPT ![fork] = Failed(@)]
               ELSE review
  /\ UNCHANGED <<turnVars, discarded, forks, entryVars, envVars>>

\* A worker sweeps the expired lease, whether the fork still runs or not.
SweepReview(d) ==
  /\ review[d].status = "running"
  /\ review' = [review EXCEPT ![d] = Failed(@)]
  /\ UNCHANGED <<turnVars, fork, discarded, forks, entryVars, envVars>>

\* The worker stops, with whatever it runs, and comes back with another
\* environment.
RestartWorker(env) ==
  /\ restarts < MaxRestarts
  /\ restarts' = restarts + 1
  /\ workerEnv' = env
  /\ fork' = NoFork
  /\ UNCHANGED <<copilotEnv, turnVars, review, discarded, forks, entryVars>>

(***************************************************************************)
(* Decisions                                                               *)
(***************************************************************************)
Decidable(e) == experience[e].status = "proposed"

\* One transaction: the row, its audit row and the counter. An entry that was
\* decided before is returned as it is.
Decide(e, verdict) ==
  /\ Decidable(e)
  /\ experience' = [experience EXCEPT ![e] =
       [status |-> verdict, of |-> experience[e].of,
        decided |-> Cardinality({f \in ExperienceId : decisions[f] # {}})]]
  /\ decisions' = [decisions EXCEPT ![e] = @ \cup {verdict}]
  /\ confirmedMetric' = IF verdict = "confirmed" THEN confirmedMetric + 1 ELSE confirmedMetric
  /\ UNCHANGED <<turnVars, jobVars, envVars>>

(***************************************************************************)
(* Specification                                                           *)
(***************************************************************************)
CopilotEnv == [learning: BOOLEAN, inject: BOOLEAN]
WorkerEnv == [learning: BOOLEAN, key: BOOLEAN]

LearningInit ==
  /\ copilotEnv \in CopilotEnv
  /\ workerEnv \in WorkerEnv
  /\ restarts = 0
  /\ draft = [d \in Draft |-> [at |-> "new", injected |-> {}]]
  /\ review = [d \in Draft |-> NoReview]
  /\ fork = NoFork
  /\ discarded = {}
  /\ forks = [d \in Draft |-> 0]
  /\ experience = [e \in ExperienceId |-> NoEntry]
  /\ draftAudit = {}
  /\ decisions = [e \in ExperienceId |-> {}]
  /\ confirmedMetric = 0

DraftTurn(d) ==
  \/ \E c \in Channel, readable \in BOOLEAN : BeginDraft(d, c, readable)
  \/ DraftRaises(d)
  \/ \E enqueued \in BOOLEAN : FinishDraft(d, enqueued)
  \/ AuditRaises(d)
  \/ AnswerDraft(d)

ReviewWorker ==
  \/ \E d \in Draft : ClaimReview(d)
  \/ \E e \in ExperienceId : ProposeExperience(e)
  \/ ForkEnds
  \/ ForkRaises
  \/ \E d \in Draft : SweepReview(d)
  \/ \E env \in WorkerEnv : RestartWorker(env)

LearningNext ==
  \/ \E d \in Draft : DraftTurn(d)
  \/ ReviewWorker
  \/ \E e \in ExperienceId, verdict \in {"confirmed", "rejected"} : Decide(e, verdict)

LearningSpec == LearningInit /\ [][LearningNext]_learningVars

(***************************************************************************)
(* Properties                                                              *)
(***************************************************************************)
\* A turn is reviewed at most once, whatever fails, is swept or restarts: the
\* fork writes, and a second one could record the same lesson twice
\* (copilot_turn.py, max_attempts=1).
OneForkPerTurn == \A d \in Draft : forks[d] <= 1

\* A review that reports success kept everything it proposed: nothing of it went
\* to the throwaway mock of a worker configured apart from the copilot server
\* (L6ReviewMisconfigured: "a silent no-op is a lost row, not a no-op").
SucceededReviewsAreDurable ==
  \A d \in Draft : review[d].status = "succeeded" => d \notin discarded

\* Whatever several administrators decide about an entry, it keeps the first
\* decision: its audit rows name that one alone, and the counter of confirmed
\* entries is their number (_decide_experience, "WHERE status = 'proposed'").
DecidedOnce ==
  /\ \A e \in ExperienceId :
       decisions[e] = {experience[e].status} \ {"absent", "proposed"}
  /\ confirmedMetric = Cardinality(Confirmed)

\* What a draft was given to learn from, an administrator had confirmed, and it
\* stays confirmed; never more than the limit (load_confirmed_experience).
InjectedIsConfirmed ==
  \A d \in Draft :
    /\ draft[d].injected \subseteq Confirmed
    /\ Cardinality(draft[d].injected) <= InjectionLimit

\* An employee who got a draft has it in the audit log, and a request that
\* failed left no row there; the learning loop has no part in either
\* (_record_draft_generated on success only).
AuditedIffAnswered ==
  \A d \in Draft : d \in draftAudit <=> draft[d].at = "answered" /\ draft[d].channel # Chat

\* A turn's review happens once and is kept, and an answered draft is on record:
\* through failed forks, swept leases, restarts into another environment and lost
\* audit writes (copilot_turn.py, background_worker.py, agent_turn_app.py).
ReviewsAreSound == OneForkPerTurn /\ SucceededReviewsAreDurable /\ AuditedIffAnswered

\* What later drafts learn from is what one administrator confirmed, once and for
\* good (handlers/agent_experience.py, load_confirmed_experience).
LessonsAreDecided == DecidedOnce /\ InjectedIsConfirmed
=============================================================================
