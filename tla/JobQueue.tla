------------------------------ MODULE JobQueue ------------------------------
(***************************************************************************)
(* The durable job queue (hermes_runtime/job_queue.py) and the two worker  *)
(* loops that drain it (turn_worker.py, background_worker.py), with the    *)
(* supervisor's governed replay (datastore/handlers/dead_letter.py).       *)
(*                                                                         *)
(* The "job" table is the only shared state.  Every queue method is one    *)
(* committed transaction, hence one action; between two of its calls a     *)
(* worker may be arbitrarily slow, may die, or may see the database fail.  *)
(* What a job body does is left open here: it ends well or it raises.      *)
(***************************************************************************)
EXTENDS Naturals, FiniteSets

CONSTANTS
  JobId,            \* identities new_id("job") can hand out
  Payload,          \* what a job is about (opaque to the queue)
  TurnWorker,       \* turn_worker processes
  BackgroundWorker, \* background_worker processes
  EnqueuedType,     \* job types somebody enqueues in this instance
  MaxAttempts,      \* max_attempts each type's enqueue site passes
  Backoff,          \* seconds before retry n: power(_BACKOFF_BASE, n)
  LeaseSeconds,     \* DEFAULT_LEASE_SECONDS
  Interval,         \* interval_seconds of every scheduled type
  MaxTime,          \* bound on the clock
  MaxReplays,       \* bound on supervisor replays
  NULL              \* SQL NULL, Python None

AgentTurn == "agent_turn"

BackgroundType ==
  {"l6_review", "retention", "ingest", "integration_probe", "honored_rate"}

JobType == {AgentTurn} \cup BackgroundType

ReplayBlocked == {"l6_review"}

NonConcurrent == {"ingest"}

Scheduled == DOMAIN Interval

Worker == TurnWorker \cup BackgroundWorker

Key == JobType \X Nat

Status == {"queued", "running", "succeeded", "failed", "dead"}

Claimable == {"queued", "failed"}

Row == [status: Status, type: JobType, payload: Payload \cup {NULL},
        key: Key \cup {NULL}, attempts: Nat, max_attempts: Nat, run_at: Nat,
        created_at: Nat, locked_at: Nat \cup {NULL},
        locked_by: Worker \cup {NULL}]

Job == [id: JobId, lease: Nat]

NoTick == [moment |-> 0, left |-> {}]

ASSUME ConstantsAssumption ==
  /\ EnqueuedType \subseteq JobType
  /\ MaxAttempts \in [JobType -> Nat \ {0}]
  /\ \A t \in JobType : \A n \in 1..MaxAttempts[t] : Backoff[n] \in Nat
  /\ LeaseSeconds \in Nat
  /\ Scheduled \subseteq BackgroundType
  /\ \A t \in Scheduled : Interval[t] \in Nat \ {0}
  /\ TurnWorker \cap BackgroundWorker = {}
  /\ NULL \notin Nat \cup Worker \cup Row \cup Job \cup Key

VARIABLES
  job,      \* the job table: a Row for every inserted id, NULL for the others
  now,      \* Postgres now(), in seconds
  pc,       \* where each worker is in its poll loop
  held,     \* the Job object claim() handed the worker, or NULL
  tick,     \* the background worker's pass over SCHEDULES
  replays   \* replays granted so far

vars == <<job, now, pc, held, tick, replays>>

(***************************************************************************)
(* The table                                                               *)
(***************************************************************************)
Rows == {j \in JobId : job[j] # NULL}

HasStatus(j, S) == j \in Rows /\ job[j].status \in S

\* insert_job: a fresh row, due at once, unless its dedupe key is taken.
NewRow(t, p, k) ==
  [status |-> "queued", type |-> t, payload |-> p, key |-> k, attempts |-> 0,
   max_attempts |-> MaxAttempts[t], run_at |-> now, created_at |-> now,
   locked_at |-> NULL, locked_by |-> NULL]

KeyTaken(k) == k # NULL /\ \E j \in Rows : job[j].key = k

\* The ON CONFLICT DO NOTHING branch leaves the table as it is.
insert_job(t, p, k) ==
  IF KeyTaken(k)
    THEN job' = job
    ELSE \E j \in JobId \ Rows : job' = [job EXCEPT ![j] = NewRow(t, p, k)]

\* UPDATE job SET ...: the columns a transition writes; the others stay.
Updated(row, status, attempts, run_at, locked_at, locked_by) ==
  [status |-> status, type |-> row.type, payload |-> row.payload,
   key |-> row.key, attempts |-> attempts, max_attempts |-> row.max_attempts,
   run_at |-> run_at, created_at |-> row.created_at,
   locked_at |-> locked_at, locked_by |-> locked_by]

\* Mutant: one attempt too many.
ReleasedLate(row) ==
  IF row.attempts > row.max_attempts
    THEN Updated(row, "dead", row.attempts, row.run_at, NULL, NULL)
    ELSE Updated(row, "failed", row.attempts, now + Backoff[row.attempts], NULL, NULL)

\* _release: dead once the attempts are spent, else failed and backing off.
Released(row) ==
  IF row.attempts >= row.max_attempts
    THEN Updated(row, "dead", row.attempts, row.run_at, NULL, NULL)
    ELSE Updated(row, "failed", row.attempts, now + Backoff[row.attempts], NULL, NULL)

Claimed(row, w) == Updated(row, "running", row.attempts + 1, row.run_at, now, w)

Succeeded(row) == Updated(row, "succeeded", row.attempts, row.run_at, NULL, NULL)

Requeued(row) == Updated(row, "queued", 0, now, NULL, NULL)

\* Mutant: a lease ends a second early.
ExpiredEarly(j) == HasStatus(j, {"running"}) /\ job[j].locked_at + LeaseSeconds <= now

Expired(j) == HasStatus(j, {"running"}) /\ job[j].locked_at + LeaseSeconds < now

\* Mutant: an UPDATE that checks the status and not the lease.
FencedByStatus(w) == HasStatus(held[w].id, {"running"})

\* _FENCE_SQL: the row is running under exactly the lease the caller holds.
Fenced(w) ==
  /\ HasStatus(held[w].id, {"running"})
  /\ job[held[w].id].locked_at = held[w].lease

(***************************************************************************)
(* Producers and the supervisor                                            *)
(***************************************************************************)
\* enqueue / insert_job on a caller's cursor.  No producer but the schedule
\* tick passes a dedupe key.
Enqueue(t, p) ==
  /\ insert_job(t, p, NULL)
  /\ UNCHANGED <<now, pc, held, tick, replays>>

\* Mutant: a replay that does not look at the status.
ReplayAnything(j) == j \in Rows

\* _replay_job, then replay_dead_job: one dead row goes back to the queue.  The
\* handler's two SELECTs and its UPDATE, which asks for 'dead' again, are one step
\* here; the check reads the table, and a body that overran its lease is no longer
\* "running" there.
ReplayAllowed(j) ==
  /\ HasStatus(j, {"dead"})
  /\ job[j].type \notin ReplayBlocked
  /\ job[j].type \in NonConcurrent =>
       ~ \E i \in Rows : job[i].type = job[j].type /\ job[i].status = "running"

Replay(j) ==
  /\ replays < MaxReplays
  /\ ReplayAllowed(j)
  /\ job' = [job EXCEPT ![j] = Requeued(job[j])]
  /\ replays' = replays + 1
  /\ UNCHANGED <<now, pc, held, tick>>

(***************************************************************************)
(* run_once of either worker: sweep, tick (background only), claim, run    *)
(***************************************************************************)
\* Mutant: claim without its type filter.
AllowlistAll(w) == JobType

Allowlist(w) == IF w \in TurnWorker THEN {AgentTurn} ELSE BackgroundType

\* reclaim_expired_leases: any worker releases every expired lease.
Sweep(w) ==
  /\ pc[w] = "sweep"
  /\ job' = [j \in JobId |-> IF Expired(j) THEN Released(job[j]) ELSE job[j]]
  /\ pc' = [pc EXCEPT ![w] = IF w \in BackgroundWorker THEN "tick" ELSE "claim"]
  /\ tick' = IF w \in BackgroundWorker
               THEN [tick EXCEPT ![w] = [moment |-> now, left |-> Scheduled]]
               ELSE tick
  /\ UNCHANGED <<now, held, replays>>

ScheduleKey(t, moment) == <<t, moment \div Interval[t]>>

\* tick_schedules: one _insert, committed by itself, per schedule.  The moment is
\* the worker's time.time(), taken here to agree with the database's clock.
TickSchedule(w, t) ==
  /\ pc[w] = "tick"
  /\ t \in tick[w].left
  /\ insert_job(t, NULL, ScheduleKey(t, tick[w].moment))
  /\ tick' = [tick EXCEPT ![w].left = @ \ {t}]
  /\ UNCHANGED <<now, pc, held, replays>>

TickDone(w) ==
  /\ pc[w] = "tick"
  /\ tick[w].left = {}
  /\ pc' = [pc EXCEPT ![w] = "claim"]
  /\ tick' = [tick EXCEPT ![w] = NoTick]
  /\ UNCHANGED <<job, now, held, replays>>

\* Mutant: failed rows are never retried.
DueQueuedOnly(w) ==
  {j \in Rows : /\ job[j].status = "queued"
                /\ job[j].run_at <= now
                /\ job[j].type \in Allowlist(w)}

Due(w) ==
  {j \in Rows : /\ job[j].status \in Claimable
                /\ job[j].run_at <= now
                /\ job[j].type \in Allowlist(w)}

\* ORDER BY run_at, created_at
NotAfter(i, j) ==
  \/ job[i].run_at < job[j].run_at
  \/ job[i].run_at = job[j].run_at /\ job[i].created_at <= job[j].created_at

\* claim: the oldest due row of the worker's own types becomes its lease.
Claim(w, j) ==
  /\ pc[w] = "claim"
  /\ j \in Due(w)
  /\ \A i \in Due(w) : NotAfter(j, i)
  /\ job' = [job EXCEPT ![j] = Claimed(job[j], w)]
  /\ held' = [held EXCEPT ![w] = [id |-> j, lease |-> now]]
  /\ pc' = [pc EXCEPT ![w] = "run"]
  /\ UNCHANGED <<now, tick, replays>>

\* run_once is over: its local variables go out of scope.
EndPoll(w, next) ==
  /\ pc' = [pc EXCEPT ![w] = next]
  /\ held' = [held EXCEPT ![w] = NULL]
  /\ tick' = [tick EXCEPT ![w] = NoTick]

\* Nothing due: sleep POLL_SECONDS, then poll again.
ClaimNothing(w) ==
  /\ pc[w] = "claim"
  /\ Due(w) = {}
  /\ EndPoll(w, "sweep")
  /\ UNCHANGED <<job, now, replays>>

\* The body returned: complete(job).  LeaseLost is logged and dropped.
Complete(w) ==
  /\ pc[w] = "run"
  /\ IF Fenced(w)
       THEN job' = [job EXCEPT ![held[w].id] = Succeeded(job[held[w].id])]
       ELSE job' = job
  /\ EndPoll(w, "sweep")
  /\ UNCHANGED <<now, replays>>

\* The body raised (or reported no turn): fail(job).
Fail(w) ==
  /\ pc[w] = "run"
  /\ IF Fenced(w)
       THEN job' = [job EXCEPT ![held[w].id] = Released(job[held[w].id])]
       ELSE job' = job
  /\ EndPoll(w, "sweep")
  /\ UNCHANGED <<now, replays>>

\* A queue call raised and poll_forever caught it: the poll is abandoned, and
\* a job in hand stays running until its lease expires.
PollError(w) ==
  /\ pc[w] \in {"tick", "claim", "run"}
  /\ EndPoll(w, "sweep")
  /\ UNCHANGED <<job, now, replays>>

\* SIGKILL at any point; or SIGTERM, honoured between polls.
Exit(w) ==
  /\ pc[w] # "down"
  /\ EndPoll(w, "down")
  /\ UNCHANGED <<job, now, replays>>

\* restart: unless-stopped
Start(w) ==
  /\ pc[w] = "down"
  /\ pc' = [pc EXCEPT ![w] = "sweep"]
  /\ UNCHANGED <<job, now, held, tick, replays>>

AdvanceClock ==
  /\ now < MaxTime
  /\ now' = now + 1
  /\ UNCHANGED <<job, pc, held, tick, replays>>

Init ==
  /\ job = [j \in JobId |-> NULL]
  /\ now = 0
  /\ pc = [w \in Worker |-> "sweep"]
  /\ held = [w \in Worker |-> NULL]
  /\ tick = [w \in Worker |-> NoTick]
  /\ replays = 0

WorkerStep(w) ==
  \/ Sweep(w)
  \/ \E t \in Scheduled : TickSchedule(w, t)
  \/ TickDone(w)
  \/ \E j \in JobId : Claim(w, j)
  \/ ClaimNothing(w)
  \/ Complete(w)
  \/ Fail(w)

WorkerFault(w) == PollError(w) \/ Exit(w)

Next ==
  \/ \E t \in EnqueuedType, p \in Payload : Enqueue(t, p)
  \/ \E j \in JobId : Replay(j)
  \/ \E w \in Worker : WorkerStep(w) \/ WorkerFault(w) \/ Start(w)
  \/ AdvanceClock

Spec == Init /\ [][Next]_vars

(***************************************************************************)
(* Properties                                                              *)
(***************************************************************************)

\* Every column of job, and every worker's local state, has its type, and a
\* worker has a job in hand exactly while it runs a body.
TypeOK ==
  /\ job \in [JobId -> Row \cup {NULL}]
  /\ now \in Nat
  /\ pc \in [Worker -> {"down", "sweep", "tick", "claim", "run"}]
  /\ held \in [Worker -> Job \cup {NULL}]
  /\ tick \in [Worker -> [moment: Nat, left: SUBSET Scheduled]]
  /\ replays \in Nat
  /\ \A w \in Worker : held[w] # NULL <=> pc[w] = "run"

\* The table agrees with itself: a row has a lease exactly while it runs,
\* waits only with attempts to spare, and is dead only with none left, so
\* claim never starts an attempt beyond max_attempts (_release, claim).
RowConsistent(row) ==
  /\ row.status = "running" <=> row.locked_at # NULL
  /\ row.status = "running" <=> row.locked_by # NULL
  /\ row.max_attempts = MaxAttempts[row.type]
  /\ row.attempts <= row.max_attempts
  /\ row.status \in Claimable => row.attempts < row.max_attempts
  /\ row.status = "running" => row.attempts > 0
  /\ row.status = "dead" => row.attempts = row.max_attempts

AttemptsAccounted == \A j \in Rows : RowConsistent(job[j])

\* The comment on _FENCE_SQL: of all the workers that believe they run a job,
\* at most the one the row names can pass the fence; two live leases on one
\* row never share a timestamp.
FenceAdmitsOnlyTheHolder ==
  \A w \in Worker :
    pc[w] = "run" /\ Fenced(w) => job[held[w].id].locked_by = w

\* No double execution but by overrunning the lease: a worker in a job body
\* either still owns the row or has held it for longer than LeaseSeconds
\* (reclaim_expired_leases never takes a live lease).
HolderOrExpired ==
  \A w \in Worker :
    pc[w] = "run" => Fenced(w) \/ held[w].lease + LeaseSeconds < now

\* Settled rows stay settled: no slow worker resurrects a job.  succeeded is
\* final; dead is left only by a replay, which hands back the full attempt
\* budget; the type, payload and dedupe key of a row never change.
SettledStaysSettled ==
  [][\A j \in Rows :
       /\ j \in Rows'
       /\ job'[j].type = job[j].type
       /\ job'[j].payload = job[j].payload
       /\ job'[j].key = job[j].key
       /\ job[j].status = "succeeded" => job'[j] = job[j]
       /\ job[j].status = "dead" =>
            \/ job'[j] = job[j]
            \/ /\ job'[j].status = "queued"
               /\ job'[j].attempts = 0
               /\ replays' = replays + 1]_vars

\* A job is finished by the worker whose lease it is, in the step in which
\* that worker reports, or put back by a sweep after the lease ran out.
OnlyTheHolderFinishes ==
  [][\A j \in Rows :
       job[j].status = "running" /\ job'[j] # job[j] =>
         \/ /\ job'[j].status \in {"succeeded", "failed", "dead"}
            /\ LET w == job[j].locked_by IN
                 pc[w] = "run" /\ held[w].id = j /\ pc'[w] = "sweep"
         \/ /\ job'[j].status \in {"failed", "dead"}
            /\ job[j].locked_at + LeaseSeconds < now]_vars

\* What a row has become is undone by nobody who lost it: settled rows stay settled
\* and running ones are finished by their holder (complete, fail, _release).
SettlementIsFenced == SettledStaysSettled /\ OnlyTheHolderFinishes

\* FR-9 isolation: the turn worker holds customer turns only, the background
\* worker never one.
ClaimIsolation ==
  \A j \in Rows :
    job[j].status = "running" =>
      (job[j].type = AgentTurn <=> job[j].locked_by \in TurnWorker)

\* NON_CONCURRENT_JOB_TYPES: "This check is what actually enforces
\* one-at-a-time".  No two workers are in an ingest body at once.  Violated with
\* two background workers: the check, in replay_job alone, asks for a job that is
\* running in the table, and an ingest that overran its lease is dead there while
\* its body goes on.
OneIngestAtATime ==
  \A v, w \in Worker :
    /\ pc[v] = "run" /\ job[held[v].id].type \in NonConcurrent
    /\ pc[w] = "run" /\ job[held[w].id].type = job[held[v].id].type
    => v = w

\* US3, NFR-3: an accepted job is never stranded.  Whatever its worker does,
\* it ends as succeeded or in front of an operator as dead.
EveryJobSettles ==
  \A j \in JobId : j \in Rows ~> HasStatus(j, {"succeeded", "dead"})
=============================================================================
