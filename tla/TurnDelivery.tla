---------------------------- MODULE TurnDelivery ----------------------------
(***************************************************************************)
(* A customer turn from acceptance to its reply: the gateway's persist     *)
(* (postgres_gateway_store.persist_accepted_inbound) puts context and job  *)
(* in one transaction, a turn worker claims the job and runs its body      *)
(* (agent_turn_job.py, turn_runner.py), the body delivers through          *)
(* deliver_once, and the queue records the outcome.  The internal parity   *)
(* route runs the same body with no job behind it.                         *)
(*                                                                         *)
(* Composes JobQueue, whose jobs are agent turns with the event as payload,*)
(* with OutboundSend, whose callers are the turn workers and the route.    *)
(***************************************************************************)
EXTENDS Naturals

CONSTANTS
  JobId, TurnWorker, MaxAttempts, Backoff, LeaseSeconds, MaxTime, MaxReplays, NULL,
  Event, Kind, Reply,
  Route,          \* concurrent requests to /internal/jobs/agent-turn
  MaxRouteCalls   \* bound on requests to the route

VARIABLES
  job, now, pc, held, tick, replays,
  outbound, turn, posts, delivered, mirrored,
  context,        \* events with a row in agent_turn_context
  routeCalls      \* requests made to the route so far

Caller == TurnWorker \cup Route

Queue == INSTANCE JobQueue WITH
           Payload <- Event, BackgroundWorker <- {},
           EnqueuedType <- {"agent_turn"}, Interval <- [t \in {} |-> 0]

Send == INSTANCE OutboundSend

\* What the two components ask of the constants they share.
ASSUME TurnAssumption ==
  /\ MaxAttempts \in [Queue!JobType -> Nat \ {0}]
  /\ \A t \in Queue!JobType : \A n \in 1..MaxAttempts[t] : Backoff[n] \in Nat
  /\ LeaseSeconds \in Nat
  /\ NULL \notin Nat \cup TurnWorker \cup Queue!Row \cup Queue!Job \cup Queue!Key
  /\ TurnWorker \cap Route = {}
  /\ Kind \in [Event -> {"sms", "email", "opt_out"}]
  /\ Reply \subseteq {"text", "blank"}

queueVars == <<job, now, pc, held, tick, replays>>

vars == <<job, now, pc, held, tick, replays, outbound, turn, posts, delivered,
          mirrored, context, routeCalls>>

\* persist_accepted_inbound: the context row gates the job row, both or none.
Accept(e) ==
  /\ e \notin context
  /\ context' = context \cup {e}
  /\ Queue!Enqueue("agent_turn", e)
  /\ UNCHANGED <<outbound, turn, posts, delivered, mirrored, routeCalls>>

(***************************************************************************)
(* The turn body                                                           *)
(***************************************************************************)
\* Mutant: a reply sent around deliver_once.
RunTurnUnwrapped(c, e) ==
  /\ e \in context
  /\ turn[c].at = "idle"
  /\ turn' = [turn EXCEPT ![c] =
                [at |-> "post", event |-> e, reply |-> "text", result |-> "sent"]]
  /\ UNCHANGED <<outbound, posts, delivered, mirrored>>

\* execute_agent_turn_job up to deliver_once: reload the context, run the
\* model.  A turn that ran has a reply to deliver.  (gateway_composition always
\* gives the worker and the route a turn_runner.)
RunTurn(c, e) ==
  /\ e \in context
  /\ \E reply \in Reply : Send!Deliver(c, e, reply)

\* No context (CONTEXT_NOT_FOUND), or the model call raised.
TurnRaises(c, e) == Send!NeverDeliver(c, e)

WorkerRuns(w) ==
  /\ pc[w] = "run"
  /\ LET e == job[held[w].id].payload IN RunTurn(w, e) \/ TurnRaises(w, e)
  /\ UNCHANGED <<queueVars, context, routeCalls>>

RouteRuns(r) ==
  /\ routeCalls < MaxRouteCalls
  /\ routeCalls' = routeCalls + 1
  /\ \E e \in Event : RunTurn(r, e)
  /\ UNCHANGED <<queueVars, context>>

Delivery(c) ==
  /\ Send!DeliveryStep(c)
  /\ UNCHANGED <<queueVars, context, routeCalls>>

DeliveryFault(c) ==
  /\ Send!DeliveryFault(c)
  /\ UNCHANGED <<queueVars, context, routeCalls>>

(***************************************************************************)
(* The worker around it                                                    *)
(***************************************************************************)
Drop(w) ==
  /\ turn' = [turn EXCEPT ![w] = Send!Idle]
  /\ UNCHANGED <<outbound, posts, delivered, mirrored, context, routeCalls>>

\* Mutants: a raised body is reported complete; the report is not fenced.
ReportAlwaysCompletes(w) ==
  /\ turn[w].at \in {"returned", "raised", "burned"}
  /\ Queue!Complete(w)
  /\ Drop(w)

ReportUnfenced(w) ==
  /\ turn[w].at = "returned" /\ pc[w] = "run"
  /\ job' = [job EXCEPT ![held[w].id] = Queue!Succeeded(job[held[w].id])]
  /\ Queue!EndPoll(w, "sweep")
  /\ UNCHANGED <<now, replays>>
  /\ Drop(w)

\* The body's end decides: COMPLETED reports complete, an exception fail.
Report(w) ==
  /\ \/ turn[w].at = "returned" /\ Queue!Complete(w)
     \/ turn[w].at \in {"raised", "burned"} /\ Queue!Fail(w)
  /\ Drop(w)

SendUnchanged ==
  UNCHANGED <<outbound, turn, posts, delivered, mirrored, context, routeCalls>>

WorkerSweeps(w) == Queue!Sweep(w) /\ SendUnchanged

WorkerClaims(w) == (\E j \in JobId : Queue!Claim(w, j)) /\ SendUnchanged

WorkerFindsNothing(w) == Queue!ClaimNothing(w) /\ SendUnchanged

\* Only queue calls reach poll_forever's handler: the claim, complete or fail.
PollFails(w) ==
  /\ pc[w] = "run" => turn[w].at \in {"returned", "raised", "burned"}
  /\ Queue!PollError(w)
  /\ Drop(w)

WorkerExits(w) == Queue!Exit(w) /\ Drop(w)

WorkerStarts(w) == Queue!Start(w) /\ SendUnchanged

\* The route answers its caller, or its process dies.
RouteEnds(r) ==
  /\ Send!Leave(r)
  /\ UNCHANGED <<queueVars, context, routeCalls>>

SupervisorReplays(j) == Queue!Replay(j) /\ SendUnchanged

Clock == Queue!AdvanceClock /\ SendUnchanged

Init ==
  /\ Queue!Init
  /\ Send!OutboundInit
  /\ context = {}
  /\ routeCalls = 0

WorkerStep(w) ==
  \/ WorkerSweeps(w)
  \/ WorkerClaims(w)
  \/ WorkerFindsNothing(w)
  \/ WorkerRuns(w)
  \/ Delivery(w)
  \/ Report(w)

WorkerFault(w) == DeliveryFault(w) \/ PollFails(w) \/ WorkerExits(w)

RouteStep(r) == RouteRuns(r) \/ Delivery(r) \/ DeliveryFault(r) \/ RouteEnds(r)

Next ==
  \/ \E e \in Event : Accept(e)
  \/ \E w \in TurnWorker : WorkerStep(w) \/ WorkerFault(w) \/ WorkerStarts(w)
  \/ \E r \in Route : RouteStep(r)
  \/ \E j \in JobId : SupervisorReplays(j)
  \/ Clock

Spec == Init /\ [][Next]_vars

(***************************************************************************)
(* A process that keeps being restarted gets its sweep and its claim       *)
(* through again and again: Postgres and the host are not down every time. *)
(* A job body is only weakly fair, so a body that kills its worker on      *)
(* every attempt is among the behaviours.  Every request on the route ends.*)
(***************************************************************************)
Fairness ==
  /\ \A w \in TurnWorker : /\ SF_vars(WorkerSweeps(w))
                            /\ SF_vars(WorkerClaims(w))
                            /\ WF_vars(WorkerStep(w))
                            /\ WF_vars(WorkerStarts(w))
  /\ \A r \in Route : WF_vars(Delivery(r) \/ RouteEnds(r))

(***************************************************************************)
(* Properties                                                              *)
(***************************************************************************)
JobOf(e) == {j \in Queue!Rows : job[j].payload = e}

\* What an operator's view shows of an event: a dead job, or an outbound row
\* in one of the buckets of _list_dead_letters.
Surfaced(e) ==
  \/ \E j \in JobOf(e) : job[j].status = "dead"
  \/ Send!OperatorSees(outbound[e])

\* "At-most-once is not permission to be quiet": a turn the queue counts as
\* succeeded was answered, or its outbound row is in front of an operator.
\* A crash in mid-delivery, a replay and a parity-route call in between are
\* all among the ways to get there.
NoSilentLoss ==
  \A e \in Event :
    (\E j \in JobOf(e) : job[j].status = "succeeded") =>
      Send!Answered(e) \/ Surfaced(e)

\* US3: every accepted message is answered, or comes to rest in front of an
\* operator: a dead job, or an outbound row nobody is still working on.
EveryTurnIsAnswered ==
  \A e \in Event :
    e \in context ~>
      \/ Send!Answered(e)
      \/ \E j \in JobOf(e) : job[j].status = "dead"
      \/ /\ Send!OperatorSees(outbound[e])
         /\ \A c \in Caller : turn[c].at # "idle" => turn[c].event # e

\* NFR-3: a turn's job is never stranded, whatever its worker does.
EveryJobSettles == Queue!EveryJobSettles

\* Whatever a turn does to the job table is a step JobQueue allows, so what is
\* proved of the queue holds of turns (run_once goes through claim, complete
\* and fail only).
ImplementsQueue == Queue!Spec

\* Whatever a turn does to the outbound record and the provider is a step of
\* deliver_once, so what is proved of OutboundSend holds of turns.
ImplementsSendRecord == Send!OutboundSpec
=============================================================================
