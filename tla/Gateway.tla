------------------------------ MODULE Gateway ------------------------------
(***************************************************************************)
(* The inbound webhook: process_inbound (toee_hermes/gateway/pipeline.py)  *)
(* and the route that acts on its decision (gateway_app.py), over the      *)
(* Postgres store (postgres_gateway_store.py).                             *)
(*                                                                         *)
(* A gateway process runs one request at a time: after the body is read    *)
(* the handler never awaits.  Several processes share the database.  The   *)
(* provider delivers an event at least once, redelivers it while it gets   *)
(* no 200, and may repeat it even after one.  Requests without the webhook *)
(* token or an event id are answered 401 and change nothing.               *)
(***************************************************************************)
EXTENDS Naturals, Sequences

CONSTANTS
  Process,   \* gateway processes
  Event,     \* inbound events
  Kind,      \* "sms", "email" or "opt_out" (an SMS with an opt-out keyword)
  Phone,     \* from_phone of every event
  Limit,     \* InboundRateLimiter limit
  Window,    \* InboundRateLimiter window_ms
  MaxTime,   \* bound on the clock
  NULL

VARIABLES
  context,    \* agent_turn_context, by event_id
  claims,     \* inbound_event_claim
  jobs,       \* agent_turn jobs inserted, by event
  request,    \* the request each process is handling, or NULL
  hits,       \* each process's rate limiter: recent accepted hits by phone
  clock,      \* the limiter's monotonic clock
  acked,      \* events the provider has a 200 for
  throttled,  \* events answered 200 as rate_limited
  outbound, turn, posts, delivered, mirrored

Send == INSTANCE OutboundSend WITH Caller <- Process, Reply <- {"text"}

store == <<context, claims, jobs>>

sending == <<outbound, turn, posts, delivered, mirrored>>

vars == <<store, request, hits, clock, acked, throttled, sending>>

\* The stages of process_inbound and of the route behind it.
Stage == {"idempotency", "opt_out", "claimed", "confirm", "ingress", "persist"}

Request == [event: Event, at: Stage]

ASSUME GatewayAssumption ==
  /\ Limit \in Nat \ {0}
  /\ Window \in Nat
  /\ NULL \notin Request

At(g, stage) == request[g] # NULL /\ request[g].at = stage

GoTo(g, stage) ==
  request' = [request EXCEPT ![g] = [event |-> request[g].event, at |-> stage]]

\* The response: a 200 is final for the provider, a 500 asks for a retry.
Respond(g, status) ==
  /\ request' = [request EXCEPT ![g] = NULL]
  /\ acked' = IF status = 200 THEN acked \cup {request[g].event} ELSE acked

Receive(g, e) ==
  /\ request[g] = NULL
  /\ request' = [request EXCEPT ![g] = [event |-> e, at |-> "idempotency"]]
  /\ UNCHANGED <<store, hits, clock, acked, throttled, sending>>

is_duplicate(e) == e \in context \/ e \in claims

\* Mutant: no opt-out short-circuit.
DedupeNoOptOut(g) ==
  /\ At(g, "idempotency")
  /\ IF is_duplicate(request[g].event)
       THEN Respond(g, 200)
       ELSE GoTo(g, "ingress") /\ acked' = acked
  /\ UNCHANGED <<store, hits, clock, throttled, sending>>

\* The idempotency stage, then opt-out or ingress.
Dedupe(g) ==
  /\ At(g, "idempotency")
  /\ LET e == request[g].event IN
       IF is_duplicate(e)
         THEN Respond(g, 200)
         ELSE /\ GoTo(g, IF Kind[e] = "opt_out" THEN "opt_out" ELSE "ingress")
              /\ acked' = acked
  /\ UNCHANGED <<store, hits, clock, throttled, sending>>

(***************************************************************************)
(* Opt-out: claim_event, then the confirmation through deliver_once        *)
(***************************************************************************)
\* Mutant: a claim that is not a compare-and-set.
ClaimEventBlind(g) ==
  /\ At(g, "opt_out")
  /\ claims' = claims \cup {request[g].event}
  /\ GoTo(g, "claimed")
  /\ UNCHANGED <<context, jobs, hits, clock, acked, throttled, sending>>

ClaimEvent(g) ==
  /\ At(g, "opt_out")
  /\ LET e == request[g].event IN
       IF e \in claims
         THEN /\ Respond(g, 200)
              /\ claims' = claims
         ELSE /\ claims' = claims \cup {e}
              /\ GoTo(g, "claimed")
              /\ acked' = acked
  /\ UNCHANGED <<context, jobs, hits, clock, throttled, sending>>

\* claim_event raised, before or after its commit took effect.
ClaimRaises(g) ==
  /\ At(g, "opt_out")
  /\ claims' \in {claims, claims \cup {request[g].event}}
  /\ Respond(g, 500)
  /\ UNCHANGED <<context, jobs, hits, clock, throttled, sending>>

StartConfirmation(g) ==
  /\ At(g, "claimed")
  /\ Send!Deliver(g, request[g].event, "text")
  /\ GoTo(g, "confirm")
  /\ UNCHANGED <<store, hits, clock, acked, throttled>>

Confirm(g) ==
  /\ At(g, "confirm")
  /\ Send!DeliveryStep(g) \/ Send!DeliveryFault(g)
  /\ UNCHANGED <<store, request, hits, clock, acked, throttled>>

\* A burned key is a 200 by design; any other exception is a 500.
EndConfirmation(g) ==
  /\ At(g, "confirm")
  /\ turn[g].at \in {"returned", "burned", "raised"}
  /\ Send!Leave(g)
  /\ Respond(g, IF turn[g].at = "raised" THEN 500 ELSE 200)
  /\ UNCHANGED <<store, hits, clock, throttled>>

(***************************************************************************)
(* A customer message: ingress match, rate limit, persist                  *)
(***************************************************************************)
\* Mutant: a transient lookup failure is acked.
IngressFailsAcked(g) ==
  /\ At(g, "ingress")
  /\ Respond(g, 200)
  /\ UNCHANGED <<store, hits, clock, throttled, sending>>

\* match_ingress_phone / match_ingress_email failed transiently (action retry),
\* or the duplicate check raised.
IngressFails(g) ==
  /\ At(g, "idempotency") \/ At(g, "ingress")
  /\ Respond(g, 500)
  /\ UNCHANGED <<store, hits, clock, throttled, sending>>

Recent(g, p) == SelectSeq(hits[g][p], LAMBDA t : clock - t < Window)

\* A snapshot was resolved.  InboundRateLimiter.check records the hit of an
\* allowed message before anything is persisted.
RateLimit(g) ==
  /\ At(g, "ingress")
  /\ LET p == Phone[request[g].event]
         recent == Recent(g, p)
     IN IF Len(recent) >= Limit
          THEN /\ hits' = [hits EXCEPT ![g][p] = recent]
               /\ throttled' = throttled \cup {request[g].event}
               /\ Respond(g, 200)
          ELSE /\ hits' = [hits EXCEPT ![g][p] = Append(recent, clock)]
               /\ GoTo(g, "persist")
               /\ UNCHANGED <<acked, throttled>>
  /\ UNCHANGED <<store, clock, sending>>

\* Mutant: the job does not depend on the context insert.
PersistRowsBlind(e) ==
  /\ context' = context \cup {e}
  /\ jobs' = [jobs EXCEPT ![e] = @ + 1]
  /\ claims' = claims

\* persist_accepted_inbound: one transaction; ON CONFLICT (event_id) DO
\* NOTHING decides whether this request created the context and its job.
PersistRows(e) ==
  /\ context' = context \cup {e}
  /\ jobs' = IF e \in context THEN jobs ELSE [jobs EXCEPT ![e] = @ + 1]
  /\ claims' = claims

Persist(g) ==
  /\ At(g, "persist")
  /\ PersistRows(request[g].event)
  /\ Respond(g, 200)
  /\ UNCHANGED <<hits, clock, throttled, sending>>

\* Mutant: a failed persist is swallowed and acked.
PersistRaisesAcked(g) ==
  /\ At(g, "persist")
  /\ PersistRows(request[g].event) \/ UNCHANGED store
  /\ Respond(g, 200)
  /\ UNCHANGED <<hits, clock, throttled, sending>>

\* The transaction raised, before or after its commit took effect.
PersistRaises(g) ==
  /\ At(g, "persist")
  /\ PersistRows(request[g].event) \/ UNCHANGED store
  /\ Respond(g, 500)
  /\ UNCHANGED <<hits, clock, throttled, sending>>

\* The process dies and is restarted: the request and the limiter are gone.
Crash(g) ==
  /\ request' = [request EXCEPT ![g] = NULL]
  /\ hits' = [hits EXCEPT ![g] = [p \in DOMAIN hits[g] |-> <<>>]]
  /\ turn' = [turn EXCEPT ![g] = Send!Idle]
  /\ UNCHANGED <<store, clock, acked, throttled, outbound, posts, delivered, mirrored>>

Tick ==
  /\ clock < MaxTime
  /\ clock' = clock + 1
  /\ UNCHANGED <<store, request, hits, acked, throttled, sending>>

Init ==
  /\ context = {}
  /\ claims = {}
  /\ jobs = [e \in Event |-> 0]
  /\ request = [g \in Process |-> NULL]
  /\ hits = [g \in Process |-> [p \in {Phone[e] : e \in Event} |-> <<>>]]
  /\ clock = 0
  /\ acked = {}
  /\ throttled = {}
  /\ Send!OutboundInit

Handle(g) ==
  \/ Dedupe(g)
  \/ ClaimEvent(g)
  \/ ClaimRaises(g)
  \/ StartConfirmation(g)
  \/ Confirm(g)
  \/ EndConfirmation(g)
  \/ IngressFails(g)
  \/ RateLimit(g)
  \/ Persist(g)
  \/ PersistRaises(g)

Next ==
  \/ \E g \in Process : \/ \E e \in Event : Receive(g, e)
                        \/ Handle(g)
                        \/ Crash(g)
  \/ Tick

Spec == Init /\ [][Next]_vars

(***************************************************************************)
(* The provider redelivers what has no 200, and no fault of the identity   *)
(* lookup, the database or the host repeats for ever.  Nothing is assumed  *)
(* of a STOP.                                                              *)
(***************************************************************************)
Serving(g, e) == request[g] # NULL /\ request[g].event = e

Fairness ==
  /\ \A g \in Process : WF_vars(Handle(g))
  /\ \A e \in {x \in Event : Kind[x] # "opt_out"} :
       /\ SF_vars(e \notin acked /\ \E g \in Process : Receive(g, e))
       /\ \A g \in Process : /\ SF_vars(Serving(g, e) /\ Dedupe(g))
                              /\ SF_vars(Serving(g, e) /\ RateLimit(g))
                              /\ SF_vars(Serving(g, e) /\ Persist(g))

LiveSpec == Spec /\ Fairness

(***************************************************************************)
(* Properties                                                              *)
(***************************************************************************)

\* Every request in progress is at a stage of the pipeline, and a process
\* holds a delivery exactly while it confirms an opt-out.
GatewayTypeOK ==
  /\ context \subseteq Event /\ claims \subseteq Event
  /\ jobs \in [Event -> Nat]
  /\ acked \subseteq Event /\ throttled \subseteq Event
  /\ request \in [Process -> Request \cup {NULL}]
  /\ \A g \in Process : turn[g].at # "idle" <=> At(g, "confirm")

\* However many processes see a delivery of the same event before any of them
\* persists it, one turn job exists for it, exactly when its context does.
OneJobPerEvent ==
  \A e \in Event : jobs[e] = IF e \in context THEN 1 ELSE 0

\* US3: a 200 is a promise kept in the database.  An acked message the limiter let
\* through is persisted with its job, and an acked opt-out is claimed.  What becomes
\* of the others is ThrottledIsPersisted's matter.
AckedIsDurable ==
  \A e \in acked : \/ e \in context /\ jobs[e] = 1
                   \/ e \in throttled
                   \/ Kind[e] = "opt_out" /\ e \in claims

\* rate_limit.py: "When a sender exceeds the limit the gateway still persists the
\* turn and returns 200, but skips async job enqueue".  Violated: the route answers
\* the 200 and writes nothing.
ThrottledIsPersisted == throttled \subseteq context

\* ADR-0016: one confirmation per STOP, however often it is redelivered and
\* whichever process gets it, and no turn for it.
OneConfirmation ==
  \A e \in Event : /\ posts[e] <= 1
                   /\ Kind[e] = "opt_out" => jobs[e] = 0

\* The compare-and-set in front of deliver_once: the process that won the
\* claim always owns the send too, so it never meets somebody else's record.
ClaimOwnsTheSend == \A g \in Process : turn[g].at \notin {"skip", "burned"}

\* A message the provider keeps redelivering gets its turn in the end, or is
\* throttled: no fault leaves it acked and forgotten, or retried for ever.
EveryMessageIsHandled ==
  \A e \in Event : Kind[e] # "opt_out" => <>(e \in context \/ e \in throttled)

=============================================================================
