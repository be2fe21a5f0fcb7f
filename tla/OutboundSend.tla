---------------------------- MODULE OutboundSend ----------------------------
(***************************************************************************)
(* The outbound send record and deliver_once, the one wrap around every    *)
(* customer-facing delivery (outbound_send.py, turn_runner.py).            *)
(*                                                                         *)
(* A caller is whoever runs a delivery: a turn worker, the internal parity *)
(* route, or the webhook handler that confirms an opt-out.  The            *)
(* outbound_send table is shared; begin, record_skip and finish each       *)
(* commit by themselves, and between any two of a caller's steps it may    *)
(* die or another caller may run.  A database error may hit a statement    *)
(* before or after its commit.                                             *)
(***************************************************************************)
EXTENDS Naturals

CONSTANTS
  Caller,   \* the processes that may deliver
  Event,    \* inbound events
  Kind,     \* how an event is answered: "sms", "email" or "opt_out"
  Reply     \* what a model turn can come back with: "text", "blank"

ASSUME OutboundAssumption ==
  /\ Kind \in [Event -> {"sms", "email", "opt_out"}]
  /\ Reply \subseteq {"text", "blank"}

VARIABLES
  outbound,   \* the outbound_send table, by event_id (its unique index)
  turn,       \* each caller's delivery in progress
  posts,      \* POSTs made to the SMS provider, by event
  delivered,  \* events whose message the provider really took
  mirrored    \* events with an outbound message_turn row

sendVars == <<outbound, turn, posts, delivered, mirrored>>

Record == [status: {"none", "intent", "sent", "failed"}, error: BOOLEAN,
           skipped: BOOLEAN]

NoRecord == [status |-> "none", error |-> FALSE, skipped |-> FALSE]

\* "mirror_missing" is finish(status="sent", error=...).
Result == {"sent", "mirror_missing", "failed"}

Turn == [at: {"begin", "skip", "post", "mirror", "finish", "returned",
              "raised", "burned"},
         event: Event, reply: Reply \cup {"text"}, result: Result]

Idle == [at |-> "idle"]

\* The caller's next step; what it works on stays.
GoTo(c, at) ==
  turn' = [turn EXCEPT ![c] = [at |-> at, event |-> turn[c].event,
                               reply |-> turn[c].reply, result |-> turn[c].result]]

\* deliver() is over and finish will record how.
ToFinish(c, result) ==
  turn' = [turn EXCEPT ![c] = [at |-> "finish", event |-> turn[c].event,
                               reply |-> turn[c].reply, result |-> result]]

\* The row begin inserts; status defaults to intent (migration 0012).
Begun == [status |-> "intent", error |-> FALSE, skipped |-> FALSE]

Skipped(row) == [status |-> row.status, error |-> row.error, skipped |-> TRUE]

\* Mutants: finish that calls every ending sent, or writes a status of its own.
FinishedAlwaysSent(row, result) ==
  [status |-> "sent", error |-> result # "sent", skipped |-> row.skipped]

Finished(row, result) ==
  [status |-> IF result = "failed" THEN "failed" ELSE "sent",
   error |-> result # "sent", skipped |-> row.skipped]

\* Mutant: a failed send may be begun again.
VacantOrFailed(row) == row.status \in {"none", "failed"}

\* ON CONFLICT (event_id) DO NOTHING: the event has no record yet.
Vacant(row) == row.status = "none"

Burned(row) == row.status = "failed" \/ row.error

(***************************************************************************)
(* deliver_once                                                            *)
(***************************************************************************)
Deliver(c, e, reply) ==
  /\ turn[c].at = "idle"
  /\ turn' = [turn EXCEPT ![c] =
                [at |-> "begin", event |-> e, reply |-> reply, result |-> "sent"]]
  /\ UNCHANGED <<outbound, posts, delivered, mirrored>>

\* What comes before the wrap raised: the caller has nothing to deliver.
NeverDeliver(c, e) ==
  /\ turn[c].at = "idle"
  /\ turn' = [turn EXCEPT ![c] =
                [at |-> "raised", event |-> e, reply |-> "text", result |-> "sent"]]
  /\ UNCHANGED <<outbound, posts, delivered, mirrored>>

\* Mutant: the intent is not committed before the delivery.
BeginUncommitted(c) ==
  /\ turn[c].at = "begin"
  /\ GoTo(c, IF Kind[turn[c].event] = "email" THEN "mirror" ELSE "post")
  /\ UNCHANGED <<outbound, posts, delivered, mirrored>>

\* begin inserts the intent row, unless the event has one.
Begin(c) ==
  LET e == turn[c].event IN
  /\ turn[c].at = "begin"
  /\ IF Vacant(outbound[e])
       THEN /\ outbound' = [outbound EXCEPT ![e] = Begun]
            /\ GoTo(c, IF Kind[e] = "email" THEN "mirror" ELSE "post")
       ELSE /\ outbound' = outbound
            /\ GoTo(c, "skip")
  /\ UNCHANGED <<posts, delivered, mirrored>>

\* record_skip, then a quiet return or OutboundSendBurned (at = burned; any
\* other exception leaves the caller at raised).
Skip(c) ==
  LET e == turn[c].event IN
  /\ turn[c].at = "skip"
  /\ outbound' = [outbound EXCEPT ![e] = Skipped(outbound[e])]
  /\ GoTo(c, IF Burned(outbound[e]) THEN "burned" ELSE "returned")
  /\ UNCHANGED <<posts, delivered, mirrored>>

\* reply_sender: a 2xx answer.  The opt-out confirmation has no mirror.
PostAccepted(c) ==
  LET e == turn[c].event IN
  /\ turn[c].at = "post"
  /\ posts' = [posts EXCEPT ![e] = posts[e] + 1]
  /\ delivered' = delivered \cup {e}
  /\ IF Kind[e] = "opt_out" THEN ToFinish(c, "sent") ELSE GoTo(c, "mirror")
  /\ UNCHANGED <<outbound, mirrored>>

\* A non-2xx answer raises, and so does any URLError or OSError: a refused
\* connection, or a socket timeout after which the provider may have sent.
PostRaises(c, taken) ==
  LET e == turn[c].event IN
  /\ turn[c].at = "post"
  /\ posts' = [posts EXCEPT ![e] = posts[e] + 1]
  /\ delivered' = IF taken THEN delivered \cup {e} ELSE delivered
  /\ ToFinish(c, "failed")
  /\ UNCHANGED <<outbound, mirrored>>

\* on_reply_sent is persist_agent_outbound: a blank reply writes nothing.
Mirror(c) ==
  LET e == turn[c].event IN
  /\ turn[c].at = "mirror"
  /\ mirrored' = IF turn[c].reply = "blank" THEN mirrored ELSE mirrored \cup {e}
  /\ ToFinish(c, "sent")
  /\ UNCHANGED <<outbound, posts, delivered>>

\* On email the mirror is the delivery; on SMS the customer has the message.
MirrorRaises(c, committed) ==
  LET e == turn[c].event IN
  /\ turn[c].at = "mirror"
  /\ turn[c].reply # "blank"
  /\ mirrored' = IF committed THEN mirrored \cup {e} ELSE mirrored
  /\ ToFinish(c, IF Kind[e] = "email" THEN "failed" ELSE "mirror_missing")
  /\ UNCHANGED <<outbound, posts, delivered>>

Finish(c) ==
  LET e == turn[c].event IN
  /\ turn[c].at = "finish"
  /\ outbound' = [outbound EXCEPT ![e] = Finished(outbound[e], turn[c].result)]
  /\ GoTo(c, IF turn[c].result = "sent" THEN "returned" ELSE "raised")
  /\ UNCHANGED <<posts, delivered, mirrored>>

\* begin, record_skip or finish raises; its commit may have gone through.
RecordRaises(c, committed) ==
  LET e == turn[c].event IN
  /\ \/ /\ turn[c].at = "begin"
        /\ Vacant(outbound[e]) /\ committed
        /\ outbound' = [outbound EXCEPT ![e] = Begun]
     \/ /\ turn[c].at = "skip" /\ committed
        /\ outbound' = [outbound EXCEPT ![e] = Skipped(outbound[e])]
     \/ /\ turn[c].at = "finish" /\ committed
        /\ outbound' = [outbound EXCEPT ![e] = Finished(outbound[e], turn[c].result)]
     \/ /\ turn[c].at \in {"begin", "skip", "finish"} /\ ~committed
        /\ outbound' = outbound
  /\ GoTo(c, "raised")
  /\ UNCHANGED <<posts, delivered, mirrored>>

\* The caller reports, or dies at any point: nothing of its turn survives.
Leave(c) ==
  /\ turn[c].at # "idle"
  /\ turn' = [turn EXCEPT ![c] = Idle]
  /\ UNCHANGED <<outbound, posts, delivered, mirrored>>

DeliveryStep(c) ==
  \/ Begin(c)
  \/ Skip(c)
  \/ PostAccepted(c)
  \/ Mirror(c)
  \/ Finish(c)

DeliveryFault(c) ==
  \E b \in BOOLEAN : PostRaises(c, b) \/ MirrorRaises(c, b) \/ RecordRaises(c, b)

OutboundInit ==
  /\ outbound = [e \in Event |-> NoRecord]
  /\ turn = [c \in Caller |-> Idle]
  /\ posts = [e \in Event |-> 0]
  /\ delivered = {}
  /\ mirrored = {}

\* Callers that may deliver anything at any time, over and over.
OutboundNext ==
  \E c \in Caller :
    \/ \E e \in Event, reply \in Reply : Deliver(c, e, reply)
    \/ \E e \in Event : NeverDeliver(c, e)
    \/ DeliveryStep(c)
    \/ DeliveryFault(c)
    \/ Leave(c)

OutboundSpec == OutboundInit /\ [][OutboundNext]_sendVars

(***************************************************************************)
(* _list_dead_letters shows an outbound row in one of _bucket's buckets; an *)
(* intent row once it has been still for _STALE_INTENT_SECONDS.            *)
(***************************************************************************)
OperatorSees(row) ==
  \/ row.status = "failed"
  \/ row.status = "sent" /\ row.error
  \/ row.status = "intent"

\* The customer can read the reply: by SMS, or in the mirror on email.
Answered(e) == IF Kind[e] = "email" THEN e \in mirrored ELSE e \in delivered

(***************************************************************************)
(* Properties                                                              *)
(***************************************************************************)

\* Every record and every delivery in progress has its type.
OutboundTypeOK ==
  /\ outbound \in [Event -> Record]
  /\ turn \in [Caller -> Turn \cup {Idle}]
  /\ posts \in [Event -> Nat]
  /\ delivered \subseteq Event
  /\ mirrored \subseteq Event

\* FR-12, at-most-once toward the customer: whatever crashes, retries,
\* replays and redeliveries, the provider is asked once per inbound event.
AtMostOncePerEvent == \A e \in Event : posts[e] <= 1

\* The record never overstates: a row is closed as sent only if the customer
\* has the message, and without an error only if the Workbench mirror is there
\* too (a confirmation never gets one; stated for replies that are not blank).
SentIsTrue ==
  \A e \in Event :
    outbound[e].status = "sent" =>
      /\ Kind[e] # "email" => e \in delivered
      /\ ~outbound[e].error /\ Kind[e] # "opt_out" => e \in mirrored

\* Write-ahead: the customer or the Workbench sees nothing that a committed
\* intent row did not announce first (the docstring of OutboundSendLog).
AnnouncedFirst ==
  \A e \in Event :
    posts'[e] # posts[e] \/ (e \in mirrored' \ mirrored) =>
      outbound[e].status = "intent" /\ outbound'[e] = outbound[e]

WriteAhead == [][AnnouncedFirst]_sendVars

\* A closed record is final: a retry or a replay only counts its skip and
\* never turns a spent key into another outcome.
KeptClosed ==
  \A e \in Event :
    outbound[e].status \in {"sent", "failed"} =>
      /\ outbound'[e].status = outbound[e].status
      /\ outbound'[e].error = outbound[e].error
      /\ outbound[e].skipped => outbound'[e].skipped

ClosedStaysClosed == [][KeptClosed]_sendVars

=============================================================================
