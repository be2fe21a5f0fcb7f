-------------------------- MODULE IntegrationProbe --------------------------
(***************************************************************************)
(* Integration health (integration_probe.py, handlers/integrations.py).    *)
(* A scheduled cycle probes every integration in turn, each check in a     *)
(* thread of its own under a deadline, and records all results in one      *)
(* transaction; an admin re-probes one integration, or asks for a re-auth  *)
(* link, and leaves an audit row in the same unit of work.                 *)
(***************************************************************************)
EXTENDS Naturals, Sequences, FiniteSets

CONSTANTS
  Integrations,  \* PROBES: integration 1..Integrations, in their order
  Toolkits,      \* the first of them are Composio toolkits, with OAuth
  Cycle,         \* runs of the integration_probe job
  AdminCall,     \* re-probe and reconnect calls of admins
  Retention,     \* PROBE_RETENTION_DAYS
  MaxDay

ASSUME ProbeAssumption ==
  /\ Integrations \in Nat \ {0} /\ Toolkits \in 1..Integrations
  /\ Retention \in Nat \ {0} /\ MaxDay \in Nat
  /\ Cycle \cap AdminCall = {}

Key == 1..Integrations
Prober == Cycle \union AdminCall
Status == {"ok", "failed", "not_configured"}
NoKey == 0

VARIABLES
  day,          \* now() of the database
  configured,   \* the integrations whose credentials the environment has
  prober,       \* what a cycle or a call is doing
  probeRows,    \* integration_probe
  probeLog,     \* audit rows: which call did what
  links,        \* calls that were handed a re-auth link
  told          \* <<prober, key>>: the vendor answered this check in time

probeVars == <<day, configured, prober, probeRows, probeLog, links, told>>

\* check: the future of the thread that makes the authenticated read.
Idle == [state |-> "idle", key |-> NoKey, check |-> "none", results |-> <<>>]

Goto(p, state) == prober' = [prober EXCEPT ![p].state = state]

\* _run_one: a check is submitted only where there is a credential.
Submitted(k) == IF k \in configured THEN "pending" ELSE "none"

\* The first check of a cycle or a call, with no result in hand.
FirstCheck(k) ==
  [state |-> "probing", key |-> k, check |-> Submitted(k), results |-> <<>>]

\* run_probes starts at the first integration.
StartCycle(p) ==
  /\ prober[p].state = "idle"
  /\ prober' = [prober EXCEPT ![p] = FirstCheck(1)]
  /\ UNCHANGED <<day, configured, probeRows, probeLog, links, told>>

\* probe_one, behind the actor and the key: without an actor, or for a key that
\* is none of PROBES, the call ends before it probes.
StartReprobe(p) ==
  /\ prober[p].state = "idle"
  /\ \/ \E k \in Key : prober' = [prober EXCEPT ![p] = FirstCheck(k)]
     \/ Goto(p, "refused")
  /\ UNCHANGED <<day, configured, probeRows, probeLog, links, told>>

\* The thread's read returns, or raises. An answer after the deadline finds
\* nobody waiting.
VendorAnswers(p) ==
  /\ prober[p].state = "probing" /\ prober[p].check = "pending"
  /\ \/ /\ prober' = [prober EXCEPT ![p].check = "returned"]
        /\ told' = told \union {<<p, prober[p].key>>}
     \/ /\ prober' = [prober EXCEPT ![p].check = "raised"]
        /\ UNCHANGED told
  /\ UNCHANGED <<day, configured, probeRows, probeLog, links>>

\* Mutant: only a fault that was raised is a failed probe.
VerdictUnlessRaised(check) ==
  CASE check = "none"   -> "not_configured"
    [] check = "raised" -> "failed"
    [] OTHER            -> "ok"

\* future.result(timeout): a check still pending has outlived the deadline.
Verdict(check) ==
  CASE check = "none"     -> "not_configured"
    [] check = "returned" -> "ok"
    [] OTHER              -> "failed"

\* run_probes never raises: a fault is a result, and the next probe follows.
CycleGoesOn(p) == prober[p].key < Integrations

EndCheck(p) ==
  /\ prober[p].state = "probing"
  /\ LET verdict == Verdict(prober[p].check)
         results == Append(prober[p].results, [key |-> prober[p].key, status |-> verdict])
         next    == prober[p].key + 1
     IN prober' = [prober EXCEPT
          ![p] = IF p \in Cycle /\ CycleGoesOn(p)
                 THEN [state |-> "probing", key |-> next, check |-> Submitted(next),
                       results |-> results]
                 ELSE [state |-> "writing", key |-> @.key, check |-> "none",
                       results |-> results]]
  /\ UNCHANGED <<day, configured, probeRows, probeLog, links, told>>

\* _write_probe_results: the rows of one prober go in, and what is older than
\* the retention goes out, in one transaction. checked_at is the time of the
\* write, not of the check.
Written(p) ==
  {r \in probeRows : r.at + Retention >= day}
    \union {[key |-> prober[p].results[i].key, status |-> prober[p].results[i].status,
             at |-> day, by |-> p] : i \in DOMAIN prober[p].results}

RecordCycle(p) ==
  /\ prober[p].state = "writing"
  /\ probeRows' = Written(p)
  /\ Goto(p, "done")
  /\ UNCHANGED <<day, configured, probeLog, links, told>>

\* record_probe_results raises what the database raises: the job fails, and its
\* retry probes afresh.
RecordRaises(p) ==
  /\ prober[p].state = "writing"
  /\ prober' = [prober EXCEPT ![p] = Idle]
  /\ UNCHANGED <<day, configured, probeRows, probeLog, links, told>>

\* _reprobe_now: the row and its audit row, in the driver's unit of work.
RecordReprobe(p) ==
  /\ prober[p].state = "writing"
  /\ probeRows' = Written(p)
  /\ probeLog' = [probeLog EXCEPT ![p] = "reprobed"]
  /\ Goto(p, "done")
  /\ UNCHANGED <<day, configured, links, told>>

\* An error of the database on either row undoes both.
ReprobeRaises(p) ==
  /\ prober[p].state = "writing"
  /\ Goto(p, "refused")
  /\ UNCHANGED <<day, configured, probeRows, probeLog, links, told>>

\* initiate_composio_reconnect refuses or raises, and no audit row is written.
LinkRefused(p) ==
  /\ Goto(p, "refused")
  /\ UNCHANGED <<probeLog, links>>

\* _initiate_reconnect: an actor, a toolkit and a callback, then the live call,
\* then the audit row.
InitiateReconnect(p) ==
  /\ prober[p].state = "idle"
  /\ \E k \in Key :
       \/ /\ k <= Toolkits /\ k \in configured
          /\ links' = links \union {p}
          /\ probeLog' = [probeLog EXCEPT ![p] = "reconnected"]
          /\ Goto(p, "done")
       \/ LinkRefused(p)
  /\ UNCHANGED <<day, configured, probeRows, told>>

\* The credentials come from the environment, which a redeployment changes.
Redeploy ==
  /\ \E s \in SUBSET Key : configured' = s
  /\ \A p \in Prober : prober[p].state # "probing"
  /\ UNCHANGED <<day, prober, probeRows, probeLog, links, told>>

NextDay ==
  /\ day < MaxDay
  /\ day' = day + 1
  /\ UNCHANGED <<configured, prober, probeRows, probeLog, links, told>>

ProbeInit ==
  /\ day = 0
  /\ configured \in SUBSET Key
  /\ prober = [p \in Prober |-> Idle]
  /\ probeRows = {}
  /\ probeLog = [p \in AdminCall |-> "none"]
  /\ links = {}
  /\ told = {}

CycleStep(p) == StartCycle(p) \/ RecordCycle(p) \/ RecordRaises(p)
AdminStep(p) ==
  StartReprobe(p) \/ RecordReprobe(p) \/ ReprobeRaises(p) \/ InitiateReconnect(p)

ProbeNext ==
  \/ \E p \in Cycle : CycleStep(p)
  \/ \E p \in AdminCall : AdminStep(p)
  \/ \E p \in Prober : VendorAnswers(p) \/ EndCheck(p)
  \/ Redeploy \/ NextDay

ProbeSpec == ProbeInit /\ [][ProbeNext]_probeVars

(***************************************************************************)
(* Properties                                                              *)
(***************************************************************************)
\* _latest_probes: the rows the status page may show as an integration's badge.
Badge(k) ==
  {r \in probeRows : r.key = k /\ \A s \in probeRows : s.key = k => s.at <= r.at}

\* A green badge is never fabricated: the vendor answered that very check before
\* its deadline, whatever the other checks of the cycle did (_run_one, "Only a
\* clean return is ok").
GreenWasAnswered ==
  \A k \in Key : \A r \in Badge(k) : r.status = "ok" => <<r.by, k>> \in told

\* The page never shows a cycle in part: while its rows are within the retention,
\* a finished cycle has one for each integration, through faults of single probes,
\* failed writes, and the pruning done by others (run_probes, record_probe_results).
CyclesAreWhole ==
  \A p \in Cycle : prober[p].state = "done" /\ (\E r \in probeRows : r.by = p) =>
    \A k \in Key : Cardinality({r \in probeRows : r.by = p /\ r.key = k}) = 1

\* The audit log and what an admin's call did agree: a re-probe's row is never
\* there without its audit row, and a link is on record exactly if it was issued
\* (_reprobe_now, _initiate_reconnect: one transaction around the handler).
AdminProbesAreOnRecord ==
  \A p \in AdminCall :
    /\ (\E r \in probeRows : r.by = p) => probeLog[p] = "reprobed"
    /\ (p \in links) <=> (probeLog[p] = "reconnected")

\* What the status page and the audit log say of the integrations happened, as a
\* whole, while cycles, re-probes, faults, timeouts and lost writes interleave
\* (integration_probe.py, handlers/integrations.py).
ProbesAreHonest == GreenWasAnswered /\ CyclesAreWhole /\ AdminProbesAreOnRecord
=============================================================================
