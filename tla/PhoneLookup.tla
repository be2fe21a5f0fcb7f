---------------------------- MODULE PhoneLookup ----------------------------
(***************************************************************************)
(* The Shopify phone lookup of an ingress (datastore/shopify_identity.py), *)
(* made while the webhook waits for its answer: up to three searches, or,  *)
(* when the toolkit has no search, a scan of the customer list page by     *)
(* page, under one budget of twice the deadline of a single call.          *)
(***************************************************************************)
EXTENDS Naturals

CONSTANTS
  CallDeadline,  \* deadline_seconds(): what one call may take at most
  Queries,   \* _search_queries(phone): the spellings of the number
  MaxPages   \* _MAX_SCAN_PAGES

ASSUME LookupAssumption ==
  /\ CallDeadline \in Nat \ {0} /\ Queries \in Nat \ {0} /\ MaxPages \in Nat \ {0}

Budget == 2 * CallDeadline

VARIABLES
  lookup,     \* where the lookup is: phase, query or page, calls answered by the search
  elapsed,    \* time since it began
  matched     \* customers the lookup reports; more than one is ambiguous

lookupVars == <<lookup, elapsed, matched>>

LookupPhase == {"search", "scan", "done", "raised"}

\* Mutant: a call is started as long as any budget is left.
AffordableToTheLast(t) == t < Budget

\* One call's worth is kept in reserve: no call is started that could end late.
Affordable(t) == t < Budget - Budget \div 2

LookupEnds(n) ==
  /\ lookup' = [lookup EXCEPT !.phase = "done"]
  /\ matched' = n

\* Every call takes its time, and may raise a vendor error to the ingress.
VendorCall == \E d \in 1..CallDeadline : elapsed' = elapsed + d

CallRaises ==
  /\ lookup.phase \in {"search", "scan"}
  /\ Affordable(elapsed)
  /\ VendorCall
  /\ lookup' = [lookup EXCEPT !.phase = "raised"]
  /\ UNCHANGED matched

\* One query: customers found end the lookup, none goes on to the next spelling.
\* An error that reads like a missing tool leads to the scan, whichever query it
\* is: every error of the client names the action, so _is_missing_search_tool
\* also takes a vendor's "not found" after an answered query for one.
SearchByPhone ==
  /\ lookup.phase = "search"
  /\ lookup.at < Queries /\ Affordable(elapsed)
  /\ VendorCall
  /\ \/ /\ lookup' = [lookup EXCEPT !.at = @ + 1, !.answered = @ + 1]
        /\ UNCHANGED matched
     \/ \E n \in 1..2 : LookupEnds(n)
     \/ /\ lookup' = [lookup EXCEPT !.phase = "scan", !.at = 0]
        /\ UNCHANGED matched

\* Out of queries or of budget after an answered search: no match. The code's
\* other result here, None for a search that never answered, is not reachable:
\* the first query is always affordable and answers, raises or goes to the scan.
SearchOver ==
  /\ lookup.phase = "search"
  /\ lookup.at = Queries \/ ~Affordable(elapsed)
  /\ lookup.answered > 0
  /\ LookupEnds(0)
  /\ UNCHANGED elapsed

\* One page: a match, a last page, or more to come.
ScanPage ==
  /\ lookup.phase = "scan"
  /\ lookup.at < MaxPages /\ Affordable(elapsed)
  /\ VendorCall
  /\ \/ \E n \in 0..2 : LookupEnds(n)
     \/ lookup' = [lookup EXCEPT !.at = @ + 1] /\ UNCHANGED matched

ScanOver ==
  /\ lookup.phase = "scan"
  /\ lookup.at = MaxPages \/ ~Affordable(elapsed)
  /\ LookupEnds(0)
  /\ UNCHANGED elapsed

LookupInit ==
  /\ lookup = [phase |-> "search", at |-> 0, answered |-> 0]
  /\ elapsed = 0
  /\ matched = 0

LookupNext == SearchByPhone \/ SearchOver \/ ScanPage \/ ScanOver \/ CallRaises

LookupSpec == LookupInit /\ [][LookupNext]_lookupVars

(***************************************************************************)
(* Properties                                                              *)
(***************************************************************************)
\* The webhook's answer never waits longer than the budget, whatever the calls
\* take, however many queries and pages they come to and also where the scan
\* follows answered queries (_lookup_budget_s: one budget for the whole lookup,
\* and no call started that could outlive it).
AnswersInBudget == elapsed <= Budget
=============================================================================
