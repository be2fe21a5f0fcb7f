--------------------------- MODULE CustomerMemory ---------------------------
(***************************************************************************)
(* Customer Memory: the preference slots a turn writes, the merge of a     *)
(* caller's provisional slots onto the verified customer, corrections and  *)
(* clears, and the retention sweep (openrouter.py, handlers/memory.py,     *)
(* handlers/identity.py, handlers/retention.py and                         *)
(* PostgresGatewayStore.merge_provisional_memory).                         *)
(*                                                                         *)
(* A row is keyed by a binding: a verified customer, or the provisional    *)
(* key of a channel identity.  The identity of a turn is a snapshot of the *)
(* ingress; links made later do not change it.  Transactions run at READ   *)
(* COMMITTED: a merge locks the rows its SELECT ... FOR UPDATE returns and *)
(* writes later, and a row inserted meanwhile is visible to its DELETE.    *)
(***************************************************************************)
EXTENDS Naturals, Sequences, FiniteSets, FiniteSetsExt

CONSTANTS
  Channels,           \* the channel identities are 1..Channels, in key order
  Customer, Slot, Turn,
  VerifiedWindow,     \* VERIFIED_RETENTION_DAYS
  ProvisionalWindow,  \* PROVISIONAL_RETENTION_DAYS
  MaxStated,          \* bound on preference writes
  MaxClears,          \* bound on clear_preference calls
  MaxSweeps           \* bound on retention sweeps

Channel == 1..Channels
Key == Channel \cup Customer

ASSUME MemoryAssumption ==
  /\ Channels \in Nat /\ MaxStated \in Nat /\ MaxClears \in Nat /\ MaxSweeps \in Nat
  /\ (Channel \cup {0}) \cap Customer = {}
  /\ ProvisionalWindow \in Nat /\ VerifiedWindow \in Nat

VARIABLES
  slots,       \* customer_memory_slot, by binding key and slot
  links,       \* identity_link rows: <<channel identity, customer>>
  turn,        \* the turns in progress
  mergeAudit,  \* customer_memory_merge_audit
  memoryLog,   \* what the audit log and the metric table add up to
  fate         \* history: what became of every value stated so far

memoryVars == <<slots, links, turn, mergeAudit, memoryLog, fate>>

\* internal: employee_confirmed with an actor, copilot_agent without.
Source == {"customer_explicit", "internal", "merged_provisional"}

\* A value is the number of its statement; days counts from last_interaction_at.
Row == [value: 1..MaxStated, source: Source, days: 0..VerifiedWindow + 1]

NoRow == [value |-> 0]

Present(k) == {s \in Slot : slots[k][s] # NoRow}

Fate == {"kept", "replaced", "cleared", "self_cleared", "swept", "overridden"}

Stated == DOMAIN fate

(***************************************************************************)
(* Identity                                                                *)
(***************************************************************************)
CustomersOf(c) == {u \in Customer : <<c, u>> \in links}

ChannelsOf(u) == {c \in Channel : <<c, u>> \in links}

is_verified(t) == t.customer \in Customer

\* binding_key_from_identity: a verified snapshot binds to the customer, any
\* other one to the channel.
binding_key(t) == IF is_verified(t) THEN t.customer ELSE t.channel

Idle == [at |-> "idle"]

\* link_identity, and the upsert of an ingress that found one customer in
\* Shopify for a channel without links.
link_identity(c, u) ==
  /\ links' = links \cup {<<c, u>>}
  /\ UNCHANGED <<slots, turn, mergeAudit, memoryLog, fate>>

Matched(c) == Cardinality(CustomersOf(c)) = 1

\* match_phone, match_email_sender: exactly one linked customer is verified,
\* none and several are not.
match(i, c) ==
  /\ turn[i].at = "idle"
  /\ \E u \in IF Matched(c) THEN CustomersOf(c) ELSE {0} :
       turn' = [turn EXCEPT ![i] = [at |-> "queued", channel |-> c, customer |-> u]]
  /\ UNCHANGED <<slots, links, mergeAudit, memoryLog, fate>>

(***************************************************************************)
(* The merge                                                               *)
(***************************************************************************)
\* _linked_provisional_keys: the turn's own channel and the other channels
\* linked to the customer.
linked_provisional_keys(t) == {t.channel} \cup ChannelsOf(t.customer)

\* Mutant: by key alone.
provisional_key_in_order(t) == Min(t.todo)

\* The order they are merged in: the own channel first, the others by key.
provisional_key(t) == IF t.channel \in t.todo THEN t.channel ELSE Min(t.todo)

NothingRead == [s \in Slot |-> NoRow]

\* run_turn: a verified turn merges first, any other goes on to its reply.
StartTurn(i) ==
  /\ turn[i].at = "queued"
  /\ turn' = [turn EXCEPT ![i] =
       [at |-> IF is_verified(@) THEN "merge" ELSE "run",
        channel |-> @.channel, customer |-> @.customer,
        todo |-> IF is_verified(@) THEN linked_provisional_keys(@) ELSE {},
        read |-> NothingRead, took |-> {}]]
  /\ UNCHANGED <<slots, links, mergeAudit, memoryLog, fate>>

HoldsLock(i, k, s) ==
  /\ turn[i].at = "locked"
  /\ provisional_key(turn[i]) = k
  /\ turn[i].read[s] # NoRow

\* Mutant: a plain SELECT.
LockedNever(k, s) == FALSE

\* Some merge holds the row.
Locked(k, s) == \E i \in Turn : HoldsLock(i, k, s)

\* The next key, once this one is merged, empty or has failed.
NextKey(t) ==
  [t EXCEPT !.at = "merge", !.todo = @ \ {provisional_key(t)}, !.read = NothingRead]

\* SELECT ... FOR UPDATE: waits for a merge that holds one of the rows. A row the
\* waiting statement had found is read again once it is free, and is gone when
\* the merge deleted it; one inserted while it waited is read here as well, which
\* the statement would leave to its DELETE.
LockRows(i) ==
  /\ turn[i].at = "merge" /\ turn[i].todo # {}
  /\ LET k == provisional_key(turn[i]) IN
       /\ \A s \in Slot : ~Locked(k, s)
       /\ turn' = IF Present(k) = {}
                    THEN [turn EXCEPT ![i] = NextKey(@)]
                    ELSE [turn EXCEPT ![i].at = "locked", ![i].read = slots[k]]
  /\ UNCHANGED <<slots, links, mergeAudit, memoryLog, fate>>

\* INSERT ... ON CONFLICT DO NOTHING inserts: the verified value wins.
Takes(u, s, row) == slots[u][s] = NoRow

\* INSERT the rows read, DELETE every row of the provisional key, audit, commit.
MergeRows(i) ==
  /\ turn[i].at = "locked"
  /\ LET t == turn[i]
         k == provisional_key(t)
         u == t.customer
         from == {s \in Slot : t.read[s] # NoRow}
         moved == {s \in from : Takes(u, s, t.read[s])}
     IN
     /\ slots' = [slots EXCEPT
          ![k] = NothingRead,
          ![u] = [s \in Slot |->
                    IF s \in moved
                      THEN [value |-> t.read[s].value, source |-> "merged_provisional",
                            days |-> 0]
                      ELSE slots[u][s]]]
     /\ mergeAudit' = Append(mergeAudit,
          [from |-> k, to |-> u, moved |-> {t.read[s].value : s \in moved},
           overridden |-> {t.read[s].value : s \in from \ moved}])
     /\ fate' = [v \in Stated |-> IF \E s \in from \ moved : t.read[s].value = v
                                    THEN "overridden" ELSE fate[v]]
     /\ turn' = [turn EXCEPT ![i] =
          [NextKey(t) EXCEPT !.took = t.took \cup {t.read[s].value : s \in moved}]]
  /\ UNCHANGED <<links, memoryLog>>

\* A merge that raises is rolled back and swallowed; the next key is tried.
MergeFails(i) ==
  /\ turn[i].at \in {"merge", "locked"} /\ turn[i].todo # {}
  /\ turn' = [turn EXCEPT ![i] = NextKey(@)]
  /\ UNCHANGED <<slots, links, mergeAudit, memoryLog, fate>>

\* Memory is read for the prompt, and the model's tool loop begins.
LoadMemory(i) ==
  /\ turn[i].at = "merge" /\ turn[i].todo = {}
  /\ turn' = [turn EXCEPT ![i].at = "run"]
  /\ UNCHANGED <<slots, links, mergeAudit, memoryLog, fate>>

EndTurn(i) ==
  /\ turn[i].at = "run"
  /\ turn' = [turn EXCEPT ![i] = Idle]
  /\ UNCHANGED <<slots, links, mergeAudit, memoryLog, fate>>

(***************************************************************************)
(* Writes and clears                                                       *)
(***************************************************************************)
\* INSERT ... ON CONFLICT DO UPDATE; waits for a merge that holds the row.
WriteSlot(k, s, source) ==
  /\ ~Locked(k, s)
  /\ Cardinality(Stated) < MaxStated
  /\ LET new == Cardinality(Stated) + 1 IN
       /\ slots' = [slots EXCEPT ![k][s] = [value |-> new, source |-> source, days |-> 0]]
       /\ fate' = [v \in Stated \cup {new} |->
                     IF v = new THEN "kept"
                     ELSE IF v = slots[k][s].value THEN "replaced" ELSE fate[v]]
  /\ UNCHANGED <<links, turn, mergeAudit, memoryLog>>

\* resolve_memory_write_source: the external profile speaks for the customer.
upsert_preference(i, s) ==
  /\ turn[i].at = "run"
  /\ WriteSlot(binding_key(turn[i]), s, "customer_explicit")

\* The internal profile, on the binding of a case.
correct_preference(k, s) == WriteSlot(k, s, "internal")

\* The row count of the DELETE decides whether the clear is counted.
Counted(k, s) == IF slots[k][s] = NoRow THEN 0 ELSE 1

ClearSlot(k, s, what) ==
  /\ ~Locked(k, s)
  /\ memoryLog.clears < MaxClears
  /\ slots' = [slots EXCEPT ![k][s] = NoRow]
  /\ fate' = [v \in Stated |-> IF v = slots[k][s].value THEN what ELSE fate[v]]
  /\ memoryLog' = [memoryLog EXCEPT
       !.clears = @ + 1,
       !.self_service = IF what = "self_cleared" THEN @ + Counted(k, s) ELSE @]
  /\ UNCHANGED <<links, turn, mergeAudit>>

\* resolve_clear_authorization: a verified customer clears their own binding,
\* an employee any.  A redelivered turn clears again.
clear_preference(i, s) ==
  /\ turn[i].at = "run" /\ is_verified(turn[i])
  /\ ClearSlot(binding_key(turn[i]), s, "self_cleared")

clear_preference_by_rep(k, s) == ClearSlot(k, s, "cleared")

(***************************************************************************)
(* Retention                                                               *)
(***************************************************************************)
Window(k) == IF k \in Customer THEN VerifiedWindow ELSE ProvisionalWindow

\* last_interaction_at < threshold
Aged(k, s) == slots[k][s] # NoRow /\ slots[k][s].days > Window(k)

\* One DELETE, and the audit row with its counts.  Run by the schedule, the
\* button or the command line, and again when the lease of the job was lost.
trigger_retention_sweep ==
  LET aged == {p \in Key \X Slot : Aged(p[1], p[2])} IN
  /\ memoryLog.sweeps < MaxSweeps
  /\ \A p \in aged : ~Locked(p[1], p[2])
  /\ slots' = [k \in Key |-> [s \in Slot |-> IF <<k, s>> \in aged THEN NoRow ELSE slots[k][s]]]
  /\ fate' = [v \in Stated |-> IF \E p \in aged : slots[p[1]][p[2]].value = v
                                 THEN "swept" ELSE fate[v]]
  /\ memoryLog' = [memoryLog EXCEPT !.sweeps = @ + 1, !.deleted = @ + Cardinality(aged)]
  /\ UNCHANGED <<links, turn, mergeAudit>>

\* Days pass; only a write sets last_interaction_at again.
DayPasses ==
  /\ slots' = [k \in Key |-> [s \in Slot |->
                 IF slots[k][s] = NoRow \/ slots[k][s].days > VerifiedWindow
                   THEN slots[k][s] ELSE [slots[k][s] EXCEPT !.days = @ + 1]]]
  /\ slots' # slots
  /\ UNCHANGED <<links, turn, mergeAudit, memoryLog, fate>>

MemoryInit ==
  /\ slots = [k \in Key |-> [s \in Slot |-> NoRow]]
  /\ links = {}
  /\ turn = [i \in Turn |-> Idle]
  /\ mergeAudit = <<>>
  /\ memoryLog = [clears |-> 0, self_service |-> 0, sweeps |-> 0, deleted |-> 0]
  /\ fate = <<>>

MergeStep(i) ==
  LockRows(i) \/ MergeRows(i) \/ MergeFails(i) \/ LoadMemory(i)

TurnStep(i) ==
  \/ \E c \in Channel : match(i, c)
  \/ StartTurn(i)
  \/ MergeStep(i)
  \/ \E s \in Slot : upsert_preference(i, s) \/ clear_preference(i, s)
  \/ EndTurn(i)

EmployeeStep ==
  \E k \in Key, s \in Slot : correct_preference(k, s) \/ clear_preference_by_rep(k, s)

MemoryNext ==
  \/ \E i \in Turn : TurnStep(i)
  \/ \E c \in Channel, u \in Customer : link_identity(c, u)
  \/ EmployeeStep
  \/ trigger_retention_sweep
  \/ DayPasses

MemorySpec == MemoryInit /\ [][MemoryNext]_memoryVars

(***************************************************************************)
(* Properties                                                              *)
(***************************************************************************)
\* Rows, snapshots and history have values of their types, and a turn that takes
\* itself for verified has a customer its channel is linked to.
MemoryTypeOK ==
  /\ slots \in [Key -> [Slot -> Row \cup {NoRow}]]
  /\ links \subseteq Channel \X Customer
  /\ Stated \subseteq 1..MaxStated /\ \A v \in Stated : fate[v] \in Fate
  /\ \A i \in Turn :
       /\ turn[i].at \in {"idle", "queued", "merge", "locked", "run"}
       /\ turn[i].at # "idle" /\ is_verified(turn[i]) =>
            <<turn[i].channel, turn[i].customer>> \in links

Rows == {p \in Key \X Slot : slots[p[1]][p[2]] # NoRow}

\* Merges of one channel by two turns serialize on its rows: a value is held by
\* one row, is named by one merge audit row at most, reaches only a customer its
\* channel is linked to, and is overridden exactly when an audit row says so
\* (merge_provisional_memory: no double-apply, one audit row per transition).
MergedOnce ==
  /\ \A p, q \in Rows : slots[p[1]][p[2]].value = slots[q[1]][q[2]].value => p = q
  /\ \A v \in Stated :
       LET named == {n \in DOMAIN mergeAudit :
                       v \in mergeAudit[n].moved \cup mergeAudit[n].overridden} IN
       /\ Cardinality(named) <= 1
       /\ fate[v] = "overridden" <=> \E n \in named : v \in mergeAudit[n].overridden
  /\ \A p \in Rows : slots[p[1]][p[2]].source = "merged_provisional" =>
       \E n \in DOMAIN mergeAudit : /\ slots[p[1]][p[2]].value \in mergeAudit[n].moved
                                    /\ mergeAudit[n].to = p[1]
  /\ \A n \in DOMAIN mergeAudit : <<mergeAudit[n].from, mergeAudit[n].to>> \in links

\* The audit log and the metric add up to what happened: a redelivered clear is
\* counted once, a sweep that is run again counts nothing twice, and a removal by
\* either is on record (clear_preference, trigger_retention_sweep).
RemovalsAreOnRecord ==
  LET Count(what) == Cardinality({v \in Stated : fate[v] = what}) IN
  /\ memoryLog.self_service = Count("self_cleared")
  /\ memoryLog.deleted = Count("swept")
  /\ Count("cleared") + Count("self_cleared") <= memoryLog.clears

\* Every removal and every merge of a value is on record exactly once, and only a
\* snapshot that matched one customer merges (handlers/memory.py,
\* handlers/retention.py, merge_provisional_memory).
MemoryAddsUp == MemoryTypeOK /\ MergedOnce /\ RemovalsAreOnRecord

\* What was just said on the channel of the turn is not lost to another channel
\* the same turn merges: a value of the own channel is overridden only by one that
\* somebody else put into the customer's slot, before the turn or beside it,
\* whatever other keys failed (_linked_provisional_keys: "THIS turn's own channel
\* first (the freshest, just-stated signal)").
OwnChannelFirst ==
  [][\A i \in Turn, s \in Slot :
       LET t == turn[i] IN
       t.at = "locked" /\ turn'[i] # t /\ t.read[s] # NoRow /\ Len(mergeAudit') > Len(mergeAudit) =>
         LET audited == mergeAudit'[Len(mergeAudit')] IN
         audited.from = t.channel /\ t.read[s].value \in audited.overridden =>
           slots[t.customer][s].value \notin t.took]_memoryVars
\* Every value stated is in memory, or was replaced, cleared, swept or overridden
\* on record: a merge moves each provisional slot or records it as overridden.
NothingStatedIsLost ==
  \A v \in Stated :
    fate[v] = "kept" => \E p \in Rows : slots[p[1]][p[2]].value = v
=============================================================================
