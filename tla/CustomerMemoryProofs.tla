------------------------ MODULE CustomerMemoryProofs ------------------------
(***************************************************************************)
(* Proofs about Customer Memory: every removal and every merge of a value  *)
(* is on record once, and a turn never overrides what was said on its own  *)
(* channel with what it merged from another, for any number of channels,   *)
(* customers, slots and turns.                                             *)
(***************************************************************************)
EXTENDS CustomerMemory, FiniteSetTheorems, WellFoundedInduction, TLAPS

(***************************************************************************)
(* The inductive invariant                                                 *)
(***************************************************************************)
SlotRows == [Slot -> Row \cup {NoRow}]

TurnRow ==
  {Idle}
    \cup [at: {"queued"}, channel: Channel, customer: Customer \cup {0}]
    \cup [at: {"merge", "locked", "run"}, channel: Channel, customer: Customer \cup {0},
          todo: SUBSET Channel, read: SlotRows, took: SUBSET Nat]

AuditRow == [from: Channel, to: Customer, moved: SUBSET Nat, overridden: SUBSET Nat]

LogRow == [clears: Nat, self_service: Nat, sweeps: Nat, deleted: Nat]

\* Values are numbered in the order they are stated.
MemoryTyped ==
  /\ slots \in [Key -> SlotRows]
  /\ links \subseteq Channel \X Customer
  /\ \E n \in 0..MaxStated : Stated = 1..n
  /\ \A v \in Stated : fate[v] \in Fate
  /\ turn \in [Turn -> TurnRow]
  /\ mergeAudit \in Seq(AuditRow)
  /\ memoryLog \in LogRow

Held(k, s) == slots[k][s] # NoRow

\* What a row holds was stated, is kept and is held by no other row.
RowsOK ==
  /\ \A k \in Key, s \in Slot : Held(k, s) => slots[k][s].value \in Stated /\ fate[slots[k][s].value] = "kept"
  /\ \A k, l \in Key : \A s, r \in Slot :
       Held(k, s) /\ Held(l, r) /\ slots[k][s].value = slots[l][r].value => k = l /\ s = r

Named(n) == mergeAudit[n].moved \cup mergeAudit[n].overridden

NamedOnce ==
  \A n \in DOMAIN mergeAudit :
    /\ Named(n) \subseteq Stated
    /\ <<mergeAudit[n].from, mergeAudit[n].to>> \in links
    /\ \A v \in mergeAudit[n].overridden : fate[v] = "overridden"
    /\ \A m \in DOMAIN mergeAudit : m # n => Named(m) \cap Named(n) = {}

OverriddenIsNamed ==
  \A v \in Stated : fate[v] = "overridden" =>
    \E n \in DOMAIN mergeAudit : v \in mergeAudit[n].overridden

\* What a channel holds has not been merged.
ChannelsUnmerged ==
  \A c \in Channel, s \in Slot : Held(c, s) =>
    /\ slots[c][s].source # "merged_provisional"
    /\ \A n \in DOMAIN mergeAudit : slots[c][s].value \notin Named(n)

MergedIsNamed ==
  \A u \in Customer, s \in Slot : Held(u, s) /\ slots[u][s].source = "merged_provisional" =>
    \E n \in DOMAIN mergeAudit : slots[u][s].value \in mergeAudit[n].moved /\ mergeAudit[n].to = u

AuditOK == NamedOnce /\ OverriddenIsNamed /\ ChannelsUnmerged /\ MergedIsNamed

\* A merge holds rows of a channel of its customer, and they are as it read them;
\* it has moved nothing while the own channel of the turn is to be merged.
TurnOK(i) ==
  /\ turn[i].at # "idle" /\ is_verified(turn[i]) => <<turn[i].channel, turn[i].customer>> \in links
  /\ turn[i].at \in {"merge", "locked"} =>
       /\ is_verified(turn[i])
       /\ \A c \in turn[i].todo : <<c, turn[i].customer>> \in links
       /\ turn[i].channel \in turn[i].todo => turn[i].took = {}
  /\ turn[i].at = "locked" =>
       /\ turn[i].todo # {}
       /\ \E s \in Slot : turn[i].read[s] # NoRow
       /\ \A s \in Slot : turn[i].read[s] # NoRow =>
            /\ Held(provisional_key(turn[i]), s)
            /\ slots[provisional_key(turn[i])][s].value = turn[i].read[s].value

LocksOK ==
  \A i, j \in Turn :
    /\ turn[i].at = "locked" /\ turn[j].at = "locked"
    /\ provisional_key(turn[i]) = provisional_key(turn[j])
    => i = j

Fated(what) == {v \in Stated : fate[v] = what}

LogOK ==
  /\ memoryLog.self_service = Cardinality(Fated("self_cleared"))
  /\ memoryLog.deleted = Cardinality(Fated("swept"))
  /\ Cardinality(Fated("cleared")) + Cardinality(Fated("self_cleared")) <= memoryLog.clears

MemoryInv ==
  /\ MemoryTyped /\ RowsOK /\ AuditOK /\ LocksOK /\ LogOK
  /\ \A i \in Turn : TurnOK(i)

(***************************************************************************)
(* Rows, keys and turns                                                    *)
(***************************************************************************)
LEMMA RowForms ==
  /\ NoRow.value = 0 /\ NoRow \notin Row
  /\ \A r \in Row : r.value \in 1..MaxStated /\ r.value # 0 /\ r # NoRow
  /\ NothingRead \in SlotRows /\ \A s \in Slot : NothingRead[s] = NoRow
<1>1. NoRow.value = 0
  BY DEF NoRow
<1>2. \A r \in Row : r.value \in 1..MaxStated /\ r.value # 0
  BY MemoryAssumption DEF Row
<1>3. NothingRead \in SlotRows /\ \A s \in Slot : NothingRead[s] = NoRow
  BY DEF NothingRead, SlotRows
<1> QED
  BY <1>1, <1>2, <1>3

LEMMA KeyForms ==
  /\ Channel \subseteq Nat /\ Channel \subseteq Key /\ Customer \subseteq Key
  /\ \A c \in Channel : c \notin Customer
  /\ 0 \notin Customer
<1>1. Channel \subseteq Nat
  BY MemoryAssumption DEF Channel
<1> QED
  BY <1>1, MemoryAssumption DEF Key

\* A nonempty set of naturals has a least element.
LEMMA LeastKey ==
  ASSUME NEW T, T \subseteq Nat, T # {}
  PROVE  Min(T) \in T
<1> DEFINE R == {ss \in Nat \X Nat : ss[1] < ss[2]}
<1>1. IsWellFoundedOn(R, Nat)
  BY NatLessThanWellFounded DEF OpToRel
<1>2. \E m \in T : \A k \in T : ~(<<k, m>> \in R)
  <2> HIDE DEF R
  <2> QED
    BY <1>1, WFMin
<1>3. PICK m \in T : \A k \in T : ~(<<k, m>> \in R)
  BY <1>2
<1>4. ASSUME NEW k \in T PROVE m <= k
  <2>1. ~(k < m)
    BY <1>3
  <2> QED
    BY <2>1
<1> QED
  BY <1>4 DEF Min

\* The key a merge is at is one of the channels it has left.
LEMMA KeyLeft ==
  ASSUME NEW t, t.todo \subseteq Channel, t.todo # {}
  PROVE  provisional_key(t) \in t.todo
  BY KeyForms, LeastKey DEF provisional_key

LEMMA TurnForms ==
  ASSUME NEW t \in TurnRow
  PROVE  /\ t.at \in {"idle", "queued", "merge", "locked", "run"}
         /\ t.at = "queued" => t.channel \in Channel /\ t.customer \in Customer \cup {0}
         /\ t.at \in {"merge", "locked", "run"} =>
              t \in [at: {"merge", "locked", "run"}, channel: Channel, customer: Customer \cup {0},
                     todo: SUBSET Channel, read: SlotRows, took: SUBSET Nat]
  BY DEF TurnRow, Idle

LEMMA MemoryStart == MemoryInit => MemoryInv
<1> SUFFICES ASSUME MemoryInit PROVE MemoryInv
  OBVIOUS
<1>1. DOMAIN fate = {} /\ Stated = 1..0 /\ 0 \in 0..MaxStated
  BY MemoryAssumption DEF MemoryInit, Stated
<1>2. \A k \in Key, s \in Slot : ~Held(k, s)
  BY DEF MemoryInit, Held
<1>3. \A i \in Turn : turn[i] = Idle /\ turn[i].at = "idle" /\ Idle \in TurnRow
  BY DEF MemoryInit, Idle, TurnRow
<1>4. MemoryTyped
  <2>1. slots \in [Key -> SlotRows]
    BY DEF MemoryInit, SlotRows
  <2>2. mergeAudit \in Seq(AuditRow) /\ memoryLog \in LogRow
    BY DEF MemoryInit, LogRow
  <2>3. turn \in [Turn -> TurnRow]
    BY <1>3 DEF MemoryInit
  <2>4. links \subseteq Channel \X Customer
    BY DEF MemoryInit
  <2> QED
    BY <1>1, <2>1, <2>2, <2>3, <2>4 DEF MemoryTyped, Stated
<1>5. RowsOK /\ LocksOK /\ \A i \in Turn : TurnOK(i)
  BY <1>2, <1>3 DEF RowsOK, LocksOK, TurnOK
<1>6. AuditOK
  <2>1. DOMAIN mergeAudit = {}
    BY DEF MemoryInit
  <2> QED
    BY <1>1, <1>2, <2>1, KeyForms
       DEF AuditOK, NamedOnce, OverriddenIsNamed, ChannelsUnmerged, MergedIsNamed, Stated
<1>7. LogOK
  <2>1. \A what : Fated(what) = {}
    BY <1>1 DEF Fated, Stated
  <2>2. \A what : Cardinality(Fated(what)) = 0
    BY <2>1, FS_EmptySet
  <2> QED
    BY <2>2 DEF LogOK, MemoryInit
<1> QED
  BY <1>4, <1>5, <1>6, <1>7 DEF MemoryInv

(***************************************************************************)
(* Steps of a turn that write no slot                                      *)
(***************************************************************************)
LEMMA RecordKept ==
  ASSUME MemoryInv, UNCHANGED <<slots, links, mergeAudit, memoryLog, fate>>
  PROVE  RowsOK' /\ AuditOK' /\ LogOK'
  BY DEF MemoryInv, RowsOK, AuditOK, NamedOnce, OverriddenIsNamed, ChannelsUnmerged, MergedIsNamed,
         LogOK, Held, Named, Fated, Stated

\* One turn moves; when it locks, nobody holds the key.
LEMMA TurnMoves ==
  ASSUME MemoryInv, NEW i \in Turn, NEW row \in TurnRow, turn' = [turn EXCEPT ![i] = row],
         UNCHANGED <<slots, links, mergeAudit, memoryLog, fate>>,
         row.at # "idle" /\ is_verified(row) => <<row.channel, row.customer>> \in links,
         row.at \in {"merge", "locked"} =>
           /\ is_verified(row) /\ \A c \in row.todo : <<c, row.customer>> \in links
           /\ row.channel \in row.todo => row.took = {},
         row.at = "locked" =>
           /\ row.todo # {}
           /\ \E s \in Slot : row.read[s] # NoRow
           /\ \A s \in Slot : row.read[s] # NoRow =>
                Held(provisional_key(row), s) /\ slots[provisional_key(row)][s].value = row.read[s].value
           /\ \A j \in Turn : turn[j].at = "locked" => provisional_key(turn[j]) # provisional_key(row)
  PROVE  MemoryInv'
<1>0. MemoryTyped /\ turn \in [Turn -> TurnRow] /\ LocksOK
  BY DEF MemoryInv, MemoryTyped
<1>1. turn'[i] = row /\ \A j \in Turn : j # i => turn'[j] = turn[j]
  BY <1>0
<1>2. MemoryTyped'
  BY <1>0 DEF MemoryTyped, Stated
<1>3. \A k, s : Held(k, s)' <=> Held(k, s)
  BY DEF Held
<1>4. ASSUME NEW j \in Turn PROVE TurnOK(j)'
  <2>1. CASE j = i
    BY <1>1, <2>1 DEF TurnOK, Held, is_verified
  <2>2. CASE j # i
    <3>1. TurnOK(j) /\ turn'[j] = turn[j]
      BY <1>1, <2>2 DEF MemoryInv
    <3> QED
      BY <3>1 DEF TurnOK, Held, is_verified
  <2> QED
    BY <2>1, <2>2
<1>5. LocksOK'
  BY <1>0, <1>1 DEF LocksOK
<1> QED
  BY <1>2, <1>4, <1>5, RecordKept DEF MemoryInv

\* The rest of a merge, whatever became of the key.
LEMMA KeyDone ==
  ASSUME MemoryTyped, NEW i \in Turn, TurnOK(i), turn[i].at \in {"merge", "locked"}
  PROVE  /\ NextKey(turn[i]) \in TurnRow /\ NextKey(turn[i]).at = "merge"
         /\ is_verified(NextKey(turn[i])) /\ NextKey(turn[i]).customer = turn[i].customer
         /\ NextKey(turn[i]).channel = turn[i].channel
         /\ \A c \in NextKey(turn[i]).todo : <<c, turn[i].customer>> \in links
         /\ NextKey(turn[i]).channel \notin NextKey(turn[i]).todo
<1>1. turn[i] \in [at: {"merge", "locked", "run"}, channel: Channel, customer: Customer \cup {0},
                   todo: SUBSET Channel, read: SlotRows, took: SUBSET Nat]
  BY TurnForms DEF MemoryTyped
<1>2. PICK left : left = turn[i].todo \ {provisional_key(turn[i])}
  OBVIOUS
<1>3. PICK read : read = NothingRead
  OBVIOUS
<1>4. NextKey(turn[i]) = [turn[i] EXCEPT !.at = "merge", !.todo = left, !.read = read]
  BY <1>1, <1>2, <1>3 DEF NextKey
<1>5. left \in SUBSET Channel /\ read \in SlotRows
  BY <1>1, <1>2, <1>3, RowForms
<1>6. /\ NextKey(turn[i]) \in [at: {"merge", "locked", "run"}, channel: Channel,
                               customer: Customer \cup {0}, todo: SUBSET Channel, read: SlotRows, took: SUBSET Nat]
      /\ NextKey(turn[i]).at = "merge" /\ NextKey(turn[i]).customer = turn[i].customer
      /\ NextKey(turn[i]).channel = turn[i].channel /\ NextKey(turn[i]).todo = left
  BY <1>1, <1>4, <1>5
<1>7. NextKey(turn[i]) \in TurnRow
  BY <1>6 DEF TurnRow
<1>8. turn[i].channel \notin left
  BY <1>2 DEF provisional_key
<1> QED
  BY <1>2, <1>6, <1>7, <1>8 DEF TurnOK, is_verified

LEMMA QuietSteps ==
  ASSUME MemoryInv, NEW i \in Turn,
         \/ \E c \in Channel : match(i, c)
         \/ StartTurn(i)
         \/ LockRows(i)
         \/ MergeFails(i)
         \/ LoadMemory(i)
         \/ EndTurn(i)
  PROVE  MemoryInv'
<1>0. MemoryTyped /\ turn \in [Turn -> TurnRow] /\ turn[i] \in TurnRow /\ TurnOK(i)
      /\ slots \in [Key -> SlotRows] /\ links \subseteq Channel \X Customer
  BY DEF MemoryInv, MemoryTyped
<1>1. UNCHANGED <<slots, links, mergeAudit, memoryLog, fate>>
  BY DEF match, StartTurn, LockRows, MergeFails, LoadMemory, EndTurn
<1>2. ASSUME turn[i].at \in {"merge", "locked"}, turn' = [turn EXCEPT ![i] = NextKey(@)]
      PROVE  MemoryInv'
  <2>1. PICK row : row = NextKey(turn[i])
    OBVIOUS
  <2>2. turn' = [turn EXCEPT ![i] = row]
    BY <1>2, <2>1
  <2>3. /\ row \in TurnRow /\ row.at = "merge" /\ is_verified(row) /\ row.channel = turn[i].channel
        /\ row.customer = turn[i].customer /\ \A c \in row.todo : <<c, turn[i].customer>> \in links
        /\ row.channel \notin row.todo
    BY <1>0, <1>2, <2>1, KeyDone
  <2>4. <<row.channel, row.customer>> \in links
    BY <1>0, <1>2, <2>3 DEF TurnOK, is_verified
  <2> QED
    BY <1>1, <2>2, <2>3, <2>4, TurnMoves
<1>3. CASE MergeFails(i)
  BY <1>2, <1>3 DEF MergeFails
<1>4. CASE LoadMemory(i)
  <2>0. turn[i].at = "merge" /\ turn' = [turn EXCEPT ![i].at = "run"]
    BY <1>4 DEF LoadMemory
  <2>1. turn[i] \in [at: {"merge", "locked", "run"}, channel: Channel, customer: Customer \cup {0},
                     todo: SUBSET Channel, read: SlotRows, took: SUBSET Nat]
    BY <1>0, <2>0, TurnForms
  <2>2. PICK row : row = [turn[i] EXCEPT !.at = "run"]
    OBVIOUS
  <2>3. row \in [at: {"merge", "locked", "run"}, channel: Channel, customer: Customer \cup {0},
                 todo: SUBSET Channel, read: SlotRows, took: SUBSET Nat]
        /\ row.at = "run" /\ row.channel = turn[i].channel /\ row.customer = turn[i].customer
    BY <2>1, <2>2
  <2>4. row \in TurnRow /\ turn' = [turn EXCEPT ![i] = row]
    BY <2>0, <2>2, <2>3 DEF TurnRow
  <2>5. is_verified(row) => <<row.channel, row.customer>> \in links
    BY <1>0, <2>0, <2>3 DEF TurnOK, is_verified
  <2> QED
    BY <1>1, <2>3, <2>4, <2>5, TurnMoves
<1>5. CASE EndTurn(i)
  <2>1. Idle \in TurnRow /\ Idle.at = "idle"
    BY DEF TurnRow, Idle
  <2>2. turn' = [turn EXCEPT ![i] = Idle]
    BY <1>5 DEF EndTurn
  <2> QED
    BY <1>1, <2>1, <2>2, TurnMoves
<1>6. ASSUME NEW c \in Channel, match(i, c) PROVE MemoryInv'
  <2>1. PICK u \in IF Matched(c) THEN CustomersOf(c) ELSE {0} :
          turn' = [turn EXCEPT ![i] = [at |-> "queued", channel |-> c, customer |-> u]]
    BY <1>6 DEF match
  <2>2. u \in Customer \cup {0} /\ (u \in Customer => <<c, u>> \in links)
    BY <2>1, KeyForms DEF CustomersOf
  <2>3. PICK row : row = [at |-> "queued", channel |-> c, customer |-> u]
    OBVIOUS
  <2>4. row \in TurnRow /\ row.at = "queued" /\ row.channel = c /\ row.customer = u
    BY <2>2, <2>3 DEF TurnRow
  <2>5. turn' = [turn EXCEPT ![i] = row]
    BY <2>1, <2>3
  <2> QED
    BY <1>1, <2>2, <2>4, <2>5, TurnMoves DEF is_verified
<1>7. CASE StartTurn(i)
  <2>0. turn[i].at = "queued"
    BY <1>7 DEF StartTurn
  <2>1. turn[i].channel \in Channel /\ turn[i].customer \in Customer \cup {0}
    BY <1>0, <2>0, TurnForms
  <2>2. PICK todo : todo = IF is_verified(turn[i]) THEN linked_provisional_keys(turn[i]) ELSE {}
    OBVIOUS
  <2>3. todo \in SUBSET Channel /\ (is_verified(turn[i]) => \A c \in todo : <<c, turn[i].customer>> \in links)
    BY <1>0, <2>0, <2>1, <2>2 DEF linked_provisional_keys, ChannelsOf, TurnOK
  <2>4. PICK at \in {"merge", "run"} : at = IF is_verified(turn[i]) THEN "merge" ELSE "run"
    OBVIOUS
  <2>5. PICK row : row = [at |-> at, channel |-> turn[i].channel, customer |-> turn[i].customer,
                          todo |-> todo, read |-> NothingRead, took |-> {}]
    OBVIOUS
  <2>6. /\ row \in TurnRow /\ row.at = at /\ row.channel = turn[i].channel
        /\ row.customer = turn[i].customer /\ row.todo = todo /\ row.took = {}
    BY <2>1, <2>3, <2>5, RowForms DEF TurnRow
  <2>7. turn' = [turn EXCEPT ![i] = row]
    BY <1>7, <2>2, <2>4, <2>5 DEF StartTurn
  <2>8. /\ is_verified(row) <=> is_verified(turn[i])
        /\ is_verified(row) => <<row.channel, row.customer>> \in links
    BY <1>0, <2>0, <2>6 DEF is_verified, TurnOK
  <2> QED
    BY <1>1, <2>3, <2>4, <2>6, <2>7, <2>8, TurnMoves
<1>8. CASE LockRows(i)
  <2>0. PICK k : k = provisional_key(turn[i])
    OBVIOUS
  <2>1. /\ turn[i].at = "merge" /\ turn[i].todo # {} /\ \A s \in Slot : ~Locked(k, s)
        /\ turn' = IF Present(k) = {} THEN [turn EXCEPT ![i] = NextKey(@)]
                   ELSE [turn EXCEPT ![i].at = "locked", ![i].read = slots[k]]
    BY <1>8, <2>0 DEF LockRows
  <2>2. CASE Present(k) = {}
    BY <1>2, <2>1, <2>2
  <2>3. CASE Present(k) # {}
    <3>1. turn[i] \in [at: {"merge", "locked", "run"}, channel: Channel, customer: Customer \cup {0},
                       todo: SUBSET Channel, read: SlotRows, took: SUBSET Nat]
      BY <1>0, <2>1, TurnForms
    <3>2. k \in Channel /\ k \in Key /\ slots[k] \in SlotRows
      BY <1>0, <2>0, <2>1, <3>1, KeyLeft, KeyForms
    <3>3. PICK read \in SlotRows : read = slots[k]
      BY <3>2
    <3>4. PICK row : row = [turn[i] EXCEPT !.at = "locked", !.read = read]
      OBVIOUS
    <3>5. /\ row \in [at: {"merge", "locked", "run"}, channel: Channel, customer: Customer \cup {0},
                      todo: SUBSET Channel, read: SlotRows, took: SUBSET Nat]
          /\ row.at = "locked" /\ row.channel = turn[i].channel /\ row.customer = turn[i].customer
          /\ row.todo = turn[i].todo /\ row.read = read /\ row.took = turn[i].took
      BY <3>1, <3>3, <3>4
    <3>6. row \in TurnRow
      BY <3>5 DEF TurnRow
    <3>7. turn' = [turn EXCEPT ![i] = row]
      BY <2>1, <2>3, <3>3, <3>4
    <3>8. provisional_key(row) = k
      BY <2>0, <3>5 DEF provisional_key
    <3>9. /\ is_verified(row) /\ <<row.channel, row.customer>> \in links
          /\ \A c \in row.todo : <<c, row.customer>> \in links
          /\ row.channel \in row.todo => row.took = {}
      BY <1>0, <2>1, <3>5 DEF TurnOK, is_verified
    <3>10. \E s \in Slot : row.read[s] # NoRow
      BY <2>3, <3>3, <3>5 DEF Present
    <3>11. \A s \in Slot : row.read[s] # NoRow => Held(k, s) /\ slots[k][s].value = row.read[s].value
      BY <3>3, <3>5 DEF Held
    <3>12. ASSUME NEW j \in Turn, turn[j].at = "locked" PROVE provisional_key(turn[j]) # k
      <4>1. PICK s \in Slot : turn[j].read[s] # NoRow
        BY <3>12 DEF MemoryInv, TurnOK
      <4> QED
        BY <2>1, <3>12, <4>1 DEF Locked, HoldsLock
    <3>13. row.at = "locked" /\ row.todo # {}
      BY <2>1, <3>5
    <3>14. \A s \in Slot : row.read[s] # NoRow =>
             Held(provisional_key(row), s) /\ slots[provisional_key(row)][s].value = row.read[s].value
      BY <3>8, <3>11
    <3>15. \A j \in Turn : turn[j].at = "locked" => provisional_key(turn[j]) # provisional_key(row)
      BY <3>8, <3>12
    <3>16. /\ row.at # "idle" /\ is_verified(row) => <<row.channel, row.customer>> \in links
           /\ row.at \in {"merge", "locked"} =>
                /\ is_verified(row) /\ \A c \in row.todo : <<c, row.customer>> \in links
                /\ row.channel \in row.todo => row.took = {}
      BY <3>9
    <3>17. row.at = "locked" =>
             /\ row.todo # {}
             /\ \E s \in Slot : row.read[s] # NoRow
             /\ \A s \in Slot : row.read[s] # NoRow =>
                  Held(provisional_key(row), s) /\ slots[provisional_key(row)][s].value = row.read[s].value
             /\ \A j \in Turn : turn[j].at = "locked" => provisional_key(turn[j]) # provisional_key(row)
      BY <3>10, <3>13, <3>14, <3>15
    <3> QED
      BY <1>1, <3>6, <3>7, <3>16, <3>17, TurnMoves
  <2> QED
    BY <2>2, <2>3
<1> QED
  BY <1>3, <1>4, <1>5, <1>6, <1>7, <1>8

(***************************************************************************)
(* Steps that write slots                                                  *)
(***************************************************************************)
\* A merge holds its rows as long as the writers leave them alone.
LEMMA LocksKept ==
  ASSUME MemoryInv, UNCHANGED turn, links \subseteq links',
         \A c \in Channel, s \in Slot :
           Locked(c, s) => Held(c, s)' /\ slots'[c][s].value = slots[c][s].value
  PROVE  LocksOK' /\ \A i \in Turn : TurnOK(i)'
<1>1. LocksOK'
  BY DEF MemoryInv, LocksOK
<1>2. ASSUME NEW i \in Turn PROVE TurnOK(i)'
  <2>0. TurnOK(i) /\ turn[i] \in TurnRow
    BY DEF MemoryInv, MemoryTyped
  <2>1. ASSUME turn[i].at = "locked", NEW s \in Slot, turn[i].read[s] # NoRow
        PROVE  /\ slots'[provisional_key(turn[i])][s] # NoRow
               /\ slots'[provisional_key(turn[i])][s].value = turn[i].read[s].value
    <3>1. turn[i].todo \subseteq Channel /\ turn[i].todo # {}
      BY <2>0, <2>1, TurnForms DEF TurnOK
    <3>2. PICK k \in Channel : k = provisional_key(turn[i])
      BY <3>1, KeyLeft
    <3>3. Locked(k, s)
      BY <2>1, <3>2 DEF Locked, HoldsLock
    <3>4. slots[k][s].value = turn[i].read[s].value
      BY <2>0, <2>1, <3>2 DEF TurnOK
    <3> QED
      BY <3>2, <3>3, <3>4 DEF Held
  <2> QED
    BY <2>0, <2>1 DEF TurnOK, Held, is_verified
<1> QED
  BY <1>1, <1>2

\* Links are only added, and rows only age.
LEMMA LinkAndAge ==
  ASSUME MemoryInv, DayPasses \/ \E c \in Channel, u \in Customer : link_identity(c, u)
  PROVE  MemoryInv'
<1>0. MemoryTyped /\ slots \in [Key -> SlotRows] /\ links \subseteq Channel \X Customer
  BY DEF MemoryInv, MemoryTyped
<1>1. UNCHANGED <<turn, mergeAudit, memoryLog, fate>> /\ links \subseteq links'
      /\ links' \subseteq Channel \X Customer
  BY <1>0 DEF DayPasses, link_identity
<1>2. /\ slots' \in [Key -> SlotRows]
      /\ \A k \in Key, s \in Slot :
           /\ Held(k, s)' <=> Held(k, s)
           /\ slots'[k][s].value = slots[k][s].value
           /\ Held(k, s) => slots'[k][s].source = slots[k][s].source
  <2>1. CASE UNCHANGED slots
    BY <1>0, <2>1 DEF Held
  <2>2. CASE DayPasses
    <3>1. ASSUME NEW k \in Key, NEW s \in Slot
          PROVE  /\ slots'[k][s] \in Row \cup {NoRow}
                 /\ slots'[k][s] # NoRow <=> slots[k][s] # NoRow
                 /\ slots'[k][s].value = slots[k][s].value
                 /\ slots[k][s] # NoRow => slots'[k][s].source = slots[k][s].source
      <4>1. slots[k][s] \in Row \cup {NoRow}
        BY <1>0, <3>1 DEF SlotRows
      <4>2. slots'[k][s] = IF slots[k][s] = NoRow \/ slots[k][s].days > VerifiedWindow
                             THEN slots[k][s] ELSE [slots[k][s] EXCEPT !.days = @ + 1]
        BY <2>2 DEF DayPasses
      <4>3. CASE slots[k][s] = NoRow \/ slots[k][s].days > VerifiedWindow
        BY <4>1, <4>2, <4>3
      <4>4. CASE ~(slots[k][s] = NoRow \/ slots[k][s].days > VerifiedWindow)
        <5>1. PICK r \in Row : r = slots[k][s] /\ ~(r.days > VerifiedWindow)
          BY <4>1, <4>4
        <5>2. r.days + 1 \in 0..VerifiedWindow + 1
          BY <5>1, MemoryAssumption DEF Row
        <5>3. [r EXCEPT !.days = @ + 1] \in Row /\ [r EXCEPT !.days = @ + 1].value = r.value
              /\ [r EXCEPT !.days = @ + 1].source = r.source
          BY <5>2 DEF Row
        <5>4. slots'[k][s] = [r EXCEPT !.days = @ + 1]
          BY <4>2, <4>4, <5>1
        <5> QED
          BY <5>1, <5>3, <5>4, RowForms
      <4> QED
        BY <4>3, <4>4
    <3>2. slots' \in [Key -> SlotRows]
      <4>1. DOMAIN slots' = Key /\ \A k \in Key : DOMAIN slots'[k] = Slot
        BY <2>2 DEF DayPasses
      <4>2. slots' = [k \in Key |-> [s \in Slot |-> slots'[k][s]]]
        BY <2>2 DEF DayPasses
      <4> QED
        BY <3>1, <4>2 DEF SlotRows
    <3> QED
      BY <3>1, <3>2 DEF Held
  <2> QED
    BY <2>1, <2>2 DEF link_identity
<1>3. MemoryTyped'
  BY <1>0, <1>1, <1>2 DEF MemoryTyped, Stated
<1>4. RowsOK'
  BY <1>1, <1>2 DEF MemoryInv, RowsOK, Stated
<1>5. AuditOK'
  BY <1>1, <1>2, KeyForms
     DEF MemoryInv, AuditOK, NamedOnce, OverriddenIsNamed, ChannelsUnmerged, MergedIsNamed, Named, Stated
<1>6. LogOK'
  BY <1>1 DEF MemoryInv, LogOK, Fated, Stated
<1>7. ASSUME NEW c \in Channel, NEW s \in Slot, Locked(c, s) PROVE Held(c, s)
  <2>1. PICK i \in Turn : HoldsLock(i, c, s)
    BY <1>7 DEF Locked
  <2> QED
    BY <2>1 DEF HoldsLock, MemoryInv, TurnOK
<1>8. LocksOK' /\ \A i \in Turn : TurnOK(i)'
  BY <1>1, <1>2, <1>7, LocksKept, KeyForms
<1> QED
  BY <1>3, <1>4, <1>5, <1>6, <1>8 DEF MemoryInv

LEMMA FatedFinite ==
  ASSUME MemoryTyped
  PROVE  \A what : IsFiniteSet(Fated(what)) /\ Cardinality(Fated(what)) \in Nat
<1>1. PICK n \in 0..MaxStated : Stated = 1..n
  BY DEF MemoryTyped
<1>2. IsFiniteSet(Stated)
  BY <1>1, FS_Interval, MemoryAssumption
<1>3. ASSUME NEW what PROVE IsFiniteSet(Fated(what))
  <2>1. Fated(what) \subseteq Stated
    BY DEF Fated
  <2> QED
    BY <1>2, <2>1, FS_Subset
<1> QED
  BY <1>3, FS_CardinalityType

\* A step that merges nothing.
LEMMA AuditKept ==
  ASSUME AuditOK, UNCHANGED mergeAudit, links \subseteq links', Stated \subseteq Stated',
         \A v \in Stated : fate[v] = "overridden" <=> fate'[v] = "overridden",
         \A v \in Stated' \ Stated : fate'[v] # "overridden",
         \A c \in Channel, s \in Slot : Held(c, s)' =>
           /\ slots'[c][s].source # "merged_provisional"
           /\ slots'[c][s].value \in Stated => Held(c, s) /\ slots'[c][s].value = slots[c][s].value,
         \A u \in Customer, s \in Slot :
           Held(u, s)' /\ slots'[u][s].source = "merged_provisional" =>
             /\ Held(u, s) /\ slots[u][s].source = "merged_provisional"
             /\ slots'[u][s].value = slots[u][s].value
  PROVE  AuditOK'
<1>0. NamedOnce /\ OverriddenIsNamed /\ ChannelsUnmerged /\ MergedIsNamed
  BY DEF AuditOK
<1>1. \A n : Named(n)' = Named(n)
  BY DEF Named
<1>2. \A n \in DOMAIN mergeAudit : mergeAudit[n].overridden \subseteq Named(n)
  BY DEF Named
<1>3. NamedOnce'
  BY <1>0, <1>1, <1>2 DEF NamedOnce
<1>4. OverriddenIsNamed'
  BY <1>0 DEF OverriddenIsNamed
<1>5. ChannelsUnmerged'
  <2> SUFFICES ASSUME NEW c \in Channel, NEW s \in Slot, Held(c, s)', NEW n \in DOMAIN mergeAudit
               PROVE  /\ slots'[c][s].source # "merged_provisional"
                      /\ slots'[c][s].value \notin Named(n)
    BY <1>1 DEF ChannelsUnmerged
  <2>1. CASE slots'[c][s].value \in Stated
    BY <1>0, <2>1 DEF ChannelsUnmerged
  <2>2. CASE slots'[c][s].value \notin Stated
    BY <1>0, <2>2 DEF NamedOnce
  <2> QED
    BY <2>1, <2>2
<1>6. MergedIsNamed'
  BY <1>0 DEF MergedIsNamed
<1> QED
  BY <1>3, <1>4, <1>5, <1>6 DEF AuditOK

\* The rows of gone leave memory, and the values they held have the fate what:
\* a clear, or a sweep.
LEMMA Removal ==
  ASSUME MemoryInv, NEW gone \in SUBSET (Key \X Slot), NEW what \in {"cleared", "self_cleared", "swept"},
         \A p \in gone : Held(p[1], p[2]) /\ ~Locked(p[1], p[2]),
         slots' \in [Key -> SlotRows],
         \A k \in Key, s \in Slot :
           slots'[k][s] = IF <<k, s>> \in gone THEN NoRow ELSE slots[k][s],
         fate' = [v \in Stated |-> IF \E p \in gone : slots[p[1]][p[2]].value = v THEN what ELSE fate[v]],
         UNCHANGED <<links, turn, mergeAudit>>, memoryLog' \in LogRow, LogOK'
  PROVE  MemoryInv'
<1>0. MemoryTyped /\ RowsOK /\ AuditOK
  BY DEF MemoryInv
<1>1. Stated' = Stated
  BY DEF Stated
<1>2. \A k \in Key, s \in Slot :
        Held(k, s)' => Held(k, s) /\ slots'[k][s] = slots[k][s] /\ <<k, s>> \notin gone
  BY DEF Held
<1>3. \A v \in Stated : /\ fate'[v] \in Fate
                        /\ fate'[v] = fate[v] \/ (fate[v] = "kept" /\ fate'[v] = what)
  <2>1. ASSUME NEW p \in gone PROVE fate[slots[p[1]][p[2]].value] = "kept"
    BY <1>0 DEF RowsOK
  <2> QED
    BY <1>0, <2>1 DEF MemoryTyped, Fate
<1>4. MemoryTyped'
  BY <1>0, <1>1, <1>3 DEF MemoryTyped
<1>5. RowsOK'
  <2>1. ASSUME NEW k \in Key, NEW s \in Slot, Held(k, s)'
        PROVE  slots'[k][s].value \in Stated /\ fate'[slots'[k][s].value] = "kept"
    <3>1. Held(k, s) /\ slots'[k][s] = slots[k][s] /\ <<k, s>> \notin gone
      BY <1>2, <2>1
    <3>2. slots[k][s].value \in Stated /\ fate[slots[k][s].value] = "kept"
      BY <1>0, <3>1 DEF RowsOK
    <3>3. ASSUME NEW p \in gone, slots[p[1]][p[2]].value = slots[k][s].value PROVE FALSE
      <4>1. p[1] \in Key /\ p[2] \in Slot /\ p = <<p[1], p[2]>> /\ Held(p[1], p[2])
        BY <3>3
      <4>2. p[1] = k /\ p[2] = s
        BY <1>0, <3>1, <3>3, <4>1 DEF RowsOK
      <4> QED
        BY <3>1, <3>3, <4>1, <4>2
    <3> QED
      BY <3>1, <3>2, <3>3
  <2>2. \A k, l \in Key : \A s, r \in Slot :
          Held(k, s)' /\ Held(l, r)' /\ slots'[k][s].value = slots'[l][r].value => k = l /\ s = r
    <3>1. ASSUME NEW k \in Key, NEW l \in Key, NEW s \in Slot, NEW r \in Slot,
                 Held(k, s)', Held(l, r)', slots'[k][s].value = slots'[l][r].value
          PROVE  k = l /\ s = r
      <4>1. Held(k, s) /\ slots'[k][s] = slots[k][s] /\ Held(l, r) /\ slots'[l][r] = slots[l][r]
        BY <1>2, <3>1
      <4> QED
        BY <1>0, <3>1, <4>1 DEF RowsOK
    <3> QED
      BY <3>1
  <2> QED
    BY <1>1, <2>1, <2>2 DEF RowsOK
<1>6. AuditOK'
  <2>1. \A v \in Stated : fate[v] = "overridden" <=> fate'[v] = "overridden"
    BY <1>3
  <2>2. ASSUME NEW k \in Key, NEW s \in Slot, Held(k, s)'
        PROVE  Held(k, s) /\ slots'[k][s] = slots[k][s]
    BY <1>2, <2>2
  <2>3. \A c \in Channel, s \in Slot : Held(c, s)' => slots'[c][s].source # "merged_provisional"
    BY <1>0, <2>2, KeyForms DEF AuditOK, ChannelsUnmerged
  <2> QED
    BY <1>0, <1>1, <2>1, <2>2, <2>3, AuditKept, KeyForms
<1>7. LocksOK' /\ \A i \in Turn : TurnOK(i)'
  <2>1. ASSUME NEW c \in Channel, NEW s \in Slot, Locked(c, s) PROVE Held(c, s) /\ <<c, s>> \notin gone
    <3>1. PICK i \in Turn : HoldsLock(i, c, s)
      BY <2>1 DEF Locked
    <3>2. Held(c, s)
      BY <3>1 DEF HoldsLock, MemoryInv, TurnOK
    <3> QED
      BY <2>1, <3>2
  <2> QED
    BY <2>1, LocksKept, KeyForms DEF Held
<1> QED
  BY <1>4, <1>5, <1>6, <1>7 DEF MemoryInv

\* Every removal is of one value, so that as many values change their fate as
\* rows are removed.
LEMMA RemovalCounts ==
  ASSUME MemoryInv, NEW gone \in SUBSET (Key \X Slot), NEW what \in {"cleared", "self_cleared", "swept"},
         \A p \in gone : Held(p[1], p[2]),
         fate' = [v \in Stated |-> IF \E p \in gone : slots[p[1]][p[2]].value = v THEN what ELSE fate[v]]
  PROVE  /\ IsFiniteSet(gone) /\ Cardinality(gone) \in Nat
         /\ Cardinality(Fated(what))' = Cardinality(Fated(what)) + Cardinality(gone)
         /\ \A w \in {"cleared", "self_cleared", "swept"} : w # what => Fated(w)' = Fated(w)
<1>0. MemoryTyped /\ RowsOK /\ Stated' = Stated
  BY DEF MemoryInv, Stated
<1>1. PICK lost : lost = {v \in Stated : \E p \in gone : slots[p[1]][p[2]].value = v}
  OBVIOUS
<1>2. ASSUME NEW p \in gone
      PROVE  slots[p[1]][p[2]].value \in lost /\ fate[slots[p[1]][p[2]].value] = "kept"
  BY <1>0, <1>1 DEF RowsOK
<1>3. IsFiniteSet(lost) /\ lost \subseteq Fated("kept")
  <2>1. lost \subseteq Fated("kept")
    BY <1>1, <1>2 DEF Fated
  <2> QED
    BY <1>0, <2>1, FatedFinite, FS_Subset
<1>4. ExistsBijection(lost, gone)
  <2>1. PICK f : f = [v \in lost |-> CHOOSE p \in gone : slots[p[1]][p[2]].value = v]
    OBVIOUS
  <2>2. ASSUME NEW v \in lost PROVE f[v] \in gone /\ slots[f[v][1]][f[v][2]].value = v
    BY <1>1, <2>1
  <2>3. ASSUME NEW p \in gone, NEW q \in gone, slots[p[1]][p[2]].value = slots[q[1]][q[2]].value
        PROVE  p = q
    <3>1. /\ p[1] \in Key /\ p[2] \in Slot /\ p = <<p[1], p[2]>> /\ Held(p[1], p[2])
          /\ q[1] \in Key /\ q[2] \in Slot /\ q = <<q[1], q[2]>> /\ Held(q[1], q[2])
      BY <2>3
    <3>2. p[1] = q[1] /\ p[2] = q[2]
      BY <1>0, <2>3, <3>1 DEF RowsOK
    <3> QED
      BY <3>1, <3>2
  <2>4. f \in [lost -> gone]
    BY <2>1, <2>2
  <2>5. \A v, w \in lost : f[v] = f[w] => v = w
    <3>1. ASSUME NEW v \in lost, NEW w \in lost, f[v] = f[w] PROVE v = w
      BY <2>2, <3>1
    <3> QED
      BY <3>1
  <2>6. \A p \in gone : f[slots[p[1]][p[2]].value] = p
    BY <1>2, <2>2, <2>3
  <2>7. f \in Bijection(lost, gone)
    BY <1>2, <2>4, <2>5, <2>6 DEF Bijection, Injection, Surjection, IsInjective
  <2> QED
    BY <2>7 DEF ExistsBijection
<1>5. IsFiniteSet(gone) /\ Cardinality(gone) = Cardinality(lost) /\ Cardinality(lost) \in Nat
  BY <1>3, <1>4, FS_Bijection, FS_CardinalityType
<1>6. Fated(what)' = Fated(what) \cup lost /\ Fated(what) \cap lost = {}
  BY <1>0, <1>1, <1>3 DEF Fated
<1>7. IsFiniteSet(Fated(what)) /\ Cardinality(Fated(what)) \in Nat
  BY <1>0, FatedFinite
<1>8. Cardinality(Fated(what) \cup lost) = Cardinality(Fated(what)) + Cardinality(lost)
  <2>1. Cardinality(Fated(what) \cap lost) = 0
    BY <1>6, FS_EmptySet
  <2>2. Cardinality(Fated(what) \cup lost) =
          Cardinality(Fated(what)) + Cardinality(lost) - Cardinality(Fated(what) \cap lost)
    BY <1>3, <1>7, FS_Union
  <2> QED
    BY <1>5, <1>7, <2>1, <2>2
<1>9. \A w \in {"cleared", "self_cleared", "swept"} : w # what => Fated(w)' = Fated(w)
  BY <1>0, <1>1, <1>3 DEF Fated
<1> QED
  BY <1>5, <1>6, <1>8, <1>9

LEMMA StatedNumbers ==
  ASSUME MemoryTyped
  PROVE  /\ 0 \notin Stated /\ Cardinality(Stated) \in Nat
         /\ Stated = 1..Cardinality(Stated) /\ Cardinality(Stated) <= MaxStated
<1>1. PICK n \in 0..MaxStated : Stated = 1..n
  BY DEF MemoryTyped
<1>2. n \in Nat /\ n <= MaxStated
  BY <1>1, MemoryAssumption
<1>3. Cardinality(Stated) = n
  BY <1>1, <1>2, FS_Interval
<1> QED
  BY <1>1, <1>2, <1>3

LEMMA ClearStep ==
  ASSUME MemoryInv, NEW k \in Key, NEW s \in Slot, NEW what \in {"cleared", "self_cleared"},
         ClearSlot(k, s, what)
  PROVE  MemoryInv'
<1>0. MemoryTyped /\ slots \in [Key -> SlotRows] /\ memoryLog \in LogRow /\ LogOK
  BY DEF MemoryInv, MemoryTyped
<1>1. PICK gone \in SUBSET (Key \X Slot) : gone = IF Held(k, s) THEN {<<k, s>>} ELSE {}
  <2>1. CASE Held(k, s)
    <3>1. {<<k, s>>} \in SUBSET (Key \X Slot)
      OBVIOUS
    <3> QED
      BY <2>1, <3>1
  <2>2. CASE ~Held(k, s)
    BY <2>2
  <2> QED
    BY <2>1, <2>2
<1>2. \A p \in gone : p = <<k, s>> /\ p[1] = k /\ p[2] = s /\ Held(p[1], p[2])
  BY <1>1
<1>3. /\ ~Locked(k, s) /\ slots' = [slots EXCEPT ![k][s] = NoRow]
      /\ fate' = [v \in Stated |-> IF v = slots[k][s].value THEN what ELSE fate[v]]
      /\ memoryLog' = [memoryLog EXCEPT
           !.clears = @ + 1,
           !.self_service = IF what = "self_cleared" THEN @ + Counted(k, s) ELSE @]
      /\ UNCHANGED <<links, turn, mergeAudit>>
  BY DEF ClearSlot
<1>4. /\ slots' \in [Key -> SlotRows]
      /\ \A l \in Key, r \in Slot : slots'[l][r] = IF l = k /\ r = s THEN NoRow ELSE slots[l][r]
  <2>1. PICK row \in Row \cup {NoRow} : row = NoRow
    OBVIOUS
  <2>2. slots' = [slots EXCEPT ![k][s] = row]
    BY <1>3, <2>1
  <2>3. /\ slots' \in [Key -> SlotRows]
        /\ \A l \in Key, r \in Slot : slots'[l][r] = IF l = k /\ r = s THEN row ELSE slots[l][r]
    BY <1>0, <2>2 DEF SlotRows
  <2> QED
    BY <2>1, <2>3
<1>5. ASSUME NEW l \in Key, NEW r \in Slot
      PROVE  slots'[l][r] = IF <<l, r>> \in gone THEN NoRow ELSE slots[l][r]
  <2>1. <<l, r>> \in gone <=> l = k /\ r = s /\ Held(k, s)
    BY <1>1
  <2> QED
    BY <1>4, <2>1 DEF Held
<1>6. fate' = [v \in Stated |-> IF \E p \in gone : slots[p[1]][p[2]].value = v THEN what ELSE fate[v]]
  <2>1. ASSUME NEW v \in Stated
        PROVE  v = slots[k][s].value <=> \E p \in gone : slots[p[1]][p[2]].value = v
    <3>1. CASE Held(k, s)
      <4>1. <<k, s>> \in gone
        BY <1>1, <3>1
      <4> QED
        BY <1>2, <4>1
    <3>2. CASE ~Held(k, s)
      <4>1. slots[k][s].value = 0 /\ gone = {}
        BY <1>1, <3>2, RowForms DEF Held
      <4> QED
        BY <1>0, <4>1, StatedNumbers
    <3> QED
      BY <3>1, <3>2
  <2> QED
    BY <1>3, <2>1
<1>7. /\ IsFiniteSet(gone) /\ Cardinality(gone) \in Nat
      /\ Cardinality(Fated(what))' = Cardinality(Fated(what)) + Cardinality(gone)
      /\ \A w \in {"cleared", "self_cleared", "swept"} : w # what => Fated(w)' = Fated(w)
  BY <1>2, <1>6, RemovalCounts
<1>8. Cardinality(gone) = Counted(k, s) /\ Counted(k, s) \in {0, 1}
  <2>1. CASE Held(k, s)
    BY <1>1, <2>1, FS_Singleton DEF Counted, Held
  <2>2. CASE ~Held(k, s)
    BY <1>1, <2>2, FS_EmptySet DEF Counted, Held
  <2> QED
    BY <2>1, <2>2
<1>9. /\ memoryLog' \in LogRow /\ memoryLog'.clears = memoryLog.clears + 1
      /\ memoryLog'.deleted = memoryLog.deleted
      /\ memoryLog'.self_service =
           IF what = "self_cleared" THEN memoryLog.self_service + Counted(k, s) ELSE memoryLog.self_service
  <2>1. PICK clears \in Nat : clears = memoryLog.clears + 1
    BY <1>0 DEF LogRow
  <2>2. PICK self \in Nat : self = IF what = "self_cleared" THEN memoryLog.self_service + Counted(k, s)
                                   ELSE memoryLog.self_service
    BY <1>0, <1>8 DEF LogRow
  <2>3. memoryLog' = [memoryLog EXCEPT !.clears = clears, !.self_service = self]
    BY <1>0, <1>3, <2>1, <2>2 DEF LogRow
  <2> QED
    BY <1>0, <2>1, <2>2, <2>3 DEF LogRow
<1>10. LogOK'
  <2>0. \A w : Cardinality(Fated(w)) \in Nat
    BY <1>0, FatedFinite
  <2>1. memoryLog.clears \in Nat
    BY <1>0 DEF LogRow
  <2>2. CASE what = "self_cleared"
    <3>1. /\ Cardinality(Fated("self_cleared"))' = Cardinality(Fated("self_cleared")) + Counted(k, s)
          /\ Cardinality(Fated("swept"))' = Cardinality(Fated("swept"))
          /\ Cardinality(Fated("cleared"))' = Cardinality(Fated("cleared"))
      BY <1>7, <1>8, <2>2
    <3> QED
      BY <1>0, <1>8, <1>9, <2>0, <2>1, <2>2, <3>1 DEF LogOK
  <2>3. CASE what = "cleared"
    <3>1. /\ Cardinality(Fated("cleared"))' = Cardinality(Fated("cleared")) + Counted(k, s)
          /\ Cardinality(Fated("swept"))' = Cardinality(Fated("swept"))
          /\ Cardinality(Fated("self_cleared"))' = Cardinality(Fated("self_cleared"))
      BY <1>7, <1>8, <2>3
    <3> QED
      BY <1>0, <1>8, <1>9, <2>0, <2>1, <2>3, <3>1 DEF LogOK
  <2> QED
    BY <2>2, <2>3
<1>11. \A p \in gone : Held(p[1], p[2]) /\ ~Locked(p[1], p[2])
  BY <1>2, <1>3
<1>12. slots' \in [Key -> SlotRows] /\ memoryLog' \in LogRow /\ UNCHANGED <<links, turn, mergeAudit>>
  BY <1>3, <1>4, <1>9
<1>13. what \in {"cleared", "self_cleared", "swept"}
  OBVIOUS
<1> QED
  BY <1>5, <1>6, <1>10, <1>11, <1>12, <1>13, Removal

LEMMA SweepStep ==
  ASSUME MemoryInv, trigger_retention_sweep
  PROVE  MemoryInv'
<1>0. MemoryTyped /\ slots \in [Key -> SlotRows] /\ memoryLog \in LogRow /\ LogOK
  BY DEF MemoryInv, MemoryTyped
<1>1. PICK gone \in SUBSET (Key \X Slot) : gone = {p \in Key \X Slot : Aged(p[1], p[2])}
  OBVIOUS
<1>2. /\ \A p \in gone : ~Locked(p[1], p[2])
      /\ slots' = [k \in Key |-> [s \in Slot |-> IF <<k, s>> \in gone THEN NoRow ELSE slots[k][s]]]
      /\ fate' = [v \in Stated |-> IF \E p \in gone : slots[p[1]][p[2]].value = v THEN "swept" ELSE fate[v]]
      /\ memoryLog' = [memoryLog EXCEPT !.sweeps = @ + 1, !.deleted = @ + Cardinality(gone)]
      /\ UNCHANGED <<links, turn, mergeAudit>>
  BY <1>1 DEF trigger_retention_sweep
<1>3. \A p \in gone : Held(p[1], p[2]) /\ ~Locked(p[1], p[2])
  BY <1>1, <1>2 DEF Aged, Held
<1>4. slots' \in [Key -> SlotRows]
  BY <1>0, <1>2 DEF SlotRows
<1>5. \A k \in Key, s \in Slot : slots'[k][s] = IF <<k, s>> \in gone THEN NoRow ELSE slots[k][s]
  BY <1>2
<1>6. /\ IsFiniteSet(gone) /\ Cardinality(gone) \in Nat
      /\ Cardinality(Fated("swept"))' = Cardinality(Fated("swept")) + Cardinality(gone)
      /\ Fated("cleared")' = Fated("cleared") /\ Fated("self_cleared")' = Fated("self_cleared")
  BY <1>2, <1>3, RemovalCounts
<1>7. /\ memoryLog' \in LogRow /\ memoryLog'.clears = memoryLog.clears
      /\ memoryLog'.self_service = memoryLog.self_service
      /\ memoryLog'.deleted = memoryLog.deleted + Cardinality(gone)
  <2>1. PICK sweeps \in Nat : sweeps = memoryLog.sweeps + 1
    BY <1>0 DEF LogRow
  <2>2. PICK deleted \in Nat : deleted = memoryLog.deleted + Cardinality(gone)
    BY <1>0, <1>6 DEF LogRow
  <2>3. memoryLog' = [memoryLog EXCEPT !.sweeps = sweeps, !.deleted = deleted]
    BY <1>0, <1>2, <2>1, <2>2 DEF LogRow
  <2> QED
    BY <1>0, <2>1, <2>2, <2>3 DEF LogRow
<1>8. LogOK'
  BY <1>0, <1>6, <1>7 DEF LogOK
<1> QED
  BY <1>2, <1>3, <1>4, <1>5, <1>7, <1>8, Removal

\* A statement: the next number, in the place of what the slot held.
LEMMA WriteStep ==
  ASSUME MemoryInv, NEW k \in Key, NEW s \in Slot, NEW source \in {"customer_explicit", "internal"},
         WriteSlot(k, s, source)
  PROVE  MemoryInv'
<1>0. MemoryTyped /\ slots \in [Key -> SlotRows] /\ RowsOK /\ AuditOK /\ LogOK
  BY DEF MemoryInv, MemoryTyped
<1>1. PICK new : new = Cardinality(Stated) + 1
  OBVIOUS
<1>2. /\ new \in Nat /\ new \in 1..MaxStated /\ new \notin Stated /\ new # 0
      /\ Stated \cup {new} = 1..new /\ new \in 0..MaxStated
  <2>1. Cardinality(Stated) < MaxStated
    BY DEF WriteSlot
  <2>2. PICK n \in Nat : n = Cardinality(Stated) /\ Stated = 1..n
    BY <1>0, StatedNumbers
  <2>3. new = n + 1 /\ n < MaxStated
    BY <1>1, <2>1, <2>2
  <2>4. MaxStated \in Nat
    BY MemoryAssumption
  <2>5. (1..n) \cup {n + 1} = 1..(n + 1)
    BY <2>2
  <2>6. n + 1 \in 1..MaxStated /\ n + 1 \in 0..MaxStated /\ n + 1 \notin 1..n /\ n + 1 # 0
    BY <2>2, <2>3, <2>4
  <2>7. Stated \cup {new} = 1..new
    BY <2>2, <2>3, <2>5
  <2>b. n + 1 \in Nat
    OBVIOUS
  <2>a. new \in Nat
    BY <2>3, <2>b
  <2>8. new \in Nat /\ new \in 1..MaxStated /\ new \in 0..MaxStated /\ new # 0
    BY <2>a, <2>3, <2>6
  <2>9. new \notin Stated
    BY <2>2, <2>3, <2>6
  <2> QED
    BY <2>7, <2>8, <2>9
<1>3. /\ ~Locked(k, s)
      /\ slots' = [slots EXCEPT ![k][s] = [value |-> new, source |-> source, days |-> 0]]
      /\ fate' = [v \in Stated \cup {new} |->
                    IF v = new THEN "kept" ELSE IF v = slots[k][s].value THEN "replaced" ELSE fate[v]]
      /\ UNCHANGED <<links, turn, mergeAudit, memoryLog>>
  BY <1>1 DEF WriteSlot
<1>4. PICK row : row = [value |-> new, source |-> source, days |-> 0]
  OBVIOUS
<1>5. row \in Row /\ row.value = new /\ row.source = source /\ row # NoRow
  <2>1. row \in Row
    BY <1>2, <1>4, MemoryAssumption DEF Row, Source
  <2> QED
    BY <1>4, <2>1, RowForms
<1>6. /\ slots' \in [Key -> SlotRows]
      /\ \A l \in Key, r \in Slot : slots'[l][r] = IF l = k /\ r = s THEN row ELSE slots[l][r]
  <2>1. slots' = [slots EXCEPT ![k][s] = row]
    BY <1>3, <1>4
  <2> QED
    BY <1>0, <1>5, <2>1 DEF SlotRows
<1>7. Stated' = Stated \cup {new}
  BY <1>3 DEF Stated
<1>8. /\ fate'[new] = "kept"
      /\ \A v \in Stated : fate'[v] = IF v = slots[k][s].value THEN "replaced" ELSE fate[v]
  BY <1>2, <1>3
<1>9. \A v \in Stated : v = slots[k][s].value => Held(k, s) /\ fate[v] = "kept"
  <2>1. ~Held(k, s) => slots[k][s].value = 0
    BY RowForms DEF Held
  <2> QED
    BY <1>0, <2>1, StatedNumbers DEF RowsOK
<1>10. MemoryTyped'
  <2>1. \A v \in Stated' : fate'[v] \in Fate
    BY <1>0, <1>7, <1>8 DEF MemoryTyped, Fate
  <2>2. \E n \in 0..MaxStated : Stated' = 1..n
    BY <1>2, <1>7
  <2> QED
    BY <1>0, <1>3, <1>6, <2>1, <2>2 DEF MemoryTyped
<1>11. ASSUME NEW l \in Key, NEW r \in Slot, Held(l, r)', ~(l = k /\ r = s)
       PROVE  /\ Held(l, r) /\ slots'[l][r] = slots[l][r]
              /\ slots[l][r].value \in Stated /\ fate[slots[l][r].value] = "kept"
              /\ fate'[slots[l][r].value] = "kept" /\ slots[l][r].value # new
  <2>1. slots'[l][r] = slots[l][r]
    BY <1>6, <1>11
  <2>2. Held(l, r)
    BY <1>11, <2>1 DEF Held
  <2>3. slots[l][r].value \in Stated /\ fate[slots[l][r].value] = "kept"
    BY <1>0, <2>2 DEF RowsOK
  <2>4. slots[l][r].value # slots[k][s].value
    BY <1>0, <1>9, <1>11, <2>2, <2>3 DEF RowsOK
  <2> QED
    BY <1>2, <1>8, <2>1, <2>2, <2>3, <2>4
<1>12. slots'[k][s] = row
  BY <1>6
<1>13. RowsOK'
  <2>1. ASSUME NEW l \in Key, NEW r \in Slot, Held(l, r)'
        PROVE  slots'[l][r].value \in Stated' /\ fate'[slots'[l][r].value] = "kept"
    BY <1>5, <1>7, <1>8, <1>11, <1>12, <2>1
  <2>2. ASSUME NEW l \in Key, NEW r \in Slot, NEW m \in Key, NEW q \in Slot,
               Held(l, r)', Held(m, q)', slots'[l][r].value = slots'[m][q].value
        PROVE  l = m /\ r = q
    <3>1. CASE l = k /\ r = s
      BY <1>5, <1>11, <1>12, <2>2, <3>1
    <3>2. CASE m = k /\ q = s
      BY <1>5, <1>11, <1>12, <2>2, <3>2
    <3>3. CASE ~(l = k /\ r = s) /\ ~(m = k /\ q = s)
      <4>1. Held(l, r) /\ Held(m, q) /\ slots[l][r].value = slots[m][q].value
        BY <1>11, <2>2, <3>3
      <4> QED
        BY <1>0, <4>1 DEF RowsOK
    <3> QED
      BY <3>1, <3>2, <3>3
  <2> QED
    BY <2>1, <2>2 DEF RowsOK
<1>14. AuditOK'
  <2>1. \A v \in Stated : fate[v] = "overridden" <=> fate'[v] = "overridden"
    BY <1>8, <1>9
  <2>2. \A v \in Stated' \ Stated : fate'[v] # "overridden"
    BY <1>7, <1>8
  <2>3. ASSUME NEW c \in Channel, NEW r \in Slot, Held(c, r)'
        PROVE  /\ slots'[c][r].source # "merged_provisional"
               /\ slots'[c][r].value \in Stated => Held(c, r) /\ slots'[c][r].value = slots[c][r].value
    <3>1. CASE c = k /\ r = s
      BY <1>2, <1>5, <1>12, <3>1
    <3>2. CASE ~(c = k /\ r = s)
      <4>1. Held(c, r) /\ slots'[c][r] = slots[c][r]
        BY <1>11, <2>3, <3>2, KeyForms
      <4> QED
        BY <1>0, <4>1 DEF AuditOK, ChannelsUnmerged
    <3> QED
      BY <3>1, <3>2
  <2>4. ASSUME NEW u \in Customer, NEW r \in Slot, Held(u, r)',
               slots'[u][r].source = "merged_provisional"
        PROVE  Held(u, r) /\ slots'[u][r] = slots[u][r]
    BY <1>5, <1>11, <1>12, <2>4, KeyForms
  <2>5. UNCHANGED mergeAudit /\ links \subseteq links' /\ Stated \subseteq Stated'
    BY <1>3, <1>7
  <2> QED
    BY <1>0, <2>1, <2>2, <2>3, <2>4, <2>5, AuditKept
<1>15. LogOK'
  <2>1. \A w \in {"cleared", "self_cleared", "swept"} : Fated(w)' = Fated(w)
    BY <1>2, <1>7, <1>8, <1>9 DEF Fated
  <2> QED
    BY <1>0, <1>3, <2>1 DEF LogOK
<1>16. LocksOK' /\ \A i \in Turn : TurnOK(i)'
  <2>1. ASSUME NEW c \in Channel, NEW r \in Slot, Locked(c, r)
        PROVE  Held(c, r)' /\ slots'[c][r].value = slots[c][r].value
    <3>1. ~(c = k /\ r = s)
      BY <1>3, <2>1
    <3>2. PICK i \in Turn : HoldsLock(i, c, r)
      BY <2>1 DEF Locked
    <3>3. Held(c, r)
      BY <3>2 DEF HoldsLock, MemoryInv, TurnOK
    <3> QED
      BY <1>6, <3>1, <3>3, KeyForms DEF Held
  <2>2. UNCHANGED turn /\ links \subseteq links'
    BY <1>3
  <2> QED
    BY <2>1, <2>2, LocksKept
<1> QED
  BY <1>10, <1>13, <1>14, <1>15, <1>16 DEF MemoryInv

(***************************************************************************)
(* The merge                                                               *)
(***************************************************************************)
\* The rows a merge of key k onto customer u moves and overrides, apart from the
\* turn that makes it.
MergedRows(k, u, from, moved) ==
  /\ \A s \in Slot : slots'[k][s] = NoRow
  /\ \A s \in Slot : IF s \in moved
                       THEN /\ slots'[u][s] \in Row
                            /\ slots'[u][s].value = slots[k][s].value
                            /\ slots'[u][s].source = "merged_provisional"
                       ELSE slots'[u][s] = slots[u][s]
  /\ \A l \in Key \ {k, u}, s \in Slot : slots'[l][s] = slots[l][s]
  /\ fate' = [v \in Stated |-> IF \E s \in from \ moved : slots[k][s].value = v
                                 THEN "overridden" ELSE fate[v]]

\* The audit row it writes.
AuditedAs(a, k, u, from, moved) ==
  /\ a \in AuditRow /\ a.from = k /\ a.to = u
  /\ a.moved = {slots[k][s].value : s \in moved}
  /\ a.overridden = {slots[k][s].value : s \in from \ moved}
  /\ mergeAudit' = Append(mergeAudit, a)

\* Every row after the merge has been a row before, at the key or where it is.
LEMMA MergeOrigin ==
  ASSUME RowsOK, NEW k \in Channel, NEW u \in Customer, NEW from \in SUBSET Slot, NEW moved \in SUBSET from,
         \A s \in from : Held(k, s), MergedRows(k, u, from, moved),
         NEW l \in Key, NEW r \in Slot, Held(l, r)'
  PROVE  /\ l # k
         /\ slots'[l][r].value \in Stated /\ fate'[slots'[l][r].value] = "kept"
         /\ \/ l = u /\ r \in moved /\ Held(k, r) /\ slots'[l][r].value = slots[k][r].value
            \/ Held(l, r) /\ slots'[l][r] = slots[l][r]
<1>0. k # u /\ k \in Key /\ u \in Key
  BY KeyForms
<1>1. l # k
  BY DEF MergedRows, Held
<1>2. ASSUME NEW o \in Key, Held(o, r), slots'[l][r].value = slots[o][r].value,
             o = k => r \in moved
      PROVE  slots'[l][r].value \in Stated /\ fate'[slots'[l][r].value] = "kept"
  <2>1. slots[o][r].value \in Stated /\ fate[slots[o][r].value] = "kept"
    BY <1>2 DEF RowsOK
  <2>2. ASSUME NEW s \in from \ moved, slots[k][s].value = slots[o][r].value PROVE FALSE
    <3>1. Held(k, s) /\ s \in Slot
      BY <2>2
    <3>2. o = k /\ r = s
      BY <1>0, <1>2, <2>2, <3>1 DEF RowsOK
    <3> QED
      BY <1>2, <2>2, <3>2
  <2> QED
    BY <1>2, <2>1, <2>2 DEF MergedRows
<1>3. CASE l = u /\ r \in moved
  <2>1. Held(k, r) /\ slots'[l][r].value = slots[k][r].value
    BY <1>3 DEF MergedRows
  <2> QED
    BY <1>0, <1>1, <1>2, <1>3, <2>1
<1>4. CASE ~(l = u /\ r \in moved)
  <2>1. slots'[l][r] = slots[l][r]
    BY <1>1, <1>4 DEF MergedRows
  <2>2. Held(l, r)
    BY <2>1 DEF Held
  <2> QED
    BY <1>1, <1>2, <2>1, <2>2
<1> QED
  BY <1>3, <1>4

LEMMA MergeKeepsRows ==
  ASSUME RowsOK, NEW k \in Channel, NEW u \in Customer, NEW from \in SUBSET Slot, NEW moved \in SUBSET from,
         \A s \in from : Held(k, s), MergedRows(k, u, from, moved), Stated' = Stated
  PROVE  RowsOK'
<1>1. ASSUME NEW l \in Key, NEW r \in Slot, Held(l, r)'
      PROVE  slots'[l][r].value \in Stated' /\ fate'[slots'[l][r].value] = "kept"
  BY <1>1, MergeOrigin
<1>0. ASSUME NEW l \in Key, NEW r \in Slot, Held(l, r)'
      PROVE  /\ l # k
             /\ \/ l = u /\ r \in moved /\ Held(k, r) /\ slots'[l][r].value = slots[k][r].value
                \/ Held(l, r) /\ slots'[l][r] = slots[l][r]
  BY <1>0, MergeOrigin
<1>2. ASSUME NEW l \in Key, NEW r \in Slot, NEW m \in Key, NEW q \in Slot,
             Held(l, r)', Held(m, q)', slots'[l][r].value = slots'[m][q].value
      PROVE  l = m /\ r = q
  <2>1. /\ l # k
        /\ \/ l = u /\ r \in moved /\ Held(k, r) /\ slots'[l][r].value = slots[k][r].value
           \/ Held(l, r) /\ slots'[l][r] = slots[l][r]
    BY <1>0, <1>2
  <2>2. /\ m # k
        /\ \/ m = u /\ q \in moved /\ Held(k, q) /\ slots'[m][q].value = slots[k][q].value
           \/ Held(m, q) /\ slots'[m][q] = slots[m][q]
    BY <1>0, <1>2
  <2>3. \A a, b \in Key : Held(a, r) /\ Held(b, q) /\ slots[a][r].value = slots[b][q].value => a = b /\ r = q
    BY DEF RowsOK
  <2> QED
    BY <1>2, <2>1, <2>2, <2>3, KeyForms
<1> QED
  BY <1>1, <1>2 DEF RowsOK

\* The audit row of a merge names values no earlier row names.
LEMMA MergeIsAudited ==
  ASSUME MemoryTyped, RowsOK, AuditOK, NEW k \in Channel, NEW u \in Customer, <<k, u>> \in links,
         NEW from \in SUBSET Slot, NEW moved \in SUBSET from,
         \A s \in from : Held(k, s), MergedRows(k, u, from, moved), Stated' = Stated, links' = links,
         NEW a, AuditedAs(a, k, u, from, moved)
  PROVE  AuditOK'
<1>0. NamedOnce /\ OverriddenIsNamed /\ ChannelsUnmerged /\ MergedIsNamed /\ mergeAudit \in Seq(AuditRow)
  BY DEF AuditOK, MemoryTyped
<1> USE DEF AuditedAs
<1>1. PICK N : N = Len(mergeAudit) + 1
  OBVIOUS
<1>2. /\ DOMAIN mergeAudit' = DOMAIN mergeAudit \cup {N} /\ N \notin DOMAIN mergeAudit
      /\ mergeAudit'[N] = a /\ \A n \in DOMAIN mergeAudit : mergeAudit'[n] = mergeAudit[n]
  BY <1>0, <1>1
<1>3. \A n \in DOMAIN mergeAudit : mergeAudit'[n].moved \cup mergeAudit'[n].overridden = Named(n)
  BY <1>2 DEF Named
<1>4. ASSUME NEW v \in a.moved \cup a.overridden
      PROVE  \E s \in from : /\ v = slots[k][s].value /\ Held(k, s) /\ v \in Stated /\ fate[v] = "kept"
                             /\ \A n \in DOMAIN mergeAudit : v \notin Named(n)
  <2>1. PICK s \in from : v = slots[k][s].value
    OBVIOUS
  <2>2. Held(k, s) /\ s \in Slot /\ k \in Key
    BY KeyForms
  <2> QED
    BY <1>0, <2>1, <2>2 DEF RowsOK, ChannelsUnmerged
<1>5. /\ \A v \in a.overridden : v \in Stated /\ fate'[v] = "overridden"
      /\ \A v \in Stated \ a.overridden : fate'[v] = fate[v]
  <2>1. \A v \in a.overridden : v \in Stated
    BY <1>4
  <2> QED
    BY <2>1 DEF MergedRows
<1>6. NamedOnce'
  <2>1. ASSUME NEW n \in DOMAIN mergeAudit
        PROVE  /\ Named(n) \subseteq Stated /\ <<mergeAudit[n].from, mergeAudit[n].to>> \in links
               /\ \A v \in mergeAudit[n].overridden : fate'[v] = "overridden"
               /\ Named(n) \cap (a.moved \cup a.overridden) = {}
               /\ \A m \in DOMAIN mergeAudit : m # n => Named(m) \cap Named(n) = {}
    <3>1. \A v \in mergeAudit[n].overridden : v \in Stated /\ fate[v] = "overridden"
      BY <1>0 DEF NamedOnce, Named
    <3>2. \A v \in mergeAudit[n].overridden : fate'[v] = "overridden"
      BY <1>5, <3>1
    <3> QED
      BY <1>0, <1>4, <3>2 DEF NamedOnce
  <2>2. a.moved \cup a.overridden \subseteq Stated
    BY <1>4
  <2>3. ASSUME NEW n \in DOMAIN mergeAudit'
        PROVE  /\ Named(n)' \subseteq Stated'
               /\ <<mergeAudit'[n].from, mergeAudit'[n].to>> \in links'
               /\ \A v \in mergeAudit'[n].overridden : fate'[v] = "overridden"
    <3>1. CASE n = N
      BY <1>2, <1>5, <2>2, <3>1 DEF Named
    <3>2. CASE n \in DOMAIN mergeAudit
      BY <1>2, <1>3, <2>1, <3>2 DEF Named
    <3> QED
      BY <1>2, <2>3, <3>1, <3>2
  <2>4. ASSUME NEW n \in DOMAIN mergeAudit', NEW m \in DOMAIN mergeAudit', m # n
        PROVE  Named(m)' \cap Named(n)' = {}
    <3>1. \A x \in DOMAIN mergeAudit : Named(x)' = Named(x)
      BY <1>3 DEF Named
    <3>2. Named(N)' = a.moved \cup a.overridden
      BY <1>2 DEF Named
    <3>3. CASE m = N
      BY <1>2, <2>1, <2>4, <3>1, <3>2, <3>3
    <3>4. CASE n = N
      BY <1>2, <2>1, <2>4, <3>1, <3>2, <3>4
    <3>5. CASE m # N /\ n # N
      BY <1>2, <2>1, <2>4, <3>1, <3>5
    <3> QED
      BY <3>3, <3>4, <3>5
  <2> QED
    BY <2>3, <2>4 DEF NamedOnce
<1>7. OverriddenIsNamed'
  <2>1. ASSUME NEW v \in Stated, fate'[v] = "overridden"
        PROVE  \E n \in DOMAIN mergeAudit' : v \in mergeAudit'[n].overridden
    <3>1. CASE v \in a.overridden
      BY <1>2, <3>1
    <3>2. CASE v \notin a.overridden
      <4>1. fate[v] = "overridden"
        BY <1>5, <2>1, <3>2
      <4>2. PICK n \in DOMAIN mergeAudit : v \in mergeAudit[n].overridden
        BY <1>0, <4>1 DEF OverriddenIsNamed
      <4> QED
        BY <1>2, <4>2
    <3> QED
      BY <3>1, <3>2
  <2> QED
    BY <2>1 DEF OverriddenIsNamed
<1>8. ChannelsUnmerged'
  <2>1. ASSUME NEW c \in Channel, NEW r \in Slot, Held(c, r)'
        PROVE  /\ slots'[c][r].source # "merged_provisional"
               /\ \A n \in DOMAIN mergeAudit' : slots'[c][r].value \notin Named(n)'
    <3>0. c \in Key /\ c # u /\ k \in Key
      BY KeyForms
    <3>1. c # k /\ slots'[c][r] = slots[c][r]
      BY <2>1, <3>0 DEF MergedRows, Held
    <3>2. Held(c, r)
      BY <2>1, <3>1 DEF Held
    <3>3. slots[c][r].value \notin a.moved \cup a.overridden
      <4>1. SUFFICES ASSUME slots[c][r].value \in a.moved \cup a.overridden PROVE FALSE
        OBVIOUS
      <4>2. PICK s \in from : slots[c][r].value = slots[k][s].value /\ Held(k, s)
        BY <1>4, <4>1
      <4> QED
        BY <3>0, <3>1, <3>2, <4>2 DEF RowsOK
    <3>4. ASSUME NEW n \in DOMAIN mergeAudit' PROVE slots'[c][r].value \notin Named(n)'
      <4>1. CASE n = N
        BY <1>2, <3>1, <3>3, <4>1 DEF Named
      <4>2. CASE n \in DOMAIN mergeAudit
        BY <1>0, <1>3, <3>1, <3>2, <4>2 DEF ChannelsUnmerged, Named
      <4> QED
        BY <1>2, <3>4, <4>1, <4>2
    <3> QED
      BY <1>0, <3>1, <3>2, <3>4 DEF ChannelsUnmerged
  <2> QED
    BY <2>1 DEF ChannelsUnmerged
<1>9. MergedIsNamed'
  <2>1. ASSUME NEW w \in Customer, NEW r \in Slot, Held(w, r)', slots'[w][r].source = "merged_provisional"
        PROVE  \E n \in DOMAIN mergeAudit' : slots'[w][r].value \in mergeAudit'[n].moved /\ mergeAudit'[n].to = w
    <3>0. w \in Key /\ w # k
      BY KeyForms
    <3>1. CASE w = u /\ r \in moved
      <4>1. slots'[w][r].value = slots[k][r].value
        BY <3>1 DEF MergedRows
      <4> QED
        BY <1>2, <3>1, <4>1
    <3>2. CASE ~(w = u /\ r \in moved)
      <4>1. slots'[w][r] = slots[w][r]
        BY <3>0, <3>2 DEF MergedRows
      <4>2. Held(w, r)
        BY <2>1, <4>1 DEF Held
      <4>3. PICK n \in DOMAIN mergeAudit : slots[w][r].value \in mergeAudit[n].moved /\ mergeAudit[n].to = w
        BY <1>0, <2>1, <4>1, <4>2 DEF MergedIsNamed
      <4> QED
        BY <1>2, <4>1, <4>3
    <3> QED
      BY <3>1, <3>2
  <2> QED
    BY <2>1 DEF MergedIsNamed
<1> QED
  BY <1>6, <1>7, <1>8, <1>9 DEF AuditOK

LEMMA MergeStepKeeps ==
  ASSUME MemoryInv, NEW i \in Turn, MergeRows(i)
  PROVE  MemoryInv'
<1>0. /\ MemoryTyped /\ RowsOK /\ AuditOK /\ LocksOK /\ LogOK /\ TurnOK(i)
      /\ slots \in [Key -> SlotRows] /\ turn \in [Turn -> TurnRow] /\ turn[i] \in TurnRow
      /\ turn[i].at = "locked" /\ UNCHANGED <<links, memoryLog>>
      /\ links \subseteq Channel \X Customer
      /\ mergeAudit \in Seq(AuditRow)
  BY DEF MemoryInv, MemoryTyped, MergeRows
<1>1. turn[i] \in [at: {"merge", "locked", "run"}, channel: Channel, customer: Customer \cup {0},
                   todo: SUBSET Channel, read: SlotRows, took: SUBSET Nat]
  BY <1>0, TurnForms
<1>2. PICK k \in Channel : k = provisional_key(turn[i]) /\ <<k, turn[i].customer>> \in links
  <2>1. provisional_key(turn[i]) \in turn[i].todo
    BY <1>0, <1>1, KeyLeft DEF TurnOK
  <2> QED
    BY <1>0, <1>1, <2>1 DEF TurnOK
<1>3. PICK u \in Customer : u = turn[i].customer
  BY <1>0 DEF TurnOK, is_verified
<1>4. k # u /\ k \in Key /\ u \in Key /\ <<k, u>> \in links
  BY <1>2, <1>3, KeyForms
<1>5. PICK read \in SlotRows : read = turn[i].read
  BY <1>1
<1>6. PICK from \in SUBSET Slot : from = {s \in Slot : read[s] # NoRow}
  OBVIOUS
<1>7. PICK moved \in SUBSET from : moved = {s \in from : slots[u][s] = NoRow}
  OBVIOUS
<1>8. \A s \in from : s \in Slot /\ read[s] \in Row /\ Held(k, s) /\ slots[k][s].value = read[s].value
  BY <1>0, <1>2, <1>5, <1>6 DEF TurnOK, SlotRows
<1>9. /\ slots' = [slots EXCEPT
           ![k] = NothingRead,
           ![u] = [s \in Slot |-> IF s \in moved
                                    THEN [value |-> read[s].value, source |-> "merged_provisional",
                                          days |-> 0]
                                    ELSE slots[u][s]]]
      /\ mergeAudit' = Append(mergeAudit,
           [from |-> k, to |-> u, moved |-> {read[s].value : s \in moved},
            overridden |-> {read[s].value : s \in from \ moved}])
      /\ fate' = [v \in Stated |-> IF \E s \in from \ moved : read[s].value = v
                                     THEN "overridden" ELSE fate[v]]
  BY <1>2, <1>3, <1>5, <1>6, <1>7 DEF MergeRows, Takes
<1>10. PICK merged : merged = [s \in Slot |-> IF s \in moved
                                 THEN [value |-> read[s].value, source |-> "merged_provisional", days |-> 0]
                                 ELSE slots[u][s]]
  OBVIOUS
<1>11. ASSUME NEW s \in moved
       PROVE  /\ merged[s] \in Row /\ merged[s].value = read[s].value
              /\ merged[s].source = "merged_provisional"
  <2>1. merged[s] = [value |-> read[s].value, source |-> "merged_provisional", days |-> 0] /\ read[s] \in Row
    BY <1>8, <1>10
  <2>2. read[s].value \in 1..MaxStated /\ 0 \in 0..VerifiedWindow + 1
    BY <2>1, RowForms, MemoryAssumption
  <2> QED
    BY <2>1, <2>2 DEF Row, Source
<1>12. merged \in SlotRows /\ \A s \in Slot \ moved : merged[s] = slots[u][s]
  <2>1. \A s \in Slot \ moved : merged[s] = slots[u][s] /\ slots[u][s] \in Row \cup {NoRow}
    BY <1>0, <1>4, <1>10 DEF SlotRows
  <2>2. merged = [s \in Slot |-> merged[s]]
    BY <1>10
  <2>3. \A s \in Slot : merged[s] \in Row \cup {NoRow}
    BY <1>11, <2>1
  <2> QED
    BY <2>1, <2>2, <2>3 DEF SlotRows
<1>13. /\ slots' \in [Key -> SlotRows] /\ slots'[k] = NothingRead /\ slots'[u] = merged
       /\ \A l \in Key \ {k, u} : slots'[l] = slots[l]
  <2>1. slots' = [slots EXCEPT ![k] = NothingRead, ![u] = merged]
    BY <1>9, <1>10
  <2>2. NothingRead \in SlotRows
    BY RowForms
  <2> QED
    BY <1>0, <1>4, <1>12, <2>1, <2>2
<1>14. Stated' = Stated
  BY <1>9 DEF Stated
<1>15. MergedRows(k, u, from, moved)
  <2>1. fate' = [v \in Stated |-> IF \E s \in from \ moved : slots[k][s].value = v
                                    THEN "overridden" ELSE fate[v]]
    BY <1>8, <1>9
  <2>2. \A s \in Slot : slots'[k][s] = NoRow
    BY <1>13, RowForms
  <2>3. \A s \in Slot : IF s \in moved
                          THEN /\ slots'[u][s] \in Row
                               /\ slots'[u][s].value = slots[k][s].value
                               /\ slots'[u][s].source = "merged_provisional"
                          ELSE slots'[u][s] = slots[u][s]
    BY <1>8, <1>11, <1>12, <1>13
  <2> QED
    BY <1>13, <2>1, <2>2, <2>3 DEF MergedRows
<1>16. RowsOK'
  BY <1>0, <1>8, <1>14, <1>15, MergeKeepsRows
<1>17. AuditOK' /\ mergeAudit' \in Seq(AuditRow)
  <2>1. PICK a : a = [from |-> k, to |-> u, moved |-> {read[s].value : s \in moved},
                      overridden |-> {read[s].value : s \in from \ moved}]
    OBVIOUS
  <2>2. /\ {read[s].value : s \in moved} = {slots[k][s].value : s \in moved}
        /\ {read[s].value : s \in from \ moved} = {slots[k][s].value : s \in from \ moved}
    BY <1>8
  <2>3. \A s \in from : read[s].value \in Nat
    BY <1>8, RowForms
  <2>4. PICK M \in SUBSET Nat : M = {read[s].value : s \in moved}
    BY <2>3
  <2>5. PICK O \in SUBSET Nat : O = {read[s].value : s \in from \ moved}
    BY <2>3
  <2>6. a = [from |-> k, to |-> u, moved |-> M, overridden |-> O]
    BY <2>1, <2>4, <2>5
  <2>7. a \in AuditRow /\ a.from = k /\ a.to = u /\ a.moved = M /\ a.overridden = O
    BY <2>6 DEF AuditRow
  <2>8. mergeAudit' = Append(mergeAudit, a)
    BY <1>9, <2>1
  <2>9. a.moved = {slots[k][s].value : s \in moved} /\ a.overridden = {slots[k][s].value : s \in from \ moved}
    BY <2>2, <2>4, <2>5, <2>7
  <2>10. mergeAudit' \in Seq(AuditRow)
    BY <1>0, <2>7, <2>8
  <2>11. AuditedAs(a, k, u, from, moved)
    BY <2>7, <2>8, <2>9 DEF AuditedAs
  <2>12. \A s \in from : Held(k, s)
    BY <1>8
  <2>13. links' = links /\ <<k, u>> \in links
    BY <1>0, <1>4
  <2>14. AuditOK'
    BY <1>0, <1>14, <1>15, <2>11, <2>12, <2>13, MergeIsAudited
  <2> QED
    BY <2>10, <2>14
<1>18. \A v \in Stated : fate'[v] = fate[v] \/ (fate[v] = "kept" /\ fate'[v] = "overridden")
  <2>1. ASSUME NEW s \in from PROVE fate[slots[k][s].value] = "kept"
    BY <1>0, <1>4, <1>8 DEF RowsOK
  <2> QED
    BY <1>8, <1>15, <2>1 DEF MergedRows
<1>19. LogOK'
  <2>1. \A w \in {"cleared", "self_cleared", "swept"} : Fated(w)' = Fated(w)
    BY <1>14, <1>18 DEF Fated
  <2> QED
    BY <1>0, <2>1 DEF LogOK
<1>20. PICK next : next = NextKey(turn[i])
  OBVIOUS
<1>21. PICK took \in SUBSET Nat : took = turn[i].took \cup {read[s].value : s \in moved}
  <2>1. \A s \in moved : read[s].value \in Nat
    BY <1>8, RowForms
  <2>2. turn[i].took \subseteq Nat
    BY <1>1
  <2> QED
    BY <2>1, <2>2
<1>22. PICK row : row = [next EXCEPT !.took = took]
  OBVIOUS
<1>23. turn' = [turn EXCEPT ![i] = row]
  BY <1>3, <1>5, <1>6, <1>7, <1>20, <1>21, <1>22 DEF MergeRows, Takes
<1>24. /\ row \in TurnRow /\ row.at = "merge" /\ is_verified(row) /\ row.channel = turn[i].channel
       /\ row.customer = turn[i].customer /\ \A c \in row.todo : <<c, turn[i].customer>> \in links
       /\ row.channel \notin row.todo
  <2>1. /\ next \in TurnRow /\ next.at = "merge" /\ is_verified(next)
        /\ next.channel = turn[i].channel /\ next.customer = turn[i].customer
        /\ \A c \in next.todo : <<c, turn[i].customer>> \in links
        /\ next.channel \notin next.todo
    BY <1>0, <1>20, KeyDone
  <2>2. next \in [at: {"merge", "locked", "run"}, channel: Channel, customer: Customer \cup {0},
                  todo: SUBSET Channel, read: SlotRows, took: SUBSET Nat]
    BY <2>1, TurnForms
  <2>3. /\ row \in [at: {"merge", "locked", "run"}, channel: Channel, customer: Customer \cup {0},
                     todo: SUBSET Channel, read: SlotRows, took: SUBSET Nat]
        /\ row.at = next.at /\ row.channel = next.channel /\ row.customer = next.customer
        /\ row.todo = next.todo
    BY <1>21, <1>22, <2>2
  <2>4. row \in TurnRow
    BY <2>3 DEF TurnRow
  <2> QED
    BY <2>1, <2>3, <2>4 DEF is_verified
<1>25. turn' \in [Turn -> TurnRow] /\ turn'[i] = row /\ \A j \in Turn : j # i => turn'[j] = turn[j]
  BY <1>0, <1>23, <1>24
<1>26. MemoryTyped'
  <2>1. \A v \in Stated' : fate'[v] \in Fate
    BY <1>0, <1>14, <1>18 DEF MemoryTyped, Fate
  <2> QED
    BY <1>0, <1>13, <1>14, <1>17, <1>25, <2>1 DEF MemoryTyped
<1>27. LocksOK'
  BY <1>0, <1>24, <1>25 DEF LocksOK
<1>28. ASSUME NEW j \in Turn PROVE TurnOK(j)'
  <2>1. CASE j = i
    <3>1. <<row.channel, row.customer>> \in links
      BY <1>0, <1>24 DEF TurnOK, is_verified
    <3> QED
      BY <1>0, <1>24, <1>25, <2>1, <3>1 DEF TurnOK
  <2>2. CASE j # i
    <3>0. turn'[j] = turn[j] /\ TurnOK(j) /\ turn[j] \in TurnRow
      BY <1>0, <1>25, <2>2 DEF MemoryInv
    <3>1. ASSUME turn[j].at = "locked" PROVE slots'[provisional_key(turn[j])] = slots[provisional_key(turn[j])]
      <4>1. turn[j].todo \subseteq Channel /\ turn[j].todo # {}
        BY <3>0, <3>1, TurnForms DEF TurnOK
      <4>2. PICK l \in Channel : l = provisional_key(turn[j])
        BY <4>1, KeyLeft
      <4>3. l # k
        BY <1>0, <1>2, <2>2, <3>1, <4>2 DEF LocksOK
      <4>4. l # u /\ l \in Key
        BY KeyForms
      <4> QED
        BY <1>13, <4>2, <4>3, <4>4
    <3> QED
      BY <1>0, <3>0, <3>1 DEF TurnOK, Held, is_verified
  <2> QED
    BY <2>1, <2>2
<1> QED
  BY <1>16, <1>17, <1>19, <1>26, <1>27, <1>28 DEF MemoryInv

(***************************************************************************)
(* The theorems                                                            *)
(***************************************************************************)
LEMMA BindingIsKey ==
  ASSUME MemoryInv, NEW i \in Turn, turn[i].at = "run"
  PROVE  binding_key(turn[i]) \in Key
<1>1. turn[i] \in TurnRow
  BY DEF MemoryInv, MemoryTyped
<1>2. turn[i].channel \in Channel
  BY <1>1, TurnForms
<1> QED
  BY <1>2, KeyForms DEF binding_key, is_verified

LEMMA MemoryStep == MemoryInv /\ [MemoryNext]_memoryVars => MemoryInv'
<1> SUFFICES ASSUME MemoryInv, [MemoryNext]_memoryVars PROVE MemoryInv'
  OBVIOUS
<1>1. ASSUME NEW i \in Turn, TurnStep(i) PROVE MemoryInv'
  <2>1. CASE \/ \E c \in Channel : match(i, c)
             \/ StartTurn(i)
             \/ LockRows(i)
             \/ MergeFails(i)
             \/ LoadMemory(i)
             \/ EndTurn(i)
    BY <2>1, QuietSteps
  <2>2. CASE MergeRows(i)
    BY <2>2, MergeStepKeeps
  <2>3. ASSUME NEW s \in Slot, upsert_preference(i, s) PROVE MemoryInv'
    <3>1. binding_key(turn[i]) \in Key
      BY <2>3, BindingIsKey DEF upsert_preference
    <3>2. WriteSlot(binding_key(turn[i]), s, "customer_explicit")
      BY <2>3 DEF upsert_preference
    <3> QED
      BY <3>1, <3>2, WriteStep
  <2>4. ASSUME NEW s \in Slot, clear_preference(i, s) PROVE MemoryInv'
    <3>1. binding_key(turn[i]) \in Key
      BY <2>4, BindingIsKey DEF clear_preference
    <3>2. ClearSlot(binding_key(turn[i]), s, "self_cleared")
      BY <2>4 DEF clear_preference
    <3> QED
      BY <3>1, <3>2, ClearStep
  <2> QED
    BY <1>1, <2>1, <2>2, <2>3, <2>4 DEF TurnStep, MergeStep
<1>2. ASSUME NEW k \in Key, NEW s \in Slot, correct_preference(k, s) PROVE MemoryInv'
  BY <1>2, WriteStep DEF correct_preference
<1>3. ASSUME NEW k \in Key, NEW s \in Slot, clear_preference_by_rep(k, s) PROVE MemoryInv'
  BY <1>3, ClearStep DEF clear_preference_by_rep
<1>4. CASE DayPasses \/ \E c \in Channel, u \in Customer : link_identity(c, u)
  BY <1>4, LinkAndAge
<1>5. CASE trigger_retention_sweep
  BY <1>5, SweepStep
<1>6. CASE UNCHANGED memoryVars
  <2>1. UNCHANGED <<slots, links, mergeAudit, memoryLog, fate>> /\ UNCHANGED turn
    BY <1>6 DEF memoryVars
  <2>2. RowsOK' /\ AuditOK' /\ LogOK'
    BY <2>1, RecordKept
  <2>3. MemoryTyped' /\ LocksOK' /\ \A i \in Turn : TurnOK(i)'
    BY <2>1 DEF MemoryInv, MemoryTyped, Stated, LocksOK, TurnOK, Held
  <2> QED
    BY <2>2, <2>3 DEF MemoryInv
<1> QED
  BY <1>1, <1>2, <1>3, <1>4, <1>5, <1>6 DEF MemoryNext, EmployeeStep

LEMMA MemoryInvariant == MemorySpec => []MemoryInv
  BY MemoryStart, MemoryStep, PTL DEF MemorySpec

LEMMA OnRecord == MemoryInv => MemoryAddsUp
<1> SUFFICES ASSUME MemoryInv PROVE MemoryAddsUp
  OBVIOUS
<1>0. MemoryTyped /\ RowsOK /\ NamedOnce /\ OverriddenIsNamed /\ ChannelsUnmerged /\ MergedIsNamed /\ LogOK
  BY DEF MemoryInv, AuditOK
<1>1. MemoryTypeOK
  <2>1. Stated \subseteq 1..MaxStated
    <3>1. Stated = 1..Cardinality(Stated) /\ Cardinality(Stated) \in Nat /\ Cardinality(Stated) <= MaxStated
      BY <1>0, StatedNumbers
    <3> QED
      BY <3>1, MemoryAssumption
  <2>2. \A i \in Turn : turn[i].at \in {"idle", "queued", "merge", "locked", "run"}
    BY <1>0, TurnForms DEF MemoryTyped
  <2>3. \A i \in Turn : turn[i].at # "idle" /\ is_verified(turn[i]) =>
                          <<turn[i].channel, turn[i].customer>> \in links
    BY DEF MemoryInv, TurnOK
  <2> QED
    BY <1>0, <2>1, <2>2, <2>3 DEF MemoryTyped, MemoryTypeOK, SlotRows
<1>2. \A p \in Rows : p[1] \in Key /\ p[2] \in Slot /\ p = <<p[1], p[2]>> /\ Held(p[1], p[2])
  BY DEF Rows, Held
<1>3. \A p, q \in Rows : slots[p[1]][p[2]].value = slots[q[1]][q[2]].value => p = q
  <2> SUFFICES ASSUME NEW p \in Rows, NEW q \in Rows, slots[p[1]][p[2]].value = slots[q[1]][q[2]].value
               PROVE  p = q
    OBVIOUS
  <2>1. p[1] = q[1] /\ p[2] = q[2]
    BY <1>0, <1>2 DEF RowsOK
  <2> QED
    BY <1>2, <2>1
<1>4. ASSUME NEW v \in Stated
      PROVE  LET named == {n \in DOMAIN mergeAudit :
                             v \in mergeAudit[n].moved \cup mergeAudit[n].overridden} IN
             /\ Cardinality(named) <= 1
             /\ fate[v] = "overridden" <=> \E n \in named : v \in mergeAudit[n].overridden
  <2> DEFINE named == {n \in DOMAIN mergeAudit : v \in mergeAudit[n].moved \cup mergeAudit[n].overridden}
  <2>1. \A m, n \in named : m = n
    BY <1>0 DEF NamedOnce, Named
  <2>2. fate[v] = "overridden" <=> \E n \in named : v \in mergeAudit[n].overridden
    BY <1>0 DEF NamedOnce, OverriddenIsNamed
  <2> HIDE DEF named
  <2>3. Cardinality(named) <= 1
    <3>1. CASE named = {}
      BY <3>1, FS_EmptySet
    <3>2. CASE named # {}
      <4>1. PICK n \in named : TRUE
        BY <3>2
      <4>2. named = {n}
        BY <2>1, <4>1
      <4>3. Cardinality({n}) = 1
        BY FS_Singleton
      <4> QED
        BY <4>2, <4>3
    <3> QED
      BY <3>1, <3>2
  <2> QED
    BY <2>2, <2>3 DEF named
<1>5. \A p \in Rows : slots[p[1]][p[2]].source = "merged_provisional" =>
        \E n \in DOMAIN mergeAudit : /\ slots[p[1]][p[2]].value \in mergeAudit[n].moved
                                     /\ mergeAudit[n].to = p[1]
  <2> SUFFICES ASSUME NEW p \in Rows, slots[p[1]][p[2]].source = "merged_provisional"
               PROVE  \E n \in DOMAIN mergeAudit : /\ slots[p[1]][p[2]].value \in mergeAudit[n].moved
                                                   /\ mergeAudit[n].to = p[1]
    OBVIOUS
  <2>1. p[1] \notin Channel
    BY <1>0, <1>2 DEF ChannelsUnmerged
  <2>2. p[1] \in Customer
    BY <1>2, <2>1 DEF Key
  <2> QED
    BY <1>0, <1>2, <2>2 DEF MergedIsNamed
<1>6. MergedOnce
  BY <1>0, <1>3, <1>4, <1>5 DEF MergedOnce, NamedOnce
<1>7. RemovalsAreOnRecord
  BY <1>0 DEF LogOK, Fated, RemovalsAreOnRecord
<1> QED
  BY <1>1, <1>6, <1>7 DEF MemoryAddsUp

\* Every removal and every merge of a value is on record exactly once, and only a
\* snapshot that matched one customer merges, for every number of channels,
\* customers, slots and turns (handlers/memory.py, handlers/retention.py,
\* merge_provisional_memory).
THEOREM MemoryCorrect == MemorySpec => []MemoryAddsUp
  BY MemoryInvariant, OnRecord, PTL

\* Only a merge that commits writes an audit row, and it moves its own turn alone.
LEMMA AuditStep ==
  ASSUME MemoryInv, [MemoryNext]_memoryVars, mergeAudit' # mergeAudit
  PROVE  \E i \in Turn :
           /\ MergeRows(i)
           /\ \A j \in Turn \ {i} : turn'[j] = turn[j]
<1>1. PICK i \in Turn : MergeRows(i)
  <2>1. ~UNCHANGED memoryVars
    BY DEF memoryVars
  <2>2. ASSUME NEW i \in Turn, TurnStep(i), ~MergeRows(i) PROVE mergeAudit' = mergeAudit
    BY <2>2 DEF TurnStep, MergeStep, match, StartTurn, LockRows, MergeFails, LoadMemory, EndTurn,
                upsert_preference, clear_preference, WriteSlot, ClearSlot
  <2>3. ASSUME EmployeeStep PROVE mergeAudit' = mergeAudit
    BY <2>3 DEF EmployeeStep, correct_preference, clear_preference_by_rep, WriteSlot, ClearSlot
  <2>4. ASSUME \/ trigger_retention_sweep \/ DayPasses
               \/ \E c \in Channel, u \in Customer : link_identity(c, u)
        PROVE  mergeAudit' = mergeAudit
    BY <2>4 DEF trigger_retention_sweep, DayPasses, link_identity
  <2> QED
    BY <2>1, <2>2, <2>3, <2>4 DEF MemoryNext
<1>2. turn \in [Turn -> TurnRow]
  BY DEF MemoryInv, MemoryTyped
<1>3. PICK row : turn' = [turn EXCEPT ![i] = row]
  BY <1>1 DEF MergeRows
<1> QED
  BY <1>1, <1>2, <1>3

\* A value of the channel a turn runs on is overridden by nothing the same turn
\* moved from another channel: its own channel comes first, however many keys fail
\* (_linked_provisional_keys, merge_provisional_memory).
THEOREM OwnChannelFirstCorrect == MemorySpec => OwnChannelFirst
<1> DEFINE Own(i, s) ==
             LET t == turn[i] IN
             t.at = "locked" /\ turn'[i] # t /\ t.read[s] # NoRow /\ Len(mergeAudit') > Len(mergeAudit) =>
               LET audited == mergeAudit'[Len(mergeAudit')] IN
               audited.from = t.channel /\ t.read[s].value \in audited.overridden =>
                 slots[t.customer][s].value \notin t.took
           First == \A i \in Turn, s \in Slot : Own(i, s)
<1>1. MemoryInv /\ [MemoryNext]_memoryVars => First
  <2> SUFFICES ASSUME MemoryInv, [MemoryNext]_memoryVars, NEW i \in Turn, turn[i].at = "locked",
                      turn'[i] # turn[i], Len(mergeAudit') > Len(mergeAudit),
                      mergeAudit'[Len(mergeAudit')].from = turn[i].channel
               PROVE  turn[i].took = {}
    OBVIOUS
  <2>0. TurnOK(i) /\ mergeAudit \in Seq(AuditRow)
    BY DEF MemoryInv, MemoryTyped
  <2>1. mergeAudit' # mergeAudit
    BY <2>0
  <2>2. MergeRows(i)
    BY <2>1, AuditStep
  <2>3. PICK a : mergeAudit' = Append(mergeAudit, a) /\ a.from = provisional_key(turn[i])
    BY <2>2 DEF MergeRows
  <2>4. mergeAudit'[Len(mergeAudit')] = a
    BY <2>0, <2>3
  <2>5. provisional_key(turn[i]) \in turn[i].todo
    <3>1. turn[i] \in TurnRow /\ turn[i].todo # {}
      BY <2>0 DEF MemoryInv, MemoryTyped, TurnOK
    <3> QED
      BY <3>1, TurnForms, KeyLeft
  <2> QED
    BY <2>0, <2>3, <2>4, <2>5 DEF TurnOK
<1>2. MemorySpec => [][First]_memoryVars
  <2> HIDE DEF First
  <2> QED
    BY <1>1, MemoryInvariant, PTL DEF MemorySpec
<1> QED
  BY <1>2 DEF OwnChannelFirst
=============================================================================
