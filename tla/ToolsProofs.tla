---------------------------- MODULE ToolsProofs ----------------------------
(***************************************************************************)
(* Proofs about what a turn's tools do: the phone lookup of the ingress,   *)
(* the customer-scoped account reads, the knowledge search, and the agent  *)
(* loop that calls the tools.  Each part has a specification and an        *)
(* inductive invariant of its own; the parts share no state.               *)
(***************************************************************************)
EXTENDS AgentLoop, AccountReads, KnowledgeBase, PhoneLookup,
        FiniteSetTheorems, TLAPS

(***************************************************************************)
(* The phone lookup                                                        *)
(***************************************************************************)
LookupInv ==
  /\ lookup \in [phase: LookupPhase, at: Nat, answered: Nat]
  /\ elapsed \in Nat
  /\ AnswersInBudget

\* A call that is affordable when it starts ends within the budget.
LEMMA CallFits ==
  ASSUME elapsed \in Nat, Affordable(elapsed), VendorCall
  PROVE  elapsed' \in Nat /\ elapsed' <= Budget
<1>1. CallDeadline \in Nat /\ Budget = 2 * CallDeadline
  BY LookupAssumption DEF Budget
<1>2. Budget \div 2 = CallDeadline
  BY <1>1
<1>3. elapsed < CallDeadline
  BY <1>1, <1>2 DEF Affordable
<1>4. PICK d \in 1..CallDeadline : elapsed' = elapsed + d
  BY DEF VendorCall
<1> QED
  BY <1>1, <1>3, <1>4

\* The webhook's answer waits no longer than the budget, for any deadline of a
\* single call and any number of queries and pages, through the search and the
\* scan (_lookup_budget_s, _lookup_via_search, _lookup_via_pagination).
THEOREM LookupCorrect == LookupSpec => []AnswersInBudget
<1>1. LookupInit => LookupInv
  BY LookupAssumption
     DEF LookupInit, LookupInv, LookupPhase, AnswersInBudget, Budget
<1>2. LookupInv /\ [LookupNext]_lookupVars => LookupInv'
  <2> SUFFICES ASSUME LookupInv, [LookupNext]_lookupVars PROVE LookupInv'
    OBVIOUS
  <2>0. /\ lookup \in [phase: LookupPhase, at: Nat, answered: Nat] /\ elapsed \in Nat
        /\ elapsed <= Budget
    BY DEF LookupInv, AnswersInBudget
  <2>1. elapsed' \in Nat /\ elapsed' <= Budget
    <3>1. CASE VendorCall /\ Affordable(elapsed)
      BY <2>0, <3>1, CallFits
    <3>2. CASE elapsed' = elapsed
      BY <2>0, <3>2
    <3> QED
      BY <3>1, <3>2
         DEF LookupNext, SearchByPhone, SearchOver, ScanPage, ScanOver, CallRaises, lookupVars
  <2>2. lookup' \in [phase: LookupPhase, at: Nat, answered: Nat]
    <3>1. CASE SearchByPhone
      <4>0. lookup.phase = "search" /\ lookup.at + 1 \in Nat /\ lookup.answered + 1 \in Nat
        BY <2>0, <3>1 DEF SearchByPhone
      <4>1. CASE lookup' = [lookup EXCEPT !.at = @ + 1, !.answered = @ + 1]
        BY <2>0, <4>0, <4>1 DEF LookupPhase
      <4>2. CASE lookup' = [lookup EXCEPT !.phase = "done"]
        BY <2>0, <4>2 DEF LookupPhase
      <4>3. CASE lookup' = [lookup EXCEPT !.phase = "scan", !.at = 0]
        BY <2>0, <4>3 DEF LookupPhase
      <4> QED
        BY <3>1, <4>1, <4>2, <4>3 DEF SearchByPhone, LookupEnds
    <3>2. CASE SearchOver \/ ScanOver \/ CallRaises
      BY <2>0, <3>2 DEF SearchOver, ScanOver, CallRaises, LookupEnds, LookupPhase
    <3>3. CASE ScanPage
      BY <2>0, <3>3 DEF ScanPage, LookupEnds, LookupPhase
    <3>4. CASE UNCHANGED lookupVars
      BY <2>0, <3>4 DEF lookupVars
    <3> QED
      BY <3>1, <3>2, <3>3, <3>4 DEF LookupNext
  <2> QED
    BY <2>1, <2>2 DEF LookupInv, AnswersInBudget
<1>3. LookupInv => AnswersInBudget
  BY DEF LookupInv
<1> QED
  BY <1>1, <1>2, <1>3, PTL DEF LookupSpec

(***************************************************************************)
(* Account reads                                                           *)
(***************************************************************************)
Customer == Shopper \cup {Nobody}

ReadRow ==
  [state: {"idle", "vendor", "join", "done"}, action: Reads \cup {"none"}, who: Customer,
   page: SUBSET Nat, recognised: BOOLEAN, joined: Nat, kind: {"none", "raised", "answered"},
   invoices: SUBSET Nat, open: Nat]

ReadsTyped ==
  /\ remaps \in Nat
  /\ mapping \in [Shopper \X QboCustomer -> RowStatus]
  /\ \A g \in Shopper : IsFiniteSet(ForwardRows(g))
  /\ DOMAIN books \subseteq Nat
  /\ read \in [ReadCall -> ReadRow]

\* A list in a known shape has the first page in hand.
PageOK(row) == row.recognised /\ row.action # "get_invoice" => row.page = FirstPage

\* What row discloses is q's, and from the first page all of it.
DisclosedOf(row, q) ==
  /\ \A i \in row.invoices : books[i].customer = q
  /\ row.recognised /\ row.action # "get_invoice" =>
       row.invoices = {i \in FirstPage : books[i].customer = q}

\* A disclosure was of one account, and on the mapping of now also of the one
\* that goes with the customer.
ReadOK(r) ==
  /\ read[r].state # "done" => read[r].kind = "none"
  /\ read[r].state = "join" => read[r].who \in Shopper /\ read[r].action \in InvoiceReads
  /\ IsFiniteSet(read[r].page)
  /\ PageOK(read[r])
  /\ Disclosed(r) =>
       /\ read[r].who \in Shopper
       /\ read[r].joined <= remaps
       /\ read[r].joined = remaps =>
            \E q \in QboCustomer : Pair(read[r].who, q) /\ DisclosedOf(read[r], q)

\* Two disclosures on one state of the mapping.
ScopedOK(r, s) ==
  Disclosed(r) /\ Disclosed(s) /\ read[r].joined = read[s].joined =>
    /\ read[r].who # read[s].who => read[r].invoices \cap read[s].invoices = {}
    /\ read[r].who = read[s].who =>
         \E q \in QboCustomer :
           \A i \in read[r].invoices \cup read[s].invoices : books[i].customer = q

ReadsInv ==
  /\ ReadsTyped
  /\ \A r \in ReadCall : ReadOK(r)
  /\ \A r, s \in ReadCall : ScopedOK(r, s)

\* A read that does not move while the mapping stands.
LEMMA ReadKept ==
  ASSUME NEW s \in ReadCall, ReadOK(s), read'[s] = read[s], UNCHANGED <<books, mapping, remaps>>
  PROVE  ReadOK(s)'
<1>1. Disclosed(s)' <=> Disclosed(s)
  BY DEF Disclosed
<1>2. FirstPage' = FirstPage
  BY DEF FirstPage
<1>3. PageOK(read[s])' <=> PageOK(read[s])
  BY <1>2 DEF PageOK
<1>4. \A q : Pair(read[s].who, q)' <=> Pair(read[s].who, q)
  BY DEF Pair, ForwardRows, ReverseRows
<1>5. \A q : DisclosedOf(read[s], q)' <=> DisclosedOf(read[s], q)
  BY <1>2 DEF DisclosedOf
<1> QED
  BY <1>1, <1>3, <1>4, <1>5 DEF ReadOK

\* A step of one read that discloses no invoice.
LEMMA ReadMoves ==
  ASSUME ReadsInv, NEW r \in ReadCall, NEW row \in ReadRow, read' = [read EXCEPT ![r] = row],
         UNCHANGED <<connected, books, mapping, remaps>>,
         row.state # "done" => row.kind = "none",
         row.state = "join" => row.who \in Shopper /\ row.action \in InvoiceReads,
         IsFiniteSet(row.page), PageOK(row),
         row.kind = "answered" => row.action \notin InvoiceReads
  PROVE  ReadsInv'
<1>0. read \in [ReadCall -> ReadRow]
  BY DEF ReadsInv, ReadsTyped
<1>1. read'[r] = row /\ \A s \in ReadCall : s # r => read'[s] = read[s]
  BY <1>0
<1>2. ReadsTyped'
  <2>1. \A g \in Shopper : IsFiniteSet(ForwardRows(g))'
    BY DEF ReadsInv, ReadsTyped, ForwardRows
  <2> QED
    BY <1>0, <2>1 DEF ReadsInv, ReadsTyped
<1>3. /\ ~Disclosed(r)'
      /\ \A s \in ReadCall : s # r => (Disclosed(s)' <=> Disclosed(s))
  BY <1>1 DEF Disclosed
<1>4. ASSUME NEW s \in ReadCall PROVE ReadOK(s)'
  <2>1. CASE s = r
    <3>1. PageOK(read[s])'
      BY <1>1, <2>1 DEF PageOK, FirstPage
    <3> QED
      BY <1>1, <1>3, <2>1, <3>1 DEF ReadOK
  <2>2. CASE s # r
    <3>1. ReadOK(s) /\ read'[s] = read[s] /\ (Disclosed(s)' <=> Disclosed(s))
      BY <1>1, <1>3, <2>2 DEF ReadsInv
    <3> QED
      BY <3>1, ReadKept
  <2> QED
    BY <2>1, <2>2
<1>5. ASSUME NEW s \in ReadCall, NEW t \in ReadCall PROVE ScopedOK(s, t)'
  <2>1. CASE s = r \/ t = r
    BY <1>3, <2>1 DEF ScopedOK
  <2>2. CASE s # r /\ t # r
    <3>1. ScopedOK(s, t) /\ read'[s] = read[s] /\ read'[t] = read[t]
          /\ (Disclosed(s)' <=> Disclosed(s)) /\ (Disclosed(t)' <=> Disclosed(t))
      BY <1>1, <1>3, <2>2 DEF ReadsInv
    <3> QED
      BY <3>1 DEF ScopedOK
  <2> QED
    BY <2>1, <2>2
<1> QED
  BY <1>2, <1>4, <1>5 DEF ReadsInv

\* A governed failure shows nothing.
LEMMA RaiseStep ==
  ASSUME ReadsInv, NEW r \in ReadCall, Raise(r), UNCHANGED <<connected, books, mapping, remaps>>
  PROVE  ReadsInv'
<1> DEFINE row == [NoRead EXCEPT !.state = "done", !.kind = "raised"]
<1>1. read' = [read EXCEPT ![r] = row]
  BY DEF Raise
<1>2. row \in ReadRow /\ row.state = "done" /\ row.kind = "raised" /\ row.page = {}
      /\ row.recognised = FALSE
  BY DEF NoRead, ReadRow, Customer
<1> HIDE DEF row
<1>3. IsFiniteSet(row.page) /\ PageOK(row)
  BY <1>2, FS_EmptySet DEF PageOK
<1> QED
  BY <1>1, <1>2, <1>3, ReadMoves

LEMMA AskStep ==
  ASSUME ReadsInv, NEW r \in ReadCall, NEW who \in Customer, AskFor(r, who)
  PROVE  ReadsInv'
<1>1. UNCHANGED <<connected, books, mapping, remaps>>
  BY DEF AskFor
<1>2. CASE Raise(r)
  BY <1>1, <1>2, RaiseStep
<1>3. ASSUME NEW action \in Reads,
             read' = [read EXCEPT
               ![r] = [NoRead EXCEPT !.state = "vendor", !.action = action, !.who = who]]
      PROVE  ReadsInv'
  <2> DEFINE row == [NoRead EXCEPT !.state = "vendor", !.action = action, !.who = who]
  <2>1. row \in ReadRow /\ row.state = "vendor" /\ row.kind = "none" /\ row.page = {}
        /\ row.recognised = FALSE
    BY DEF NoRead, ReadRow, Customer
  <2>2. read' = [read EXCEPT ![r] = row]
    BY <1>3
  <2> HIDE DEF row
  <2>3. IsFiniteSet(row.page) /\ PageOK(row)
    BY <2>1, FS_EmptySet DEF PageOK
  <2> QED
    BY <1>1, <2>1, <2>2, <2>3, ReadMoves
<1> QED
  BY <1>2, <1>3 DEF AskFor

\* What the vendors answer.
LEMMA VendorAnswerStep ==
  ASSUME ReadsInv, NEW r \in ReadCall, VendorStep(r)
  PROVE  ReadsInv'
<1>0. /\ UNCHANGED <<connected, books, mapping, remaps>>
      /\ read[r] \in ReadRow /\ read[r].who \in Customer /\ ReadOK(r) /\ read[r].state = "vendor"
      /\ IsFiniteSet(read[r].page) /\ read[r].kind = "none" /\ PageOK(read[r])
  BY DEF VendorStep, ReadsInv, ReadsTyped, ReadRow, ReadOK, VendorFaults, RoutesRefuse,
         InvoicesReturn, OrderReturns, OrdersReturn, PublicReturns, PromiseReturns
<1>1. CASE Raise(r)
  BY <1>0, <1>1, RaiseStep
<1>2. ASSUME Answered(r), read[r].action \notin InvoiceReads PROVE ReadsInv'
  <2> DEFINE row == [read[r] EXCEPT !.state = "done", !.kind = "answered"]
  <2>1. /\ row \in ReadRow /\ row.state = "done" /\ row.kind = "answered"
        /\ row.action = read[r].action /\ row.page = read[r].page
        /\ row.recognised = read[r].recognised
    BY <1>0 DEF ReadRow
  <2>2. read' = [read EXCEPT ![r] = row]
    BY <1>2 DEF Answered
  <2> HIDE DEF row
  <2>3. IsFiniteSet(row.page) /\ row.action \notin InvoiceReads /\ PageOK(row)
    BY <1>0, <1>2, <2>1 DEF PageOK
  <2> QED
    BY <1>0, <2>1, <2>2, <2>3, ReadMoves
<1>3. ASSUME NEW row \in ReadRow, read' = [read EXCEPT ![r] = row], row.state = "join",
             row.kind = read[r].kind, row.who = read[r].who, row.action = read[r].action,
             IsFiniteSet(row.page), PageOK(row), read[r].who # Nobody,
             read[r].action \in InvoiceReads
      PROVE  ReadsInv'
  BY <1>0, <1>3, ReadMoves DEF Customer
<1>4. CASE VendorFaults(r) \/ RoutesRefuse(r)
  BY <1>1, <1>4 DEF VendorFaults, RoutesRefuse
<1>5. CASE OrderReturns(r)
  BY <1>1, <1>2, <1>5 DEF OrderReturns, InvoiceReads
<1>6. CASE OrdersReturn(r)
  BY <1>2, <1>6 DEF OrdersReturn, InvoiceReads
<1>7. CASE PublicReturns(r)
  BY <1>2, <1>7 DEF PublicReturns, InvoiceReads
<1>8. CASE PromiseReturns(r)
  BY <1>1, <1>2, <1>8 DEF PromiseReturns, InvoiceReads
<1>9. ASSUME InvoicesReturn(r), ~Raise(r) PROVE ReadsInv'
  <2>0. read[r].who # Nobody /\ read[r].action \in InvoiceReads
    BY <1>9 DEF InvoicesReturn
  <2>1. CASE read' = [read EXCEPT ![r].state = "join"]
    <3> DEFINE row == [read[r] EXCEPT !.state = "join"]
    <3>1. /\ row \in ReadRow /\ row.state = "join" /\ row.kind = read[r].kind /\ row.who = read[r].who
          /\ row.action = read[r].action /\ row.page = read[r].page
          /\ row.recognised = read[r].recognised
      BY <1>0 DEF ReadRow
    <3>2. read' = [read EXCEPT ![r] = row]
      BY <2>1
    <3> HIDE DEF row
    <3>3. PageOK(row) /\ IsFiniteSet(row.page)
      BY <1>0, <3>1 DEF PageOK
    <3> QED
      BY <1>3, <2>0, <3>1, <3>2, <3>3
  <2>2. ASSUME NEW page \in Pages(read[r].action),
               read' = [read EXCEPT ![r].state = "join", ![r].page = page, ![r].recognised = TRUE]
        PROVE  ReadsInv'
    <3>1. FirstPage \subseteq 1..PageSize
      BY DEF FirstPage
    <3>2. IsFiniteSet(1..PageSize)
      BY FS_Interval, ReadsAssumption
    <3>3. IsFiniteSet(FirstPage)
      BY <3>1, <3>2, FS_Subset
    <3>4. \A i : IsFiniteSet({i})
      BY FS_Singleton
    <3>5. /\ page = FirstPage \/ page = {} \/ \E i \in DOMAIN books : page = {i}
          /\ read[r].action # "get_invoice" => page = FirstPage
      BY DEF Pages, Numbered
    <3>6. DOMAIN books \subseteq Nat /\ FirstPage \subseteq Nat
      BY <3>1 DEF ReadsInv, ReadsTyped
    <3>7. IsFiniteSet(page)
      BY <3>3, <3>4, <3>5, FS_EmptySet
    <3>8. page \in SUBSET Nat
      BY <3>5, <3>6
    <3> DEFINE row == [[read[r] EXCEPT !.state = "join", !.page = page] EXCEPT !.recognised = TRUE]
    <3>9. /\ row \in ReadRow /\ row.state = "join" /\ row.kind = read[r].kind /\ row.who = read[r].who
          /\ row.action = read[r].action /\ row.page = page
      BY <1>0, <3>8 DEF ReadRow
    <3>10. read' = [read EXCEPT ![r] = row]
      BY <2>2
    <3> HIDE DEF row
    <3>11. PageOK(row) /\ IsFiniteSet(row.page)
      BY <3>5, <3>7, <3>9 DEF PageOK
    <3> QED
      BY <1>3, <2>0, <3>9, <3>10, <3>11
  <2> QED
    BY <1>9, <2>1, <2>2 DEF InvoicesReturn
<1> QED
  BY <1>1, <1>4, <1>5, <1>6, <1>7, <1>8, <1>9 DEF VendorStep

\* The join attributes one account to the customer who asks, and the invoices
\* of the page that are the account's are shown.
LEMMA DiscloseStep ==
  ASSUME ReadsInv, NEW r \in ReadCall, read[r].state = "join", "gadget" \in connected,
         NEW q \in QboCustomer, Pair(read[r].who, q), Disclose(r, q),
         UNCHANGED <<connected, books, mapping, remaps>>
  PROVE  ReadsInv'
<1>0. /\ read \in [ReadCall -> ReadRow] /\ read[r] \in ReadRow /\ remaps \in Nat
      /\ read[r].who \in Shopper /\ read[r].action \in InvoiceReads /\ IsFiniteSet(read[r].page)
      /\ read[r].page \subseteq Nat /\ PageOK(read[r])
  BY DEF ReadsInv, ReadsTyped, ReadOK, ReadRow
<1>1. CASE Raise(r)
  BY <1>1, RaiseStep
<1>2. CASE ~Raise(r)
  <2>1. PICK mine : mine = Owned(r, q)
    OBVIOUS
  <2>2. /\ mine \subseteq read[r].page /\ mine \subseteq Nat /\ \A i \in mine : books[i].customer = q
        /\ mine = {i \in read[r].page : books[i].customer = q}
    BY <1>0, <2>1 DEF Owned
  <2>3. PICK n \in Nat : n = Cardinality(Open(mine))
    <3>1. Open(mine) \subseteq read[r].page
      BY <2>2 DEF Open
    <3>2. IsFiniteSet(Open(mine))
      BY <1>0, <3>1, FS_Subset
    <3> QED
      BY <3>2, FS_CardinalityType
  <2> DEFINE row == [read[r] EXCEPT !.state = "done", !.kind = "answered", !.invoices = mine,
                                    !.joined = remaps, !.open = n]
  <2>4. read' = [read EXCEPT ![r] = row]
    BY <1>2, <2>1, <2>3 DEF Disclose
  <2>5. /\ row \in ReadRow /\ row.state = "done" /\ row.kind = "answered" /\ row.invoices = mine
        /\ row.joined = remaps /\ row.who = read[r].who /\ row.action = read[r].action
        /\ row.page = read[r].page /\ row.recognised = read[r].recognised
    BY <1>0, <2>2 DEF ReadRow
  <2> HIDE DEF row
  <2>6. read'[r] = row /\ \A s \in ReadCall : s # r => read'[s] = read[s]
    BY <1>0, <2>4
  <2>7. /\ Disclosed(r)'
        /\ \A s \in ReadCall : s # r => (Disclosed(s)' <=> Disclosed(s))
    BY <1>0, <2>5, <2>6 DEF Disclosed
  <2>10. ReadsTyped'
    <3>1. \A g \in Shopper : IsFiniteSet(ForwardRows(g))'
      BY DEF ReadsInv, ReadsTyped, ForwardRows
    <3> QED
      BY <1>0, <2>4, <2>5, <3>1 DEF ReadsInv, ReadsTyped
  <2>11. ASSUME NEW s \in ReadCall PROVE ReadOK(s)'
    <3>1. CASE s = r
      <4>1. Pair(read[r].who, q)'
        BY <2>5, <2>6 DEF Pair, ForwardRows, ReverseRows
      <4>2. FirstPage' = FirstPage
        BY DEF FirstPage
      <4>3. PageOK(read[r])'
        BY <1>0, <2>5, <2>6, <4>2 DEF PageOK
      <4>4. DisclosedOf(read[r], q)'
        BY <1>0, <2>2, <2>5, <2>6, <4>2 DEF DisclosedOf, PageOK
      <4>5. remaps <= remaps
        BY <1>0
      <4> QED
        BY <1>0, <2>5, <2>6, <3>1, <4>1, <4>3, <4>4, <4>5 DEF ReadOK
    <3>2. CASE s # r
      BY <2>6, <3>2, ReadKept DEF ReadsInv
    <3> QED
      BY <3>1, <3>2
  <2>12. ASSUME NEW s \in ReadCall, s # r, Disclosed(s), read[s].joined = remaps
         PROVE  /\ read[s].who # row.who => read[s].invoices \cap row.invoices = {}
                /\ read[s].who = row.who =>
                     \A i \in read[s].invoices \cup row.invoices : books[i].customer = q
    <3>1. PICK a \in QboCustomer :
            Pair(read[s].who, a) /\ \A i \in read[s].invoices : books[i].customer = a
      BY <2>12 DEF ReadsInv, ReadOK, DisclosedOf
    <3>2. /\ read[s].who # row.who => a # q
          /\ read[s].who = row.who => a = q
      BY <2>5, <3>1 DEF Pair
    <3> QED
      BY <2>2, <2>5, <3>1, <3>2
  <2>13. ASSUME NEW s \in ReadCall, NEW t \in ReadCall PROVE ScopedOK(s, t)'
    <3>1. CASE s # r /\ t # r
      <4>1. /\ ScopedOK(s, t) /\ read'[s] = read[s] /\ read'[t] = read[t]
            /\ (Disclosed(s)' <=> Disclosed(s)) /\ (Disclosed(t)' <=> Disclosed(t))
        BY <2>6, <2>7, <3>1 DEF ReadsInv
      <4> QED
        BY <4>1 DEF ScopedOK
    <3>2. CASE s = r /\ t = r
      BY <2>2, <2>5, <2>6, <3>2 DEF ScopedOK
    <3>3. CASE s = r /\ t # r
      BY <2>5, <2>6, <2>7, <2>12, <3>3 DEF ScopedOK
    <3>4. CASE s # r /\ t = r
      BY <2>5, <2>6, <2>7, <2>12, <3>4 DEF ScopedOK
    <3> QED
      BY <3>1, <3>2, <3>3, <3>4
  <2> QED
    BY <2>10, <2>11, <2>13 DEF ReadsInv
<1> QED
  BY <1>1, <1>2

LEMMA JoinAnswerStep ==
  ASSUME ReadsInv, NEW r \in ReadCall, JoinStep(r)
  PROVE  ReadsInv'
<1>0. UNCHANGED <<connected, books, mapping, remaps>>
  BY DEF JoinStep
<1>1. CASE Raise(r)
  BY <1>0, <1>1, RaiseStep
<1>2. ASSUME JoinReturns(r), ~Raise(r) PROVE ReadsInv'
  <2>1. /\ read[r].state = "join" /\ "gadget" \in connected
        /\ Agrees(read[r].who) /\ SoleOwner(read[r].who)
        /\ \E q \in ForwardRows(read[r].who) : Disclose(r, q)
    BY <1>2 DEF JoinReturns
  <2>2. PICK q \in ForwardRows(read[r].who) : Disclose(r, q)
    BY <2>1
  <2>3. PICK a \in ForwardRows(read[r].who) : ReverseRows(a) = {read[r].who}
    BY <2>1 DEF SoleOwner
  <2>4. \E x : ForwardRows(read[r].who) = {x}
    <3>1. Cardinality(ForwardRows(read[r].who)) = 1
      BY <2>1 DEF Agrees
    <3>2. IsFiniteSet(ForwardRows(read[r].who))
      BY <2>1 DEF ReadsInv, ReadsTyped, ReadOK
    <3> QED
      BY <3>1, <3>2, FS_Singleton
  <2>5. Pair(read[r].who, q) /\ q \in QboCustomer
    BY <2>2, <2>3, <2>4 DEF Pair, ForwardRows
  <2> QED
    BY <1>0, <2>1, <2>2, <2>5, DiscloseStep
<1> QED
  BY <1>1, <1>2 DEF JoinStep, JoinFaults

\* An edit of the mapping: no disclosure is of the mapping of now any more.
LEMMA RemapStep ==
  ASSUME ReadsInv, Remap
  PROVE  ReadsInv'
<1>0. /\ remaps \in Nat /\ remaps' = remaps + 1 /\ UNCHANGED <<connected, books, read>>
      /\ mapping \in [Shopper \X QboCustomer -> RowStatus] /\ read \in [ReadCall -> ReadRow]
  BY DEF Remap, ReadsInv, ReadsTyped
<1>1. PICK g \in Shopper, q \in QboCustomer, s \in RowStatus : mapping' = [mapping EXCEPT ![<<g, q>>] = s]
  BY DEF Remap
<1>2. ReadsTyped'
  <2>1. mapping' \in [Shopper \X QboCustomer -> RowStatus] /\ remaps' \in Nat
    BY <1>0, <1>1
  <2>2. ASSUME NEW c \in Shopper PROVE IsFiniteSet(ForwardRows(c))'
    <3>1. IsFiniteSet(ForwardRows(c))
      BY DEF ReadsInv, ReadsTyped
    <3>2. ForwardRows(c)' \subseteq ForwardRows(c) \cup {q}
      BY <1>0, <1>1 DEF ForwardRows
    <3>3. IsFiniteSet(ForwardRows(c) \cup {q})
      BY <3>1, FS_AddElement
    <3> QED
      BY <3>2, <3>3, FS_Subset
  <2> QED
    BY <1>0, <2>1, <2>2 DEF ReadsInv, ReadsTyped
<1>3. \A r \in ReadCall : Disclosed(r)' <=> Disclosed(r)
  BY <1>0 DEF Disclosed
<1>4. ASSUME NEW r \in ReadCall PROVE ReadOK(r)'
  <2>1. ReadOK(r) /\ read[r].joined \in Nat
    BY <1>0 DEF ReadsInv, ReadRow
  <2>2. Disclosed(r) => read[r].who \in Shopper /\ read[r].joined <= remaps
    BY <2>1 DEF ReadOK
  <2>3. read[r].joined <= remaps => read[r].joined <= remaps' /\ read[r].joined # remaps'
    BY <1>0, <2>1
  <2>4. PageOK(read[r])'
    BY <1>0, <2>1 DEF ReadOK, PageOK, FirstPage
  <2> QED
    BY <1>0, <1>3, <2>1, <2>2, <2>3, <2>4 DEF ReadOK
<1>5. ASSUME NEW r \in ReadCall, NEW t \in ReadCall PROVE ScopedOK(r, t)'
  BY <1>0, <1>3 DEF ReadsInv, ScopedOK
<1> QED
  BY <1>2, <1>4, <1>5 DEF ReadsInv

LEMMA ReadsInvariant == ReadsSpec => []ReadsInv
<1>1. ReadsInit => ReadsInv
  <2> SUFFICES ASSUME ReadsInit PROVE ReadsInv
    OBVIOUS
  <2>1. NoRead \in ReadRow
    BY DEF NoRead, ReadRow, Customer
  <2>2. \A g \in Shopper : ForwardRows(g) = {}
    BY DEF ReadsInit, ForwardRows
  <2>3. DOMAIN books \subseteq Nat
    <3>1. books \in Seq([customer: QboCustomer \union {Nobody},
                         balance: {"open", "paid", "unreadable"}])
      BY ReadsAssumption DEF ReadsInit
    <3> QED
      BY <3>1
  <2>4. ReadsTyped
    BY <2>1, <2>2, <2>3, FS_EmptySet DEF ReadsInit, ReadsTyped, RowStatus
  <2>5. \A r \in ReadCall : ~Disclosed(r)
    BY DEF ReadsInit, Disclosed, NoRead
  <2>6. ASSUME NEW r \in ReadCall PROVE ReadOK(r)
    <3>1. read[r] = NoRead /\ PageOK(NoRead)
      BY DEF ReadsInit, PageOK, NoRead
    <3> QED
      BY <2>5, <3>1, FS_EmptySet DEF ReadOK, NoRead
  <2> QED
    BY <2>4, <2>5, <2>6 DEF ReadsInv, ScopedOK
<1>2. ReadsInv /\ [ReadsNext]_readVars => ReadsInv'
  <2> SUFFICES ASSUME ReadsInv, [ReadsNext]_readVars PROVE ReadsInv'
    OBVIOUS
  <2>1. ASSUME NEW r \in ReadCall, TurnRead(r) \/ DispatchRead(r) PROVE ReadsInv'
    <3>1. ASSUME NEW who \in Customer, AskFor(r, who) PROVE ReadsInv'
      BY <3>1, AskStep
    <3>2. CASE Raise(r) /\ UNCHANGED <<connected, books, mapping, remaps>>
      BY <3>2, RaiseStep
    <3> QED
      BY <2>1, <3>1, <3>2 DEF TurnRead, DispatchRead, Customer
  <2>2. CASE UNCHANGED readVars
    <3>0. UNCHANGED <<connected, books, mapping, remaps, read>>
      BY <2>2 DEF readVars
    <3>1. /\ \A r \in ReadCall : Disclosed(r)' <=> Disclosed(r)
          /\ \A g \in Shopper : IsFiniteSet(ForwardRows(g))'
      BY <3>0 DEF Disclosed, ReadsInv, ReadsTyped, ForwardRows
    <3>2. ReadsTyped'
      BY <3>0, <3>1 DEF ReadsInv, ReadsTyped
    <3>3. ASSUME NEW r \in ReadCall PROVE ReadOK(r)'
      BY <3>0, ReadKept DEF ReadsInv
    <3>4. ASSUME NEW r \in ReadCall, NEW t \in ReadCall PROVE ScopedOK(r, t)'
      BY <3>0, <3>1 DEF ReadsInv, ScopedOK
    <3> QED
      BY <3>2, <3>3, <3>4 DEF ReadsInv
  <2> QED
    BY <2>1, <2>2, VendorAnswerStep, JoinAnswerStep, RemapStep DEF ReadsNext
<1> QED
  BY <1>1, <1>2, PTL DEF ReadsSpec

\* On one state of the mapping no invoice is shown to two customers and no
\* customer is shown two accounts, for any ledger and any edits of the mapping
\* between the reads (_resolve_forward_qbo_id, _assert_sole_trusted_owner).
THEOREM InvoicesCorrect == ReadsSpec => []InvoicesAreScoped
<1>1. ReadsInv => InvoicesAreScoped
  <2> SUFFICES ASSUME ReadsInv PROVE InvoicesAreScoped
    OBVIOUS
  <2>1. OneShopperPerInvoice
    BY DEF ReadsInv, ScopedOK, OneShopperPerInvoice
  <2>2. ASSUME NEW r \in ReadCall, NEW s \in ReadCall, Disclosed(r), Disclosed(s),
               read[r].joined = read[s].joined, read[r].who = read[s].who
        PROVE  Cardinality({books[i].customer : i \in read[r].invoices \union read[s].invoices}) <= 1
    <3>1. PICK q \in QboCustomer :
            \A i \in read[r].invoices \union read[s].invoices : books[i].customer = q
      BY <2>2 DEF ReadsInv, ScopedOK
    <3>2. {books[i].customer : i \in read[r].invoices \union read[s].invoices} \in SUBSET {q}
      BY <3>1
    <3>3. IsFiniteSet({q}) /\ Cardinality({q}) = 1
      BY FS_Singleton
    <3> QED
      BY <3>2, <3>3, FS_Subset
  <2>3. OneAccountPerShopper
    BY <2>2 DEF OneAccountPerShopper
  <2> QED
    BY <2>1, <2>3 DEF InvoicesAreScoped
<1> QED
  BY <1>1, ReadsInvariant, PTL

\* Invoices, or none, are disclosed of the one account the mapping trusts to the
\* customer and to nobody else when the join reads it, and of a page in a known
\* shape all the account has there, for any ledger, page size and number of edits
\* (_qbo_owned_invoices, qbo_customer_id_for).
THEOREM AnswersCorrect == ReadsSpec => []AnswersAreEarned
<1>1. ReadsInv => AnswersAreEarned
  BY DEF ReadsInv, ReadOK, DisclosedOf, AnswersAreEarned
<1> QED
  BY <1>1, ReadsInvariant, PTL

(***************************************************************************)
(* The knowledge search                                                    *)
(***************************************************************************)
Chunk == [of: Ingest, id: Nat]

IngestRow == [at: {"idle", "prepared", "loading", "done", "failed"}, rows: Nat]
SearchRow == [at: {"idle", "waiting", "blank", "answered"}, result: SUBSET Chunk]

RetrievalRow ==
  [at: {"idle", "started", "raised"}]
    \cup [at: {"rows read"}, rows: SUBSET Chunk]
    \cup [at: {"ranked", "building", "embedding"}, rows: SUBSET Chunk, ranked: SUBSET Chunk]
    \cup [at: {"returned"}, result: SUBSET Chunk]
    \cup [at: {"returned"}, rows: SUBSET Chunk, ranked: SUBSET Chunk, result: SUBSET Chunk]

KnowledgeTyped ==
  /\ chunks \subseteq Chunk
  /\ ingest \in [Ingest -> IngestRow]
  /\ search \in [Search -> SearchRow]
  /\ retrieval \in [Search -> RetrievalRow]
  /\ modelBuilds \in Nat /\ found \in Nat /\ missed \in Nat

\* The run that replaces the table has it for itself, so a retrieval between its
\* two reads has in hand what the table holds.
StoreOK ==
  /\ IndexIsOneCorpus
  /\ \A i \in Ingest : ingest[i].at = "loading" => tableLock = i
  /\ tableLock # Free => reading = {}

RetrievalOK(s) ==
  /\ At(s, "rows read") => s \in reading /\ retrieval[s].rows = chunks
  /\ "ranked" \in DOMAIN retrieval[s] => retrieval[s].ranked \subseteq retrieval[s].rows

\* Whoever builds the model, or embeds, holds its lock.
ModelOK ==
  /\ modelBuilds <= 1
  /\ modelLock = Warmer => modelBuilds = 0
  /\ \A s \in Search : At(s, "building") => modelLock = s /\ modelBuilds = 0
  /\ \A s \in Search : At(s, "embedding") => modelLock = s

AnsweredSearches == {s \in Search : search[s].at = "answered"}
FoundSearches == {s \in AnsweredSearches : search[s].result # {}}

CountsMatch ==
  /\ IsFiniteSet(AnsweredSearches)
  /\ found = Cardinality(FoundSearches)
  /\ found + missed = Cardinality(AnsweredSearches)

\* A retrieval is started by its search.
ThreadsOK == \A s \in Search : search[s].at = "idle" => At(s, "idle")

KnowledgeInv ==
  /\ KnowledgeTyped /\ StoreOK /\ ModelOK /\ CountsMatch /\ ThreadsOK
  /\ \A s \in Search : RetrievalOK(s)

\* The forms of a retrieval, by where it is.
LEMMA RetrievalForms ==
  ASSUME NEW r \in RetrievalRow
  PROVE  /\ r.at \in {"idle", "started"} => r \in [at: {"idle", "started", "raised"}]
         /\ r.at = "rows read" => r \in [at: {"rows read"}, rows: SUBSET Chunk]
         /\ r.at \in {"ranked", "building", "embedding"} =>
              r \in [at: {"ranked", "building", "embedding"}, rows: SUBSET Chunk, ranked: SUBSET Chunk]
         /\ r.at = "returned" => r.result \subseteq Chunk
  BY DEF RetrievalRow

LEMMA KnowledgeStart == KnowledgeInit => KnowledgeInv
<1> SUFFICES ASSUME KnowledgeInit PROVE KnowledgeInv
  OBVIOUS
<1>1. KnowledgeTyped
  <2>1. [at |-> "idle"] \in RetrievalRow
    BY DEF RetrievalRow
  <2>2. [at |-> "idle", rows |-> 0] \in IngestRow /\ [at |-> "idle", result |-> {}] \in SearchRow
    BY DEF IngestRow, SearchRow
  <2> QED
    BY <2>1, <2>2 DEF KnowledgeInit, KnowledgeTyped
<1>2. AnsweredSearches = {} /\ FoundSearches = {}
  BY DEF KnowledgeInit, AnsweredSearches, FoundSearches
<1>3. CountsMatch
  BY <1>2, FS_EmptySet DEF KnowledgeInit, CountsMatch
<1>4. StoreOK /\ ModelOK /\ ThreadsOK
  BY DEF KnowledgeInit, StoreOK, IndexIsOneCorpus, ModelOK, ThreadsOK, At, Free, Warmer
<1>5. \A s \in Search : RetrievalOK(s)
  BY DEF KnowledgeInit, RetrievalOK, At
<1> QED
  BY <1>1, <1>3, <1>4, <1>5 DEF KnowledgeInv

\* The counters and the answers are the searches' own.
LEMMA CountsKept ==
  ASSUME CountsMatch, UNCHANGED searchVars
  PROVE  CountsMatch'
  BY DEF CountsMatch, AnsweredSearches, FoundSearches, searchVars

\* A step of one retrieval: it may take or release the table and the model.
LEMMA RetrievalMoves ==
  ASSUME KnowledgeInv, NEW s \in Search, NEW row \in RetrievalRow,
         retrieval' = [retrieval EXCEPT ![s] = row], UNCHANGED <<storeVars, searchVars>>,
         \A t \in Search \ {s} : t \in reading => t \in reading',
         tableLock # Free => reading' = {},
         row.at = "rows read" => s \in reading' /\ row.rows = chunks,
         "ranked" \in DOMAIN row => row.ranked \subseteq row.rows,
         modelBuilds' \in Nat, ModelOK', ~At(s, "idle")
  PROVE  KnowledgeInv'
<1>0. retrieval \in [Search -> RetrievalRow] /\ KnowledgeTyped /\ StoreOK
  BY DEF KnowledgeInv, KnowledgeTyped
<1>1. retrieval'[s] = row /\ \A t \in Search : t # s => retrieval'[t] = retrieval[t]
  BY <1>0
<1>2. KnowledgeTyped'
  BY <1>0 DEF KnowledgeTyped, storeVars, searchVars
<1>3. StoreOK'
  BY <1>0 DEF StoreOK, IndexIsOneCorpus, storeVars
<1>4. CountsMatch'
  BY CountsKept DEF KnowledgeInv
<1>5. ASSUME NEW t \in Search PROVE RetrievalOK(t)'
  BY <1>1, <1>5 DEF KnowledgeInv, RetrievalOK, At, storeVars
<1>6. ThreadsOK'
  BY <1>1 DEF KnowledgeInv, ThreadsOK, At, searchVars
<1> QED
  BY <1>2, <1>3, <1>4, <1>5, <1>6 DEF KnowledgeInv

\* The model lock stays as it is for a retrieval that is nowhere near it.
LEMMA ModelKept ==
  ASSUME KnowledgeInv, NEW s \in Search, NEW row \in RetrievalRow,
         retrieval' = [retrieval EXCEPT ![s] = row], UNCHANGED modelVars,
         row.at \notin {"building", "embedding"}
  PROVE  ModelOK'
<1>1. retrieval \in [Search -> RetrievalRow] /\ ModelOK
  BY DEF KnowledgeInv, KnowledgeTyped
<1>2. retrieval'[s] = row /\ \A t \in Search : t # s => retrieval'[t] = retrieval[t]
  BY <1>1
<1> QED
  BY <1>1, <1>2 DEF ModelOK, At, modelVars

LEMMA ReadsOfATable ==
  ASSUME KnowledgeInv, NEW s \in Search,
         \/ ReadAllRows(s)
         \/ \E ranked \in SUBSET chunks : ReadRanking(s, ranked)
  PROVE  KnowledgeInv'
<1>0. /\ chunks \subseteq Chunk /\ retrieval[s] \in RetrievalRow /\ RetrievalOK(s)
      /\ modelBuilds \in Nat
  BY DEF KnowledgeInv, KnowledgeTyped
<1>1. CASE ReadAllRows(s)
  <2>1. PICK row : row = IF chunks = {} THEN [at |-> "returned", result |-> {}]
                         ELSE [at |-> "rows read", rows |-> chunks]
    OBVIOUS
  <2>2. row \in RetrievalRow
    BY <1>0, <2>1 DEF RetrievalRow
  <2>3. "ranked" \notin DOMAIN row
    BY <2>1
  <2>4. /\ chunks # {} => row.at = "rows read" /\ row.rows = chunks
        /\ chunks = {} => row.at = "returned"
    BY <2>1
  <2>5. /\ retrieval' = [retrieval EXCEPT ![s] = row] /\ tableLock = Free
        /\ UNCHANGED <<storeVars, modelVars, searchVars>>
        /\ reading' = IF chunks = {} THEN reading ELSE reading \cup {s}
    BY <1>1, <2>1 DEF ReadAllRows, HeldAfterFirstRead
  <2>6. ModelOK'
    BY <2>2, <2>4, <2>5, ModelKept
  <2>7. ~At(s, "idle")
    BY <1>1 DEF ReadAllRows, At
  <2> QED
    BY <1>0, <2>2, <2>3, <2>4, <2>5, <2>6, <2>7, RetrievalMoves DEF modelVars
<1>2. ASSUME NEW ranked \in SUBSET chunks, ReadRanking(s, ranked) PROVE KnowledgeInv'
  <2>0. At(s, "rows read") /\ retrieval[s].rows = chunks
    BY <1>0, <1>2 DEF ReadRanking, RetrievalOK
  <2>1. PICK row : row = [at |-> "ranked", rows |-> chunks, ranked |-> ranked]
    OBVIOUS
  <2>2. row \in RetrievalRow
    BY <1>0, <2>1 DEF RetrievalRow
  <2>3. row.at = "ranked" /\ row.ranked \subseteq row.rows
    BY <2>1
  <2>5. /\ retrieval' = [retrieval EXCEPT ![s] = row] /\ tableLock = Free
        /\ UNCHANGED <<storeVars, modelVars, searchVars>>
        /\ reading' = reading \ {s}
    BY <1>2, <2>0, <2>1 DEF ReadRanking
  <2>6. ModelOK'
    BY <2>2, <2>3, <2>5, ModelKept
  <2>7. ~At(s, "idle")
    BY <2>0 DEF At
  <2> QED
    BY <1>0, <2>2, <2>3, <2>5, <2>6, <2>7, RetrievalMoves DEF modelVars
<1> QED
  BY <1>1, <1>2

LEMMA UsesOfTheModel ==
  ASSUME KnowledgeInv, NEW s \in Search,
         \/ TakeModel(s)
         \/ ModelBuilt(s)
         \/ \E top \in SUBSET (1..MaxChunks) : Fuse(s, top)
         \/ RetrievalRaises(s)
  PROVE  KnowledgeInv'
<1>0. /\ chunks \subseteq Chunk /\ retrieval \in [Search -> RetrievalRow] /\ retrieval[s] \in RetrievalRow
      /\ RetrievalOK(s) /\ modelBuilds \in Nat /\ ModelOK /\ StoreOK
  BY DEF KnowledgeInv, KnowledgeTyped
<1>u. s # Free /\ s # Warmer
  BY KnowledgeAssumption
<1>1. ASSUME NEW at \in {"building", "embedding"},
             retrieval[s].at \in {"ranked", "building"},
             retrieval' = [retrieval EXCEPT ![s].at = at],
             UNCHANGED <<storeVars, reading, searchVars>>,
             modelBuilds' \in Nat, ModelOK'
      PROVE  KnowledgeInv'
  <2>1. retrieval[s] \in [at: {"ranked", "building", "embedding"}, rows: SUBSET Chunk, ranked: SUBSET Chunk]
    BY <1>0, <1>1, RetrievalForms
  <2>2. PICK row : row = [retrieval[s] EXCEPT !.at = at]
    OBVIOUS
  <2>3. row \in [at: {"ranked", "building", "embedding"}, rows: SUBSET Chunk, ranked: SUBSET Chunk]
        /\ row.at = at /\ row.rows = retrieval[s].rows /\ row.ranked = retrieval[s].ranked
    BY <2>1, <2>2
  <2>4. row \in RetrievalRow
    BY <2>3 DEF RetrievalRow
  <2>5. row.ranked \subseteq row.rows
    BY <1>0, <2>1, <2>3 DEF RetrievalOK
  <2>6. retrieval' = [retrieval EXCEPT ![s] = row]
    BY <1>1, <2>2
  <2>7. row.at # "rows read"
    BY <2>3
  <2>8. tableLock # Free => reading' = {}
    BY <1>0, <1>1 DEF StoreOK
  <2>9. ~At(s, "idle")
    BY <1>1 DEF At
  <2> QED
    BY <1>1, <2>4, <2>5, <2>6, <2>7, <2>8, <2>9, RetrievalMoves
<1>2. \A at : retrieval' = [retrieval EXCEPT ![s].at = at] =>
        retrieval'[s].at = at /\ \A t \in Search : t # s => retrieval'[t] = retrieval[t]
  <2>1. "at" \in DOMAIN retrieval[s]
    BY <1>0 DEF RetrievalRow
  <2> QED
    BY <1>0, <2>1
<1>3. CASE TakeModel(s)
  <2>1. PICK at : at = IF modelBuilds = 0 THEN "building" ELSE "embedding"
    OBVIOUS
  <2>2. retrieval' = [retrieval EXCEPT ![s].at = at]
    BY <1>3, <2>1 DEF TakeModel
  <2>3. modelLock' = s /\ modelBuilds' = modelBuilds /\ modelLock = Free
    BY <1>3 DEF TakeModel, ModelFree
  <2>a. \A t \in Search : ~At(t, "building") /\ ~At(t, "embedding")
    BY <1>0, <2>3, KnowledgeAssumption DEF ModelOK
  <2>4. ModelOK'
    BY <1>0, <1>u, <1>2, <2>a, <2>1, <2>2, <2>3 DEF ModelOK, At
  <2> QED
    BY <1>0, <1>1, <1>3, <2>1, <2>2, <2>3, <2>4 DEF TakeModel, At
<1>4. CASE ModelBuilt(s)
  <2>1. retrieval' = [retrieval EXCEPT ![s].at = "embedding"] /\ retrieval[s].at = "building"
        /\ modelLock' = modelLock /\ modelBuilds' = modelBuilds + 1
    BY <1>4 DEF ModelBuilt, At
  <2>2. modelLock = s /\ modelBuilds = 0
    BY <1>0, <2>1 DEF ModelOK, At
  <2>3. modelBuilds' = 1
    BY <2>1, <2>2
  <2>4. ModelOK'
    BY <1>0, <1>u, <1>2, <2>1, <2>2, <2>3 DEF ModelOK, At
  <2> QED
    BY <1>0, <1>1, <1>4, <2>1, <2>3, <2>4 DEF ModelBuilt
<1>5. ASSUME NEW row \in RetrievalRow, retrieval' = [retrieval EXCEPT ![s] = row],
             row.at \in {"returned", "raised"}, "ranked" \in DOMAIN row => row.ranked \subseteq row.rows,
             modelLock' = modelLock \/ (modelLock = s /\ modelLock' = Free),
             modelBuilds' = modelBuilds, reading' \in {reading, reading \ {s}},
             UNCHANGED <<storeVars, searchVars>>, ~At(s, "idle")
      PROVE  KnowledgeInv'
  <2>1. retrieval'[s] = row /\ \A t \in Search : t # s => retrieval'[t] = retrieval[t]
    BY <1>0, <1>5
  <2>2. ModelOK'
    BY <1>0, <1>5, <1>u, <2>1 DEF ModelOK, At, Free, Warmer
  <2>3. tableLock # Free => reading' = {}
    BY <1>0, <1>5 DEF StoreOK
  <2> QED
    BY <1>0, <1>5, <2>2, <2>3, RetrievalMoves
<1>6. ASSUME NEW top \in SUBSET (1..MaxChunks), Fuse(s, top) PROVE KnowledgeInv'
  <2>1. retrieval[s] \in [at: {"ranked", "building", "embedding"}, rows: SUBSET Chunk, ranked: SUBSET Chunk]
        /\ retrieval[s].at = "embedding"
    BY <1>0, <1>6, RetrievalForms DEF Fuse, At
  <2>2. retrieval[s].ranked \subseteq retrieval[s].rows /\ modelLock = s
    BY <1>0, <2>1 DEF RetrievalOK, ModelOK, At
  <2>3. PICK row : row = IF top \subseteq Ids(retrieval[s].rows)
          THEN [at |-> "returned", rows |-> retrieval[s].rows, ranked |-> retrieval[s].ranked,
                result |-> {c \in retrieval[s].rows : c.id \in top}]
          ELSE [at |-> "raised"]
    OBVIOUS
  <2>4. retrieval' = [retrieval EXCEPT ![s] = row]
    BY <1>6, <2>3 DEF Fuse
  <2>5. /\ row \in RetrievalRow /\ row.at \in {"returned", "raised"}
        /\ "ranked" \in DOMAIN row => row.ranked \subseteq row.rows
    <3>1. CASE top \subseteq Ids(retrieval[s].rows)
      <4>1. PICK result \in SUBSET Chunk : result = {c \in retrieval[s].rows : c.id \in top}
        BY <2>1
      <4>2. row = [at |-> "returned", rows |-> retrieval[s].rows, ranked |-> retrieval[s].ranked,
                   result |-> result]
        BY <2>3, <3>1, <4>1
      <4> QED
        BY <2>1, <2>2, <4>2 DEF RetrievalRow
    <3>2. CASE ~(top \subseteq Ids(retrieval[s].rows))
      <4>1. row = [at |-> "raised"]
        BY <2>3, <3>2
      <4> QED
        BY <4>1 DEF RetrievalRow
    <3> QED
      BY <3>1, <3>2
  <2>6. modelLock' = Free /\ UNCHANGED <<storeVars, reading, modelBuilds, searchVars>> /\ ~At(s, "idle")
    BY <1>6 DEF Fuse, At
  <2> QED
    BY <1>5, <2>2, <2>4, <2>5, <2>6
<1>7. CASE RetrievalRaises(s)
  <2>1. PICK row : row = [at |-> "raised"]
    OBVIOUS
  <2>2. row \in RetrievalRow /\ row.at = "raised" /\ "ranked" \notin DOMAIN row
    BY <2>1 DEF RetrievalRow
  <2>3. /\ retrieval' = [retrieval EXCEPT ![s] = row] /\ reading' = reading \ {s}
        /\ modelLock' = (IF modelLock = s THEN Free ELSE modelLock)
        /\ UNCHANGED <<storeVars, modelBuilds, searchVars>> /\ ~At(s, "idle")
    BY <1>7, <2>1 DEF RetrievalRaises, At
  <2> QED
    BY <1>5, <2>2, <2>3
<1> QED
  BY <1>3, <1>4, <1>6, <1>7

\* Ingestion: the table changes hands only while nobody reads it.
LEMMA IngestSteps ==
  ASSUME KnowledgeInv, NEW i \in Ingest, IngestStep(i)
  PROVE  KnowledgeInv'
<1>0. KnowledgeTyped /\ StoreOK /\ i # Free /\ ingest \in [Ingest -> IngestRow] /\ ingest[i] \in IngestRow
  BY KnowledgeAssumption DEF KnowledgeInv, KnowledgeTyped
<1>u. /\ UNCHANGED <<reading, retrieval>> /\ UNCHANGED modelVars /\ UNCHANGED searchVars
  BY DEF IngestStep, PrepareIngest, TruncateTable, CommitIngest, IngestFails
<1>1. ModelOK' /\ CountsMatch' /\ ThreadsOK'
  BY <1>u, CountsKept DEF KnowledgeInv, ModelOK, ThreadsOK, At, modelVars, searchVars
<1>2. ASSUME NEW row \in IngestRow, ingest' = [ingest EXCEPT ![i] = row], chunks' = chunks,
             \/ tableLock' = tableLock
             \/ tableLock = Free /\ reading = {} /\ tableLock' = i
             \/ tableLock = i /\ tableLock' = Free,
             row.at = "loading" => tableLock' = i, ingest[i].at # "done"
      PROVE  KnowledgeInv'
  <2>1. ingest'[i] = row /\ \A j \in Ingest : j # i => ingest'[j] = ingest[j]
    BY <1>0, <1>2
  <2>2. KnowledgeTyped'
    BY <1>0, <1>u, <1>2 DEF KnowledgeTyped, modelVars, searchVars
  <2>3. IndexIsOneCorpus'
    BY <1>0, <1>2, <2>1 DEF StoreOK, IndexIsOneCorpus
  <2>4. StoreOK'
    BY <1>0, <1>u, <1>2, <2>1, <2>3, KnowledgeAssumption DEF StoreOK
  <2>5. \A s \in Search : RetrievalOK(s)'
    BY <1>u, <1>2 DEF KnowledgeInv, RetrievalOK, At
  <2> QED
    BY <1>1, <2>2, <2>4, <2>5 DEF KnowledgeInv
<1>3. ASSUME NEW n \in 0..MaxChunks, PrepareIngest(i, n) PROVE KnowledgeInv'
  <2>1. n \in Nat
    BY KnowledgeAssumption
  <2>2. PICK row : row = [at |-> "prepared", rows |-> n]
    OBVIOUS
  <2>3. row \in IngestRow /\ row.at = "prepared"
    BY <2>1, <2>2 DEF IngestRow
  <2> QED
    BY <1>2, <1>3, <2>2, <2>3 DEF PrepareIngest
<1>4. ASSUME NEW at \in {"loading", "done", "failed"}, ingest' = [ingest EXCEPT ![i].at = at]
      PROVE  \E row \in IngestRow : /\ row.at = at /\ row.rows = ingest[i].rows
                                    /\ ingest' = [ingest EXCEPT ![i] = row]
  <2>1. [ingest[i] EXCEPT !.at = at] \in IngestRow /\ [ingest[i] EXCEPT !.at = at].at = at
        /\ [ingest[i] EXCEPT !.at = at].rows = ingest[i].rows
    BY <1>0, <1>4 DEF IngestRow
  <2> QED
    BY <1>4, <2>1
<1>5. CASE TruncateTable(i)
  <2>1. ingest' = [ingest EXCEPT ![i].at = "loading"]
    BY <1>5 DEF TruncateTable
  <2>2. PICK row \in IngestRow : row.at = "loading" /\ ingest' = [ingest EXCEPT ![i] = row]
    BY <1>4, <2>1
  <2> QED
    BY <1>2, <1>5, <2>2 DEF TruncateTable
<1>6. CASE IngestFails(i)
  <2>1. ingest' = [ingest EXCEPT ![i].at = "failed"]
    BY <1>6 DEF IngestFails
  <2>2. PICK row \in IngestRow : row.at = "failed" /\ ingest' = [ingest EXCEPT ![i] = row]
    BY <1>4, <2>1
  <2> QED
    BY <1>2, <1>6, <2>2 DEF IngestFails
<1>7. CASE CommitIngest(i)
  <2>1. /\ ingest' = [ingest EXCEPT ![i].at = "done"] /\ chunks' = Corpus(i, ingest[i].rows)
        /\ tableLock' = Free /\ ingest[i].at = "loading"
    BY <1>7 DEF CommitIngest, Reloaded
  <2>2. PICK row \in IngestRow : /\ row.at = "done" /\ row.rows = ingest[i].rows
                                 /\ ingest' = [ingest EXCEPT ![i] = row]
    BY <1>4, <2>1
  <2>3. ingest'[i] = row /\ \A j \in Ingest : j # i => ingest'[j] = ingest[j]
    BY <1>0, <2>2
  <2>4. tableLock = i /\ reading = {}
    BY <1>0, <2>1 DEF StoreOK
  <2>5. chunks' \subseteq Chunk
    BY <1>0, <2>1 DEF Corpus, Chunk, IngestRow
  <2>6. KnowledgeTyped'
    BY <1>0, <1>u, <2>2, <2>5 DEF KnowledgeTyped, modelVars, searchVars
  <2>7. IndexIsOneCorpus'
    BY <2>1, <2>2, <2>3 DEF IndexIsOneCorpus
  <2>8. StoreOK'
    BY <1>0, <1>u, <2>1, <2>2, <2>3, <2>4, <2>7 DEF StoreOK
  <2>9. \A s \in Search : RetrievalOK(s)'
    BY <1>u, <2>4 DEF KnowledgeInv, RetrievalOK, At
  <2> QED
    BY <1>1, <2>6, <2>8, <2>9 DEF KnowledgeInv
<1> QED
  BY <1>3, <1>5, <1>6, <1>7 DEF IngestStep

LEMMA WarmSteps ==
  ASSUME KnowledgeInv, WarmModel \/ \E ok \in BOOLEAN : WarmedModel(ok)
  PROVE  KnowledgeInv'
<1>0. KnowledgeTyped /\ StoreOK /\ ModelOK /\ modelBuilds \in Nat
  BY DEF KnowledgeInv, KnowledgeTyped
<1>1. UNCHANGED storeVars /\ UNCHANGED searchVars /\ UNCHANGED <<reading, retrieval>>
  BY DEF WarmModel, WarmedModel
<1>2. ModelOK' /\ modelBuilds' \in Nat
  <2>1. \A s \in Search : modelLock \in {Free, Warmer} => ~At(s, "building") /\ ~At(s, "embedding")
    BY <1>0, KnowledgeAssumption DEF ModelOK
  <2>2. /\ modelLock \in {Free, Warmer} /\ modelBuilds = 0 /\ modelBuilds' \in {0, 1}
        /\ modelLock' = Warmer => modelBuilds' = 0
    <3>1. CASE WarmModel
      BY <1>0, <3>1 DEF WarmModel
    <3>2. ASSUME NEW ok \in BOOLEAN, WarmedModel(ok)
          PROVE  modelLock = Warmer /\ modelLock' = Free /\ modelBuilds' \in {modelBuilds, modelBuilds + 1}
      BY <3>2 DEF WarmedModel
    <3>3. CASE \E ok \in BOOLEAN : WarmedModel(ok)
      <4>1. modelLock = Warmer /\ modelLock' = Free /\ modelBuilds' \in {modelBuilds, modelBuilds + 1}
        BY <3>2, <3>3
      <4>2. modelBuilds = 0
        BY <1>0, <4>1 DEF ModelOK
      <4>3. modelLock' # Warmer
        BY <4>1 DEF Free, Warmer
      <4> QED
        BY <4>1, <4>2, <4>3
    <3> QED
      BY <3>1, <3>3
  <2>3. \A s \in Search : ~At(s, "building")' /\ ~At(s, "embedding")'
    BY <1>1, <2>1, <2>2 DEF At
  <2> QED
    BY <2>2, <2>3 DEF ModelOK
<1>3. CountsMatch' /\ ThreadsOK'
  BY <1>1, CountsKept DEF KnowledgeInv, ThreadsOK, At, searchVars
<1>4. StoreOK' /\ KnowledgeTyped'
  BY <1>0, <1>1, <1>2 DEF StoreOK, IndexIsOneCorpus, KnowledgeTyped, storeVars, searchVars
<1>5. \A s \in Search : RetrievalOK(s)'
  BY <1>1 DEF KnowledgeInv, RetrievalOK, At, storeVars
<1> QED
  BY <1>2, <1>3, <1>4, <1>5 DEF KnowledgeInv

\* The caller's side of a search changes nothing but its row and a counter.
LEMMA SearchMoves ==
  ASSUME KnowledgeInv, UNCHANGED <<storeVars, reading, modelVars>>,
         search' \in [Search -> SearchRow], found' \in Nat, missed' \in Nat, CountsMatch',
         ThreadsOK',
         \/ UNCHANGED retrieval
         \/ \E s \in Search : /\ retrieval[s].at = "idle"
                              /\ retrieval' = [retrieval EXCEPT ![s].at = "started"]
  PROVE  KnowledgeInv'
<1>0. KnowledgeTyped /\ StoreOK /\ ModelOK /\ retrieval \in [Search -> RetrievalRow]
  BY DEF KnowledgeInv, KnowledgeTyped
<1>1. StoreOK'
  BY <1>0 DEF StoreOK, IndexIsOneCorpus, storeVars
<1>2. CASE UNCHANGED retrieval
  <2>1. KnowledgeTyped' /\ ModelOK'
    BY <1>0, <1>2 DEF KnowledgeTyped, ModelOK, At, storeVars, modelVars
  <2>2. \A s \in Search : RetrievalOK(s)'
    BY <1>2 DEF KnowledgeInv, RetrievalOK, At, storeVars
  <2> QED
    BY <1>1, <2>1, <2>2 DEF KnowledgeInv
<1>3. ASSUME NEW s \in Search, retrieval[s].at = "idle", retrieval' = [retrieval EXCEPT ![s].at = "started"]
      PROVE  KnowledgeInv'
  <2>0. retrieval[s] \in [at: {"idle", "started", "raised"}]
    BY <1>0, <1>3, RetrievalForms
  <2>1. PICK row : row = [retrieval[s] EXCEPT !.at = "started"]
    OBVIOUS
  <2>2. row \in [at: {"idle", "started", "raised"}] /\ row.at = "started" /\ "ranked" \notin DOMAIN row
    BY <2>0, <2>1
  <2>3. row \in RetrievalRow
    BY <2>2 DEF RetrievalRow
  <2>4. retrieval' = [retrieval EXCEPT ![s] = row]
    BY <1>3, <2>1
  <2>5. retrieval'[s] = row /\ \A t \in Search : t # s => retrieval'[t] = retrieval[t]
    BY <1>0, <2>4
  <2>6. retrieval' \in [Search -> RetrievalRow]
    BY <1>0, <2>3, <2>4
  <2>7. KnowledgeTyped' /\ ModelOK'
    <3>1. KnowledgeTyped'
      BY <1>0, <2>6 DEF KnowledgeTyped, storeVars, modelVars
    <3>2. ModelOK'
      BY <1>0, <2>2, <2>3, <2>4, ModelKept
    <3> QED
      BY <3>1, <3>2
  <2>8. ASSUME NEW t \in Search PROVE RetrievalOK(t)'
    BY <2>2, <2>5, <2>8 DEF KnowledgeInv, RetrievalOK, At, storeVars
  <2> QED
    BY <1>1, <2>7, <2>8 DEF KnowledgeInv
<1> QED
  BY <1>2, <1>3

\* One more search is answered, and counted as it was answered.
LEMMA AnswerCounts ==
  ASSUME KnowledgeInv, NEW s \in Search, search[s].at = "waiting", NEW result \in SUBSET Chunk,
         search' = [search EXCEPT ![s] = [at |-> "answered", result |-> result]],
         found' = IF result = {} THEN found ELSE found + 1,
         missed' = IF result = {} THEN missed + 1 ELSE missed
  PROVE  CountsMatch' /\ search' \in [Search -> SearchRow] /\ found' \in Nat /\ missed' \in Nat
<1>0. /\ search \in [Search -> SearchRow] /\ found \in Nat /\ missed \in Nat
      /\ IsFiniteSet(AnsweredSearches) /\ found = Cardinality(FoundSearches)
      /\ found + missed = Cardinality(AnsweredSearches)
  BY DEF KnowledgeInv, KnowledgeTyped, CountsMatch
<1>1. PICK row : row = [at |-> "answered", result |-> result]
  OBVIOUS
<1>2. row \in SearchRow /\ row.at = "answered" /\ row.result = result
  BY <1>1 DEF SearchRow
<1>3. /\ search' \in [Search -> SearchRow] /\ search'[s] = row
      /\ \A t \in Search : t # s => search'[t] = search[t]
  BY <1>0, <1>1, <1>2
<1>4. found' \in Nat /\ missed' \in Nat /\ found' + missed' = (found + missed) + 1
  BY <1>0
<1>5. AnsweredSearches' = AnsweredSearches \cup {s} /\ s \notin AnsweredSearches
  BY <1>2, <1>3 DEF AnsweredSearches
<1>6. /\ result = {} => FoundSearches' = FoundSearches
      /\ result # {} => FoundSearches' = FoundSearches \cup {s}
      /\ s \notin FoundSearches
  BY <1>2, <1>3, <1>5 DEF FoundSearches, AnsweredSearches
<1>7. IsFiniteSet(FoundSearches)
  <2>1. FoundSearches \subseteq AnsweredSearches
    BY DEF FoundSearches
  <2> QED
    BY <1>0, <2>1, FS_Subset
<1>8. /\ IsFiniteSet(AnsweredSearches \cup {s})
      /\ Cardinality(AnsweredSearches \cup {s}) = Cardinality(AnsweredSearches) + 1
      /\ Cardinality(FoundSearches \cup {s}) = Cardinality(FoundSearches) + 1
  BY <1>0, <1>5, <1>6, <1>7, FS_AddElement
<1>9. found' = Cardinality(FoundSearches)'
  BY <1>0, <1>6, <1>8
<1> QED
  BY <1>0, <1>3, <1>4, <1>5, <1>8, <1>9 DEF CountsMatch

LEMMA SearchSteps ==
  ASSUME KnowledgeInv, NEW s \in Search, SearchStep(s)
  PROVE  KnowledgeInv'
<1>0. /\ search \in [Search -> SearchRow] /\ search[s] \in SearchRow /\ retrieval[s] \in RetrievalRow
      /\ found \in Nat /\ missed \in Nat /\ CountsMatch /\ ThreadsOK
      /\ retrieval \in [Search -> RetrievalRow]
  BY DEF KnowledgeInv, KnowledgeTyped
<1>1. ASSUME NEW row \in SearchRow, search' = [search EXCEPT ![s] = row],
             search[s].at = "idle", row.at \in {"waiting", "blank"}, UNCHANGED <<found, missed>>,
             UNCHANGED retrieval \/ retrieval' = [retrieval EXCEPT ![s].at = "started"]
      PROVE  search' \in [Search -> SearchRow] /\ CountsMatch' /\ ThreadsOK'
  <2>1. /\ search' \in [Search -> SearchRow] /\ search'[s] = row
        /\ \A t \in Search : t # s => search'[t] = search[t]
    BY <1>0, <1>1
  <2>2. AnsweredSearches' = AnsweredSearches /\ FoundSearches' = FoundSearches
    BY <1>1, <2>1 DEF AnsweredSearches, FoundSearches
  <2>3. \A t \in Search : t # s => retrieval'[t] = retrieval[t]
    BY <1>0, <1>1
  <2>4. ThreadsOK'
    BY <1>0, <1>1, <2>1, <2>3 DEF ThreadsOK, At
  <2> QED
    BY <1>0, <1>1, <2>1, <2>2, <2>4 DEF CountsMatch
<1>2. CASE AskKnowledge(s)
  <2>1. PICK row : row = [search[s] EXCEPT !.at = "waiting"]
    OBVIOUS
  <2>2. row \in SearchRow /\ row.at = "waiting"
    BY <1>0, <2>1 DEF SearchRow
  <2>3. search' = [search EXCEPT ![s] = row] /\ search[s].at = "idle" /\ UNCHANGED <<found, missed>>
        /\ retrieval' = [retrieval EXCEPT ![s].at = "started"]
    BY <1>2, <2>1 DEF AskKnowledge
  <2>4. search' \in [Search -> SearchRow] /\ CountsMatch' /\ ThreadsOK'
    BY <1>1, <2>2, <2>3
  <2>5. retrieval[s].at = "idle"
    BY <1>0, <2>3 DEF ThreadsOK, At
  <2> QED
    BY <1>0, <1>2, <2>3, <2>4, <2>5, SearchMoves DEF AskKnowledge
<1>3. CASE BlankQuery(s)
  <2>1. PICK row : row = [at |-> "blank", result |-> {}]
    OBVIOUS
  <2>2. row \in SearchRow /\ row.at = "blank"
    BY <2>1 DEF SearchRow
  <2>3. search' = [search EXCEPT ![s] = row] /\ search[s].at = "idle" /\ UNCHANGED <<found, missed>>
        /\ UNCHANGED retrieval
    BY <1>3, <2>1 DEF BlankQuery
  <2>4. search' \in [Search -> SearchRow] /\ CountsMatch' /\ ThreadsOK'
    BY <1>1, <2>2, <2>3
  <2> QED
    BY <1>0, <1>3, <2>3, <2>4, SearchMoves DEF BlankQuery
<1>4. ASSUME search[s].at = "waiting", NEW result \in SUBSET Chunk,
             search' = [search EXCEPT ![s] = [at |-> "answered", result |-> result]],
             found' = IF result = {} THEN found ELSE found + 1,
             missed' = IF result = {} THEN missed + 1 ELSE missed,
             UNCHANGED <<storeVars, reading, modelVars, retrieval>>
      PROVE  KnowledgeInv'
  <2>1. CountsMatch' /\ search' \in [Search -> SearchRow] /\ found' \in Nat /\ missed' \in Nat
    BY <1>4, AnswerCounts
  <2>2. PICK row : row = [at |-> "answered", result |-> result]
    OBVIOUS
  <2>3. row.at = "answered" /\ search' = [search EXCEPT ![s] = row]
    BY <1>4, <2>2
  <2>4. search'[s] = row /\ \A t \in Search : t # s => search'[t] = search[t]
    BY <1>0, <2>3
  <2>5. ThreadsOK'
    BY <1>0, <1>4, <2>3, <2>4 DEF ThreadsOK, At
  <2> QED
    BY <1>4, <2>1, <2>5, SearchMoves
<1>5. CASE AnswerSearch(s) \/ Deadline(s)
  <2>1. search[s].at = "waiting" /\ UNCHANGED <<storeVars, reading, modelVars, retrieval>>
    BY <1>5 DEF AnswerSearch, Deadline
  <2>2. CASE Miss(s)
    <3>1. PICK result \in SUBSET Chunk : result = {}
      OBVIOUS
    <3>2. search' = [search EXCEPT ![s] = [at |-> "answered", result |-> result]]
          /\ missed' = missed + 1 /\ found' = found
      BY <2>2, <3>1 DEF Miss
    <3> QED
      BY <1>4, <2>1, <3>1, <3>2
  <2>3. CASE /\ At(s, "returned") /\ retrieval[s].result # {}
             /\ search' = [search EXCEPT ![s] = [at |-> "answered", result |-> retrieval[s].result]]
             /\ found' = found + 1 /\ UNCHANGED missed
    <3>1. retrieval[s].result \in SUBSET Chunk
      BY <1>0, <2>3, RetrievalForms DEF At
    <3> QED
      BY <1>4, <2>1, <2>3, <3>1
  <2> QED
    BY <1>5, <2>2, <2>3 DEF AnswerSearch, Deadline
<1> QED
  BY <1>2, <1>3, <1>5 DEF SearchStep

LEMMA KnowledgeStep == KnowledgeInv /\ [KnowledgeNext]_knowledgeVars => KnowledgeInv'
<1> SUFFICES ASSUME KnowledgeInv, [KnowledgeNext]_knowledgeVars PROVE KnowledgeInv'
  OBVIOUS
<1>1. ASSUME NEW i \in Ingest, IngestStep(i) PROVE KnowledgeInv'
  BY <1>1, IngestSteps
<1>2. ASSUME NEW s \in Search, RetrievalStep(s) PROVE KnowledgeInv'
  BY <1>2, ReadsOfATable, UsesOfTheModel DEF RetrievalStep
<1>3. ASSUME NEW s \in Search, SearchStep(s) PROVE KnowledgeInv'
  BY <1>3, SearchSteps
<1>4. CASE WarmModel \/ \E ok \in BOOLEAN : WarmedModel(ok)
  BY <1>4, WarmSteps
<1>5. CASE UNCHANGED knowledgeVars
  <2>1. /\ UNCHANGED storeVars /\ UNCHANGED <<reading, retrieval>>
        /\ UNCHANGED modelVars /\ UNCHANGED searchVars
    BY <1>5 DEF knowledgeVars
  <2>2. KnowledgeTyped' /\ StoreOK' /\ ModelOK' /\ CountsMatch' /\ ThreadsOK'
    BY <2>1, CountsKept
       DEF KnowledgeInv, KnowledgeTyped, StoreOK, IndexIsOneCorpus, ModelOK, ThreadsOK, At,
           storeVars, modelVars, searchVars
  <2>3. \A s \in Search : RetrievalOK(s)'
    BY <2>1 DEF KnowledgeInv, RetrievalOK, At, storeVars
  <2> QED
    BY <2>2, <2>3 DEF KnowledgeInv
<1> QED
  BY <1>1, <1>2, <1>3, <1>4, <1>5 DEF KnowledgeNext

\* For any number of searches and ingestions: a search answers out of one whole
\* corpus, with a model built once, and is counted once, as it was answered
\* (retriever.retrieve, ingest(), _singleton_query_embed, _emit_found).
THEOREM SearchesCorrect == KnowledgeSpec => []SearchesAreSound
<1>1. KnowledgeInv => SearchesAreSound
  <2> SUFFICES ASSUME KnowledgeInv PROVE SearchesAreSound
    OBVIOUS
  <2>1. RankedWhatWasRead /\ IndexIsOneCorpus /\ ModelBuiltOnce
    BY DEF KnowledgeInv, RetrievalOK, StoreOK, ModelOK, RankedWhatWasRead, ModelBuiltOnce
  <2>2. SearchesAreCounted
    BY DEF KnowledgeInv, CountsMatch, FoundSearches, AnsweredSearches, SearchesAreCounted
  <2> QED
    BY <2>1, <2>2 DEF SearchesAreSound
<1> QED
  BY <1>1, KnowledgeStart, KnowledgeStep, PTL DEF KnowledgeSpec

(***************************************************************************)
(* The agent loop                                                          *)
(***************************************************************************)
Conversation == AgentTurn \cup {"none"}

HandlerRow == [driver: {"mock", "composio", "datastore", "knowledge"},
               binding: [identity: AgentTurn, conversation: Conversation]]

CallRow == [turn: AgentTurn, pos: 1..MaxIterations, index: 1..MaxCalls, entry: Catalog,
            target: Conversation, handler: HandlerRow]

RunningRow == [at: {"discover", "register", "setup", "complete", "dispatch"}, turn: AgentTurn,
               pos: 0..MaxIterations, index: 0..MaxCalls, model: {"primary", "fallback"}]

AgentRow == {NoTurn} \cup RunningRow

AgentTyped ==
  /\ deploy \in Deployment /\ served \subseteq AgentTurn
  /\ agent \in AgentRow
  /\ calls \in Seq(CallRow)

\* What the boot of turn t puts into the registry under e.
Handler(e, t) == [driver |-> SelectDriver(Overlay(deploy), deploy, e[1]), binding |-> Binding(deploy, t)]

\* The discovery precedes the registration, so the registration stays.
BootOK ==
  /\ agent.at \in {"register", "setup", "complete", "dispatch"} => discovered
  /\ agent.at \in {"setup", "complete", "dispatch"} =>
       \A e \in Registered(Profile(deploy.home)) : registry[e] = Handler(e, agent.turn)
  /\ agent.at = "none" => provider = "original"
  /\ agent.at # "none" => agent.turn \in served
  /\ agent.at = "dispatch" => agent.pos # 0 /\ agent.index # 0

CallOK(c) ==
  /\ c.entry \in ValidNames
  /\ c.handler = Handler(c.entry, c.turn)
  /\ c.entry[1] = "toee_sms_reply" => c.target = c.turn

\* The turn a is at lies past its call c.
Past(c, a) ==
  a.at # "none" /\ c.turn = a.turn =>
    IF a.at = "dispatch" THEN Earlier(c, a) ELSE c.pos <= a.pos

CallsOK ==
  \A i \in DOMAIN calls :
    /\ CallOK(calls[i])
    /\ calls[i].turn \in served
    /\ Past(calls[i], agent)
    /\ \A j \in DOMAIN calls : calls[i].turn = calls[j].turn /\ i < j => Earlier(calls[i], calls[j])

AgentInv == AgentTyped /\ BootOK /\ CallsOK

LEMMA AgentForms ==
  ASSUME NEW a \in AgentRow
  PROVE  /\ a.at \in {"none", "discover", "register", "setup", "complete", "dispatch"}
         /\ a.at # "none" => a \in RunningRow
  BY DEF AgentRow, RunningRow, NoTurn

LEMMA AgentStart == AgentInit => AgentInv
<1> SUFFICES ASSUME AgentInit PROVE AgentInv
  OBVIOUS
<1>1. agent \in AgentRow /\ agent.at = "none"
  BY DEF AgentInit, AgentRow, NoTurn
<1>2. calls \in Seq(CallRow) /\ DOMAIN calls = {}
  BY DEF AgentInit
<1>3. BootOK
  BY <1>1 DEF AgentInit, BootOK
<1> QED
  BY <1>1, <1>2, <1>3 DEF AgentInit, AgentInv, AgentTyped, CallsOK

\* A call was in order or not by the deployment alone.
LEMMA CallKept ==
  ASSUME deploy' = deploy
  PROVE  /\ \A c : CallOK(c)' <=> CallOK(c)
         /\ \A e, t : Handler(e, t)' = Handler(e, t)
<1>1. ValidNames' = ValidNames
  BY DEF ValidNames
<1>2. \A e, t : Handler(e, t)' = Handler(e, t)
  BY DEF Handler
<1> QED
  BY <1>1, <1>2 DEF CallOK

\* A step of a turn that calls nothing.
LEMMA AgentMoves ==
  ASSUME AgentInv, NEW a \in AgentRow, agent' = a, UNCHANGED <<deploy, calls>>,
         served' \subseteq AgentTurn, served \subseteq served', BootOK',
         \A i \in DOMAIN calls : Past(calls[i], a)
  PROVE  AgentInv'
<1>1. AgentTyped'
  BY DEF AgentInv, AgentTyped
<1>2. ASSUME NEW i \in DOMAIN calls PROVE CallOK(calls[i])'
  <2>1. PICK c : c = calls[i]
    OBVIOUS
  <2>2. CallOK(c)'
    BY <1>2, <2>1, CallKept DEF AgentInv, CallsOK
  <2> QED
    BY <2>1, <2>2 DEF CallOK
<1>3. \A i \in DOMAIN calls : Past(calls[i], agent)'
  BY DEF Past
<1>4. \A i, j \in DOMAIN calls :
        calls[i].turn = calls[j].turn /\ i < j => Earlier(calls[i], calls[j])'
  BY DEF AgentInv, CallsOK, Earlier
<1>5. CallsOK'
  BY <1>2, <1>3, <1>4 DEF AgentInv, CallsOK
<1> QED
  BY <1>1, <1>5 DEF AgentInv

\* A turn that goes on where it is in its transcript.
LEMMA TurnGoesOn ==
  ASSUME AgentInv, NEW at \in {"register", "setup", "complete"}, NEW model \in {"primary", "fallback"},
         agent.at \in {"discover", "register", "setup", "complete"},
         agent' = [agent EXCEPT !.at = at, !.model = model], UNCHANGED <<deploy, calls, served>>,
         discovered', at # "register" =>
           \A e \in Registered(Profile(deploy.home)) : registry'[e] = Handler(e, agent.turn)
  PROVE  AgentInv'
<1>0. agent \in AgentRow /\ served \subseteq AgentTurn /\ BootOK /\ CallsOK
  BY DEF AgentInv, AgentTyped
<1>1. agent \in RunningRow
  BY <1>0, AgentForms
<1>2. /\ agent' \in RunningRow
      /\ agent'.at = at /\ agent'.turn = agent.turn /\ agent'.pos = agent.pos
  BY <1>1 DEF RunningRow
<1>3. agent' \in AgentRow
  BY <1>2 DEF AgentRow
<1>4. BootOK'
  <2>1. agent.turn \in served
    BY <1>0 DEF BootOK
  <2>2. \A e : Handler(e, agent.turn)' = Handler(e, agent.turn)
    BY <1>2, CallKept DEF Handler
  <2> QED
    BY <1>2, <2>1, <2>2 DEF BootOK
<1>5. \A i \in DOMAIN calls : Past(calls[i], agent')
  BY <1>0, <1>2 DEF CallsOK, Past
<1> QED
  BY <1>0, <1>3, <1>4, <1>5, AgentMoves

LEMMA BootSteps ==
  ASSUME AgentInv, Boot
  PROVE  AgentInv'
<1>0. /\ agent \in AgentRow /\ served \subseteq AgentTurn /\ BootOK /\ CallsOK
      /\ calls \in Seq(CallRow)
  BY DEF AgentInv, AgentTyped
<1>1. ASSUME NEW at \in {"register", "setup", "complete"},
             agent.at \in {"discover", "register", "setup"}, agent' = [agent EXCEPT !.at = at]
      PROVE  \E model \in {"primary", "fallback"} : agent' = [agent EXCEPT !.at = at, !.model = model]
  <2>1. agent \in RunningRow
    BY <1>0, <1>1, AgentForms
  <2>2. [agent EXCEPT !.at = at] = [agent EXCEPT !.at = at, !.model = agent.model]
    BY <2>1 DEF RunningRow
  <2>3. agent.model \in {"primary", "fallback"}
    BY <2>1 DEF RunningRow
  <2> QED
    BY <1>1, <2>2, <2>3
<1>2. ASSUME NEW t \in AgentTurn, Load(t) PROVE AgentInv'
  <2>1. PICK a : a = [at |-> "discover", turn |-> t, pos |-> 0, index |-> 0, model |-> "primary"]
    OBVIOUS
  <2>2. a \in AgentRow /\ a.at = "discover" /\ a.turn = t
    BY <2>1, AgentAssumption DEF AgentRow, RunningRow
  <2>3. agent' = a /\ t \notin served /\ served' = served \cup {t} /\ UNCHANGED <<deploy, calls>>
    BY <1>2, <2>1 DEF Load
  <2>4. \A i \in DOMAIN calls : Past(calls[i], a)
    BY <1>0, <2>2, <2>3 DEF CallsOK, Past
  <2>5. BootOK'
    BY <2>2, <2>3 DEF BootOK
  <2> QED
    BY <1>0, <2>2, <2>3, <2>4, <2>5, AgentMoves
<1>3. CASE discover_plugins
  <2>1. agent.at = "discover" /\ discovered' /\ agent' = [agent EXCEPT !.at = "register"]
        /\ UNCHANGED <<deploy, served, calls>>
    BY <1>3 DEF discover_plugins, BareDiscovery
  <2> QED
    BY <1>1, <2>1, TurnGoesOn
<1>4. CASE register_turn
  <2>1. /\ agent.at = "register" /\ agent' = [agent EXCEPT !.at = "setup"]
        /\ discovered' = discovered /\ UNCHANGED <<deploy, served, calls>>
        /\ registry' = Registration(Profile(deploy.home), Overlay(deploy), Binding(deploy, agent.turn))
    BY <1>4 DEF register_turn
  <2>2. discovered'
    BY <1>0, <2>1 DEF BootOK
  <2>3. \A e \in Registered(Profile(deploy.home)) : registry'[e] = Handler(e, agent.turn)
    BY <2>1 DEF Registration, Handler
  <2>4. PICK model \in {"primary", "fallback"} : agent' = [agent EXCEPT !.at = "setup", !.model = model]
    BY <1>1, <2>1
  <2> QED
    BY <2>1, <2>2, <2>3, <2>4, TurnGoesOn
<1>5. CASE AgentSetup
  <2>1. agent.at = "setup" /\ agent' = [agent EXCEPT !.at = "complete"]
        /\ discovered' /\ UNCHANGED <<deploy, served, calls>>
    BY <1>5 DEF AgentSetup, BareDiscovery
  <2>2. registry' = registry
    BY <1>0, <1>5, <2>1 DEF BootOK, AgentSetup, BareDiscovery
  <2>3. \A e \in Registered(Profile(deploy.home)) : registry'[e] = Handler(e, agent.turn)
    BY <1>0, <2>1, <2>2 DEF BootOK
  <2>a. agent.at = "setup" /\ agent' = [agent EXCEPT !.at = "complete"]
    BY <2>1
  <2>4. PICK model \in {"primary", "fallback"} : agent' = [agent EXCEPT !.at = "complete", !.model = model]
    BY <1>1, <2>a
  <2> QED
    BY <2>1, <2>3, <2>4, TurnGoesOn
<1> QED
  BY <1>2, <1>3, <1>4, <1>5 DEF Boot

\* A turn that ends, or whose process dies.
LEMMA TurnEnds ==
  ASSUME AgentInv, Leave, UNCHANGED <<deploy, served, calls>>
  PROVE  AgentInv'
<1>1. agent' = NoTurn /\ provider' = "original"
  BY DEF Leave
<1>2. NoTurn \in AgentRow /\ NoTurn.at = "none"
  BY DEF AgentRow, NoTurn
<1>3. BootOK'
  BY <1>1, <1>2 DEF BootOK
<1>4. \A i \in DOMAIN calls : Past(calls[i], NoTurn)
  BY <1>2 DEF Past
<1>5. served \subseteq AgentTurn
  BY DEF AgentInv, AgentTyped
<1> QED
  BY <1>1, <1>2, <1>3, <1>4, <1>5, AgentMoves

\* The numbers of a call and of a running turn.
LEMMA PlaceNumbers ==
  ASSUME AgentInv, NEW i \in DOMAIN calls
  PROVE  /\ calls[i] \in CallRow
         /\ calls[i].pos \in Nat \ {0} /\ calls[i].index \in Nat \ {0}
         /\ agent.at # "none" => agent.pos \in Nat /\ agent.index \in Nat
<1>1. calls[i] \in CallRow
  BY DEF AgentInv, AgentTyped
<1>2. calls[i].pos \in Nat \ {0} /\ calls[i].index \in Nat \ {0}
  BY <1>1, AgentAssumption DEF CallRow
<1>3. agent.at # "none" => agent \in RunningRow
  BY AgentForms DEF AgentInv, AgentTyped
<1>4. agent.at # "none" => agent.pos \in Nat /\ agent.index \in Nat
  BY <1>3, AgentAssumption DEF RunningRow
<1> QED
  BY <1>1, <1>2, <1>4

LEMMA CompletionSteps ==
  ASSUME AgentInv, Completion
  PROVE  AgentInv'
<1>0. agent \in AgentRow /\ served \subseteq AgentTurn /\ BootOK /\ CallsOK /\ calls \in Seq(CallRow)
  BY DEF AgentInv, AgentTyped
<1>1. agent.at = "complete" /\ UNCHANGED <<deploy, registry, discovered, served, calls>>
  BY DEF Completion, Ask, Answer, Retryable, CompletionRaises
<1>2. agent \in RunningRow
  BY <1>0, <1>1, AgentForms
<1>3. discovered /\ agent.turn \in served
      /\ \A e \in Registered(Profile(deploy.home)) : registry[e] = Handler(e, agent.turn)
  BY <1>0, <1>1 DEF BootOK
<1>4. CASE Ask
  <2>1. PICK a : a = [agent EXCEPT !.at = "dispatch", !.pos = agent.pos + 1, !.index = 1]
    OBVIOUS
  <2>2. agent' = a /\ agent.pos < MaxIterations
    BY <1>4, <2>1 DEF Ask
  <2>3. agent.pos + 1 \in 1..MaxIterations /\ 1 \in 1..MaxCalls /\ agent.pos \in Nat
    BY <1>2, <2>2, AgentAssumption DEF RunningRow
  <2>4. /\ a \in AgentRow /\ a.at = "dispatch" /\ a.turn = agent.turn /\ a.pos = agent.pos + 1
        /\ a.index = 1
    <3>1. agent.pos + 1 \in 0..MaxIterations /\ 1 \in 0..MaxCalls
      BY <2>3
    <3>2. [agent EXCEPT !.at = "dispatch", !.pos = agent.pos + 1] \in RunningRow
      BY <1>2, <3>1 DEF RunningRow
    <3>3. a = [[agent EXCEPT !.at = "dispatch", !.pos = agent.pos + 1] EXCEPT !.index = 1]
      BY <2>1
    <3>4. a \in RunningRow
      BY <3>1, <3>2, <3>3 DEF RunningRow
    <3> QED
      BY <1>2, <2>1, <3>4 DEF AgentRow, RunningRow
  <2>5. ASSUME NEW i \in DOMAIN calls PROVE Past(calls[i], a)
    <3>1. Past(calls[i], agent) /\ calls[i].pos \in Nat
      BY <1>0, <2>5, PlaceNumbers DEF CallsOK
    <3>2. calls[i].turn = a.turn => calls[i].pos < a.pos
      BY <1>1, <2>3, <2>4, <3>1 DEF Past
    <3> QED
      BY <2>4, <3>2 DEF Past, Earlier
  <2>6. BootOK'
    <3>1. \A x : Handler(x, agent.turn)' = Handler(x, agent.turn)
      BY <1>1, <2>2, <2>4 DEF Handler
    <3>2. a.pos # 0 /\ a.index # 0
      BY <2>3, <2>4
    <3> QED
      BY <1>1, <1>3, <2>2, <2>4, <3>1, <3>2 DEF BootOK
  <2> QED
    BY <1>0, <1>1, <2>2, <2>4, <2>5, <2>6, AgentMoves
<1>5. CASE Answer \/ CompletionRaises
  BY <1>1, <1>5, TurnEnds DEF Answer, CompletionRaises
<1>6. CASE Retryable
  <2>1. agent' = [agent EXCEPT !.model = "fallback"]
    BY <1>6 DEF Retryable, RetryCompletion
  <2>2. agent' = [agent EXCEPT !.at = "complete", !.model = "fallback"]
    BY <1>1, <1>2, <2>1 DEF RunningRow
  <2> QED
    BY <1>1, <1>3, <2>2, TurnGoesOn
<1> QED
  BY <1>4, <1>5, <1>6 DEF Completion

\* What a registered handler is made of.
LEMMA HandlerForm ==
  ASSUME NEW e \in Catalog, NEW t \in AgentTurn
  PROVE  /\ Handler(e, t) \in HandlerRow
         /\ Handler(e, t).binding = Binding(deploy, t)
         /\ Handler(e, t).driver = SelectDriver(Overlay(deploy), deploy, e[1])
<1>1. PICK tool : tool = e[1]
  OBVIOUS
<1>2. PICK overlay : overlay = Overlay(deploy)
  OBVIOUS
<1>3. \A x \in DOMAIN overlay : overlay[x] \in {"knowledge", "datastore"}
  BY <1>2 DEF Overlay
<1>4. SelectDriver(overlay, deploy, tool) \in {"mock", "composio", "datastore", "knowledge"}
  BY <1>3 DEF SelectDriver
<1>5. Binding(deploy, t) \in [identity: AgentTurn, conversation: Conversation]
  BY DEF Binding, Conversation
<1> QED
  BY <1>1, <1>2, <1>4, <1>5 DEF Handler, HandlerRow

\* Only an external turn is given the SMS tool.
LEMMA SmsIsExternal ==
  ASSUME NEW e \in ValidNames, e[1] = "toee_sms_reply"
  PROVE  deploy.home = "turn"
<1>1. e \in Registered(Profile(deploy.home))
  BY DEF ValidNames
<1>2. "toee_sms_reply" \notin PROFILE_TOOL_ALLOWLIST["internal"]
  BY DEF PROFILE_TOOL_ALLOWLIST, SharedTools
<1> QED
  BY <1>1, <1>2 DEF Registered, Profile

\* Where a turn goes after a call of a list, and what lies before it.
LEMMA ListGoesOn ==
  ASSUME AgentInv, agent.at = "dispatch", GoesOn, UNCHANGED <<deploy, registry, discovered, served>>
  PROVE  /\ agent' \in AgentRow /\ agent'.turn = agent.turn /\ agent'.at # "none" /\ BootOK'
         /\ \A c \in CallRow : c.turn = agent.turn /\ (Earlier(c, agent) \/ (c.pos = agent.pos
                                 /\ c.index = agent.index)) => Past(c, agent')
<1>0. agent \in AgentRow /\ BootOK
  BY DEF AgentInv, AgentTyped
<1>1. agent \in RunningRow /\ agent.pos \in Nat \ {0} /\ agent.index \in Nat \ {0}
  <2>1. agent \in RunningRow
    BY <1>0, AgentForms
  <2> QED
    BY <1>0, <2>1, AgentAssumption DEF RunningRow, BootOK
<1>2. CASE agent.index < MaxCalls /\ agent' = [agent EXCEPT !.index = agent.index + 1]
  <2>1. agent.index + 1 \in 0..MaxCalls
    BY <1>1, <1>2, AgentAssumption
  <2>2. /\ agent' \in RunningRow /\ agent'.at = "dispatch" /\ agent'.turn = agent.turn
        /\ agent'.pos = agent.pos /\ agent'.index = agent.index + 1
    BY <1>1, <1>2, <2>1 DEF RunningRow
  <2>3. BootOK'
    <3>1. \A x : Handler(x, agent.turn)' = Handler(x, agent.turn)
      BY <2>2 DEF Handler
    <3>2. agent'.pos # 0 /\ agent'.index # 0
      BY <1>1, <2>2
    <3> QED
      BY <1>0, <2>2, <3>1, <3>2 DEF BootOK
  <2>4. ASSUME NEW c \in CallRow, Earlier(c, agent) \/ (c.pos = agent.pos /\ c.index = agent.index)
        PROVE  Earlier(c, agent')
    <3>1. c.pos \in Nat /\ c.index \in Nat
      BY <2>4, AgentAssumption DEF CallRow
    <3> QED
      BY <1>1, <2>2, <2>4, <3>1 DEF Earlier
  <2> QED
    BY <2>2, <2>3, <2>4 DEF AgentRow, Past
<1>3. CASE agent' = [agent EXCEPT !.at = "complete", !.index = 0, !.model = "primary"]
  <2>a. 0 \in 0..MaxCalls
    BY AgentAssumption
  <2>b. [agent EXCEPT !.at = "complete", !.index = 0] \in RunningRow
    BY <1>1, <2>a DEF RunningRow
  <2>1. /\ agent' \in RunningRow /\ agent'.at = "complete" /\ agent'.turn = agent.turn
        /\ agent'.pos = agent.pos
    <3>1. agent' = [[agent EXCEPT !.at = "complete", !.index = 0] EXCEPT !.model = "primary"]
      BY <1>3
    <3>2. agent' \in RunningRow
      BY <2>b, <3>1 DEF RunningRow
    <3> QED
      BY <1>1, <1>3, <3>2 DEF RunningRow
  <2>2. BootOK'
    <3>1. \A x : Handler(x, agent.turn)' = Handler(x, agent.turn)
      BY <2>1 DEF Handler
    <3> QED
      BY <1>0, <2>1, <3>1 DEF BootOK
  <2>3. ASSUME NEW c \in CallRow, Earlier(c, agent) \/ (c.pos = agent.pos /\ c.index = agent.index)
        PROVE  c.pos <= agent'.pos
    <3>1. c.pos \in Nat /\ c.index \in Nat
      BY <2>3, AgentAssumption DEF CallRow
    <3> QED
      BY <1>1, <2>1, <2>3, <3>1 DEF Earlier
  <2> QED
    BY <2>1, <2>2, <2>3 DEF AgentRow, Past
<1> QED
  BY <1>2, <1>3 DEF GoesOn

LEMMA DispatchSteps ==
  ASSUME AgentInv, Dispatch
  PROVE  AgentInv'
<1>0. agent \in AgentRow /\ served \subseteq AgentTurn /\ BootOK /\ CallsOK /\ calls \in Seq(CallRow)
  BY DEF AgentInv, AgentTyped
<1>1. /\ agent.at = "dispatch" /\ UNCHANGED <<deploy, registry, discovered, served>>
      /\ GoesOn
  BY DEF Dispatch, execute_tool, CallRefused
<1>2. agent \in RunningRow /\ agent.pos \in 1..MaxIterations /\ agent.index \in 1..MaxCalls
  <2>1. agent \in RunningRow /\ agent.pos # 0 /\ agent.index # 0
    BY <1>0, <1>1, AgentForms DEF BootOK
  <2> QED
    BY <2>1, AgentAssumption DEF RunningRow
<1>3. /\ agent' \in AgentRow /\ agent'.turn = agent.turn /\ agent'.at # "none" /\ BootOK'
      /\ \A c \in CallRow : c.turn = agent.turn /\ (Earlier(c, agent) \/ (c.pos = agent.pos
                              /\ c.index = agent.index)) => Past(c, agent')
  BY <1>1, ListGoesOn
<1>4. ASSUME NEW i \in DOMAIN calls PROVE calls[i].turn = agent.turn => Earlier(calls[i], agent)
  BY <1>0, <1>1, <1>4 DEF CallsOK, Past
<1>5. ASSUME NEW i \in DOMAIN calls PROVE Past(calls[i], agent')
  <2>1. calls[i] \in CallRow
    BY <1>5, PlaceNumbers
  <2> QED
    BY <1>3, <1>4, <1>5, <2>1 DEF Past
<1>6. discovered /\ agent.turn \in served
      /\ \A e \in Registered(Profile(deploy.home)) : registry[e] = Handler(e, agent.turn)
  BY <1>0, <1>1 DEF BootOK
<1>7. CASE CallRefused
  BY <1>0, <1>1, <1>3, <1>5, <1>7, AgentMoves DEF CallRefused
<1>8. ASSUME NEW e \in Catalog, NEW target \in Targets(e), execute_tool(e, target) PROVE AgentInv'
  <2>1. PICK c : c = [turn |-> agent.turn, pos |-> agent.pos, index |-> agent.index, entry |-> e,
                      target |-> target, handler |-> registry[e]]
    OBVIOUS
  <2>2. calls' = Append(calls, c) /\ e \in ValidNames /\ GateAllows(registry[e], e, target)
    BY <1>8, <2>1 DEF execute_tool, Allowed
  <2>3. registry[e] = Handler(e, agent.turn)
    BY <1>6, <2>2 DEF ValidNames
  <2>t. agent.turn \in AgentTurn /\ target \in Conversation
    BY <1>2 DEF RunningRow, Targets, Conversation
  <2>4. registry[e] \in HandlerRow /\ registry[e].binding = Binding(deploy, agent.turn)
    BY <2>t, <2>3, HandlerForm
  <2>5. /\ c \in CallRow /\ c.turn = agent.turn /\ c.pos = agent.pos /\ c.index = agent.index
        /\ c.entry = e /\ c.target = target /\ c.handler = registry[e]
    BY <1>2, <2>1, <2>t, <2>4 DEF CallRow
  <2>6. e[1] = "toee_sms_reply" => target = agent.turn
    <3> SUFFICES ASSUME e[1] = "toee_sms_reply" PROVE target = agent.turn
      OBVIOUS
    <3>1. deploy.home = "turn"
      BY <2>2, SmsIsExternal
    <3>2. registry[e].binding.conversation = agent.turn /\ agent.turn # "none"
      BY <2>t, <2>4, <3>1, AgentAssumption DEF Binding
    <3> QED
      BY <2>2, <3>2 DEF GateAllows
  <2>7. CallOK(c)'
    <3>1. CallOK(c)
      BY <2>2, <2>3, <2>5, <2>6 DEF CallOK
    <3> QED
      BY <1>1, <3>1, CallKept
  <2>8. /\ calls' \in Seq(CallRow) /\ DOMAIN calls' = DOMAIN calls \cup {Len(calls) + 1}
        /\ calls'[Len(calls) + 1] = c /\ \A i \in DOMAIN calls : calls'[i] = calls[i]
        /\ Len(calls) + 1 \notin DOMAIN calls
    BY <1>0, <2>2, <2>5
  <2>l. \A i \in DOMAIN calls : ~(Len(calls) + 1 < i)
    BY <1>0
  <2>9. AgentTyped'
    BY <1>0, <1>1, <1>3, <2>8 DEF AgentInv, AgentTyped
  <2>10. ASSUME NEW i \in DOMAIN calls'
         PROVE  CallOK(calls[i])' /\ calls'[i].turn \in served' /\ Past(calls'[i], agent')
    <3>1. CASE i = Len(calls) + 1
      <4>1. CallOK(calls[i])'
        BY <2>7, <2>8, <3>1 DEF CallOK
      <4>2. Past(c, agent')
        BY <1>3, <2>5
      <4> QED
        BY <1>1, <1>6, <2>5, <2>8, <3>1, <4>1, <4>2
    <3>2. CASE i \in DOMAIN calls
      <4>1. PICK d : d = calls[i]
        OBVIOUS
      <4>2. CallOK(d)' /\ calls'[i] = d
        BY <1>0, <1>1, <2>8, <3>2, <4>1, CallKept DEF CallsOK
      <4>3. CallOK(calls[i])'
        BY <4>2 DEF CallOK
      <4> QED
        BY <1>0, <1>1, <1>5, <2>8, <3>2, <4>3 DEF CallsOK
    <3> QED
      BY <2>8, <2>10, <3>1, <3>2
  <2>11. ASSUME NEW i \in DOMAIN calls, calls[i].turn = c.turn PROVE Earlier(calls[i], c)
    BY <1>4, <2>5, <2>11 DEF Earlier
  <2>12. ASSUME NEW i \in DOMAIN calls', NEW j \in DOMAIN calls',
                calls'[i].turn = calls'[j].turn, i < j
         PROVE  Earlier(calls'[i], calls'[j])
    <3>1. CASE i \in DOMAIN calls /\ j \in DOMAIN calls
      BY <1>0, <2>8, <2>12, <3>1 DEF CallsOK
    <3>2. CASE i \in DOMAIN calls /\ j = Len(calls) + 1
      BY <2>8, <2>11, <2>12, <3>2
    <3>3. CASE i = Len(calls) + 1
      <4>1. j \in DOMAIN calls
        BY <1>0, <2>8, <2>12, <3>3
      <4> QED
        BY <2>l, <2>12, <3>3, <4>1
    <3> QED
      BY <2>8, <2>12, <3>1, <3>2, <3>3
  <2>13. CallsOK'
    <3>1. \A i \in DOMAIN calls' : Past(calls[i], agent)'
      BY <2>10 DEF Past, Earlier
    <3>2. \A i, j \in DOMAIN calls' :
            calls'[i].turn = calls'[j].turn /\ i < j => Earlier(calls[i], calls[j])'
      BY <2>12 DEF Earlier
    <3> QED
      BY <2>10, <3>1, <3>2 DEF CallsOK
  <2> QED
    BY <1>3, <2>9, <2>13 DEF AgentInv
<1> QED
  BY <1>7, <1>8 DEF Dispatch

LEMMA AgentInvariant == AgentSpec => []AgentInv
<1>1. AgentInv /\ [AgentNext]_agentVars => AgentInv'
  <2> SUFFICES ASSUME AgentInv, [AgentNext]_agentVars PROVE AgentInv'
    OBVIOUS
  <2>1. CASE Boot \/ Completion \/ Dispatch \/ ProcessRestarts
    BY <2>1, BootSteps, CompletionSteps, DispatchSteps, TurnEnds DEF ProcessRestarts
  <2>2. CASE UNCHANGED agentVars
    <3>1. agent \in AgentRow /\ served \subseteq AgentTurn /\ BootOK /\ CallsOK
      BY DEF AgentInv, AgentTyped
    <3>2. BootOK'
      BY <2>2, <3>1 DEF BootOK, Handler, agentVars
    <3>3. \A i \in DOMAIN calls : Past(calls[i], agent)
      BY <3>1 DEF CallsOK
    <3> QED
      BY <2>2, <3>1, <3>2, <3>3, AgentMoves DEF agentVars
  <2> QED
    BY <2>1, <2>2 DEF AgentNext
<1> QED
  BY <1>1, AgentStart, PTL DEF AgentSpec

\* Every call of a turn runs with the driver, the identity and the conversation
\* the turn was booted with, a reply goes to its own conversation, and the
\* provider is restored, for any number of turns one process serves
\* (boot.py _boot, create_turn_binding_gate, run_agent_turn).
THEOREM IsolationOfTurnsCorrect == AgentSpec => []TurnsAreIsolated
<1>1. AgentInv => TurnsAreIsolated
  <2> SUFFICES ASSUME AgentInv PROVE TurnsAreIsolated
    OBVIOUS
  <2>0. calls \in Seq(CallRow) /\ CallsOK /\ BootOK
    BY DEF AgentInv, AgentTyped
  <2>1. ASSUME NEW i \in DOMAIN calls
        PROVE  /\ calls[i].handler.binding = Binding(deploy, calls[i].turn)
               /\ calls[i].handler.driver = SelectDriver(Overlay(deploy), deploy, calls[i].entry[1])
               /\ calls[i].entry[1] = "toee_sms_reply" => calls[i].target = calls[i].turn
    <3>1. calls[i] \in CallRow
      BY <2>0, <2>1
    <3>2. calls[i].turn \in AgentTurn /\ calls[i].entry \in Catalog
      BY <3>1 DEF CallRow
    <3>3. CallOK(calls[i])
      BY <2>0, <2>1 DEF CallsOK
    <3> QED
      BY <3>2, <3>3, HandlerForm DEF CallOK
  <2>2. \A c \in Range(calls) : \E i \in DOMAIN calls : c = calls[i]
    BY DEF Range
  <2>3. CallsRunUnderTheirTurn /\ RepliesStayInTheirConversation
    BY <2>1, <2>2 DEF CallsRunUnderTheirTurn, RepliesStayInTheirConversation
  <2> QED
    BY <2>0, <2>3 DEF TurnsAreIsolated, ProviderIsRestored, BootOK
<1> QED
  BY <1>1, AgentInvariant, PTL

\* The calls of a turn follow its transcript and none is made twice, for any
\* number of iterations and of calls in a completion, whichever completions fail
\* over and wherever the process dies (make_fallback_openai_factory).
THEOREM NothingRepeatedCorrect == AgentSpec => []FallbackRepeatsNothing
<1>1. AgentInv => FallbackRepeatsNothing
  BY DEF AgentInv, CallsOK, Past, FallbackRepeatsNothing
<1> QED
  BY <1>1, AgentInvariant, PTL
=============================================================================
