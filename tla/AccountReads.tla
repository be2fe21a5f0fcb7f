---------------------------- MODULE AccountReads ----------------------------
(***************************************************************************)
(* The customer-scoped reads of the live drivers: orders and products      *)
(* through Composio's Shopify toolkit, invoices through its QuickBooks     *)
(* toolkit joined with the owner's Gadget mapping of Shopify to QuickBooks *)
(* customers, deliveries through EasyRoutes and the delivery-promise       *)
(* endpoint (drivers/composio, gadget.py, qbo_ar.py, easyroutes, delivery).*)
(* A call asks the vendor and then, for invoices, the mapping; the owner   *)
(* edits the mapping meanwhile, and either service may fault or time out.  *)
(* An invoice of the live toolkit names a QuickBooks customer only.        *)
(***************************************************************************)
EXTENDS Naturals, Sequences, FiniteSets

CONSTANTS
  Shopper,      \* verified Shopify customers
  QboCustomer,  \* QuickBooks customer ids, in canonical form
  ReadCall,
  Nobody,       \* an identity that verifies no customer; an invoice without CustomerRef
  PageSize,     \* max_results of a list of invoices
  Ledger,       \* the invoices QuickBooks may hold, in its order
  Credentials,   \* what a deployment may have credentials for
  MaxRemaps

ASSUME ReadsAssumption ==
  /\ PageSize \in Nat \ {0} /\ MaxRemaps \in Nat
  /\ Nobody \notin Shopper \union QboCustomer
  /\ Ledger \subseteq Seq([customer: QboCustomer \union {Nobody},
                           balance: {"open", "paid", "unreadable"}])
  /\ Credentials \subseteq SUBSET {"qbo", "shopify", "gadget", "easyroutes", "delivery"}

VARIABLES
  connected,    \* toolkits with a connected account, drivers with a credential
  books,        \* the invoices QuickBooks holds
  mapping,      \* qboCustomerMapping: status of the row that links two customers
  remaps,
  read          \* what a call is doing, and its result

readVars == <<connected, books, mapping, remaps, read>>

\* CONFIRMED and AUTO_MATCHED are trusted; every other status is not.
RowStatus == {"none", "trusted", "untrusted"}

\* _qbo_list_invoices_request: the page is the first invoices of all customers.
\* QUICKBOOKS_QUERY_INVOICES finds one by its number, or none.
InvoiceReads == {"get_invoice", "list_customer_invoices", "get_ar_summary"}
ShopifyReads == {"get_order", "list_customer_orders", "get_product", "search_products"}
RouteReads == {"get_delivery_status"}
PromiseReads == {"get_order_delivery", "get_delivery_quote"}

\* The driver of a read: ACTION_MAPPING for Composio, one driver each for the
\* delivery tools. send_payment_link is mapped and declared unavailable.
ServedBy(action) ==
  CASE action \in InvoiceReads  -> "qbo"
    [] action \in ShopifyReads  -> "shopify"
    [] action \in RouteReads    -> "easyroutes"
    [] action \in PromiseReads  -> "delivery"
    [] OTHER                    -> "square"
Reads == InvoiceReads \union ShopifyReads \union RouteReads \union PromiseReads
           \union {"send_payment_link"}

NoRead == [state |-> "idle", action |-> "none", who |-> Nobody, page |-> {}, recognised |-> FALSE,
           joined |-> 0, kind |-> "none", invoices |-> {}, open |-> 0]

\* A governed failure: ToolDriverError, shown to the model as an error.
Raise(r) == read' = [read EXCEPT ![r] = [NoRead EXCEPT !.state = "done", !.kind = "raised"]]

\* require_composio_configuration: without one connected account no process boots.
Booted(s) == s \cap {"qbo", "shopify"} # {}

\* Reads that need a verified customer before the vendor is asked; the Composio
\* reads check once the vendor has answered.
VerifiedFirst == RouteReads \union {"get_order_delivery"}

\* execute: mapped, available, connected, and verified where that comes first.
Admissible(action, who) ==
  /\ ServedBy(action) \in connected
  /\ action \in VerifiedFirst => who # Nobody

\* A turn carries the identity of its conversation.
AskFor(r, who) ==
  /\ read[r].state = "idle"
  /\ \E action \in Reads :
       IF Admissible(action, who)
       THEN read' = [read EXCEPT
              ![r] = [NoRead EXCEPT !.state = "vendor", !.action = action, !.who = who]]
       ELSE Raise(r)
  /\ UNCHANGED <<connected, books, mapping, remaps>>

\* tools:dispatch: past the bearer, the shape and the profile's allowlist; it binds
\* an identity for customer memory only, so these reads run for nobody.
DispatchRead(r) ==
  \/ AskFor(r, Nobody)
  \/ /\ read[r].state = "idle"
     /\ Raise(r)
     /\ UNCHANGED <<connected, books, mapping, remaps>>

TurnRead(r) == \E who \in Shopper \union {Nobody} : AskFor(r, who)

\* The live EasyRoutes client has no way from an order to its delivery and no
\* customer on a stop: whatever its API answers, the read fails closed.
RoutesRefuse(r) ==
  /\ read[r].state = "vendor" /\ read[r].action \in RouteReads
  /\ Raise(r)

\* The SDK raises, reports failure, sends no data or an error within it; or the
\* deadline of the call passes.
VendorFaults(r) ==
  /\ read[r].state = "vendor" /\ read[r].action \notin RouteReads
  /\ Raise(r)

Numbered(i) == {i}
FirstPage == {i \in 1..PageSize : i \in DOMAIN books}

\* What a recognised answer holds.
Pages(action) ==
  IF action = "get_invoice" THEN {Numbered(i) : i \in DOMAIN books} \union {{}} ELSE {FirstPage}

\* Invoices come back unscoped and wait for the join. An answer in none of the
\* shapes _qbo_invoices_from_raw knows is taken for one without invoices.
InvoicesReturn(r) ==
  /\ read[r].state = "vendor"
  /\ read[r].action \in InvoiceReads
  /\ IF read[r].who = Nobody THEN Raise(r)
     ELSE \/ \E page \in Pages(read[r].action) :
               read' = [read EXCEPT ![r].state = "join", ![r].page = page, ![r].recognised = TRUE]
          \/ read' = [read EXCEPT ![r].state = "join"]

\* _shopify_get_order_response: the order must be the verified customer's own.
OwnOrder(r, owner) == read[r].who # Nobody /\ owner = read[r].who

Answered(r) == read' = [read EXCEPT ![r].state = "done", ![r].kind = "answered"]

\* get_order is by a number the model supplies, so the owner may be anyone.
OrderReturns(r) ==
  /\ read[r].state = "vendor" /\ read[r].action = "get_order"
  /\ \E owner \in Shopper :
       IF OwnOrder(r, owner) THEN Answered(r) ELSE Raise(r)

\* The vendor scopes its own list of orders by the customer it is given.
OrdersReturn(r) ==
  /\ read[r].state = "vendor" /\ read[r].action = "list_customer_orders"
  /\ Answered(r)

\* Products and quotes are public. The delivery endpoint checks that the customer
\* it is given owns the order, and answers not found otherwise.
PublicReturns(r) ==
  /\ read[r].state = "vendor"
  /\ read[r].action \in {"get_product", "search_products", "get_delivery_quote"}
  /\ Answered(r)
PromiseReturns(r) ==
  /\ read[r].state = "vendor" /\ read[r].action = "get_order_delivery"
  /\ \E owner \in Shopper : IF owner = read[r].who THEN Answered(r) ELSE Raise(r)

\* The endpoint's answer about one shopper: forward rows, and for the accounts
\* they name every row that shares the account.
ForwardRows(g) == {q \in QboCustomer : mapping[<<g, q>>] = "trusted"}
ReverseRows(q) == {g \in Shopper : mapping[<<g, q>>] = "trusted"}

\* _resolve_forward_qbo_id: the trusted rows agree on one account.
Agrees(g) == Cardinality(ForwardRows(g)) = 1

\* Mutant: who else the account is trusted to is not asked.
SoleOwnerUnchecked(g) == TRUE

\* _assert_sole_trusted_owner: nobody else is trusted with it.
SoleOwner(g) == \E q \in ForwardRows(g) : ReverseRows(q) = {g}

Owned(r, q) == {i \in read[r].page : books[i].customer = q}

\* ar_summary: an unreadable balance raises; only positive balances count.
Readable(s) == \A i \in s : books[i].balance # "unreadable"
Open(s) == {i \in s : books[i].balance = "open"}

\* _qbo_owned_invoice, _qbo_owned_invoices: what of the page is the account's.
Disclose(r, q) ==
  LET mine == Owned(r, q)
  IN IF \/ read[r].action = "get_invoice" /\ mine = {}
        \/ read[r].action = "get_ar_summary" /\ ~Readable(mine)
     THEN Raise(r)
     ELSE read' = [read EXCEPT ![r].state = "done", ![r].kind = "answered",
                               ![r].invoices = mine, ![r].joined = remaps,
                               ![r].open = Cardinality(Open(mine))]

\* Mutant: a customer without a trusted row is told of no invoices.
JoinReturnsEmpty(r) ==
  /\ read[r].state = "join" /\ "gadget" \in connected
  /\ LET g == read[r].who
     IN IF Agrees(g) /\ SoleOwner(g)
        THEN \E q \in ForwardRows(g) : Disclose(r, q)
        ELSE IF ForwardRows(g) = {} /\ read[r].action # "get_invoice"
        THEN read' = [read EXCEPT ![r].state = "done", ![r].kind = "answered", ![r].joined = remaps]
        ELSE Raise(r)

\* qbo_customer_id_for: one call gives both directions. Without a key, on a fault
\* and on a timeout it raises, as it does for an answer that attributes nothing.
JoinReturns(r) ==
  /\ read[r].state = "join" /\ "gadget" \in connected
  /\ LET g == read[r].who
     IN IF Agrees(g) /\ SoleOwner(g)
        THEN \E q \in ForwardRows(g) : Disclose(r, q)
        ELSE Raise(r)

JoinFaults(r) == read[r].state = "join" /\ Raise(r)

\* The owner's app matches customers, confirms and rejects the matches.
Remap ==
  /\ remaps < MaxRemaps
  /\ remaps' = remaps + 1
  /\ \E g \in Shopper, q \in QboCustomer, s \in RowStatus :
       mapping' = [mapping EXCEPT ![<<g, q>>] = s]
  /\ UNCHANGED <<connected, books, read>>

ReadsInit ==
  /\ connected \in {s \in Credentials : Booted(s)}
  /\ books \in Ledger
  /\ mapping = [row \in Shopper \X QboCustomer |-> "none"]
  /\ remaps = 0
  /\ read = [r \in ReadCall |-> NoRead]

VendorStep(r) ==
  /\ \/ VendorFaults(r) \/ RoutesRefuse(r) \/ InvoicesReturn(r) \/ OrderReturns(r)
     \/ OrdersReturn(r) \/ PublicReturns(r) \/ PromiseReturns(r)
  /\ UNCHANGED <<connected, books, mapping, remaps>>

JoinStep(r) ==
  /\ JoinReturns(r) \/ JoinFaults(r)
  /\ UNCHANGED <<connected, books, mapping, remaps>>

ReadsNext ==
  \/ \E r \in ReadCall : TurnRead(r) \/ DispatchRead(r) \/ VendorStep(r) \/ JoinStep(r)
  \/ Remap

ReadsSpec == ReadsInit /\ [][ReadsNext]_readVars

(***************************************************************************)
(* Properties                                                              *)
(***************************************************************************)
Disclosed(r) == read[r].kind = "answered" /\ read[r].action \in InvoiceReads

\* No invoice is shown to two shoppers on one state of the mapping, whatever rows
\* the owner has confirmed by then and however the two reads interleave with the
\* edits (_assert_sole_trusted_owner, the collision guard on the same response).
OneShopperPerInvoice ==
  \A r, s \in ReadCall :
    (/\ Disclosed(r) /\ Disclosed(s) /\ read[r].joined = read[s].joined
     /\ read[r].who # read[s].who) => read[r].invoices \cap read[s].invoices = {}

\* One shopper never sees two accounts on one state of the mapping: two trusted
\* accounts are an ambiguity that closes both (_resolve_forward_qbo_id).
OneAccountPerShopper ==
  \A r, s \in ReadCall :
    (/\ Disclosed(r) /\ Disclosed(s) /\ read[r].joined = read[s].joined
     /\ read[r].who = read[s].who) =>
      Cardinality({books[i].customer : i \in read[r].invoices \union read[s].invoices}) <= 1

\* q is the one account g is trusted with, and g the one customer trusted with q.
Pair(g, q) == ForwardRows(g) = {q} /\ ReverseRows(q) = {g}

\* "You have no invoices" and "you owe nothing" are said of an account, never for
\* want of one (driver.py: "NEVER an empty 'you have no invoices'", the S27 bug):
\* whenever invoices are disclosed, none at all included, the mapping as the join
\* read it names one account and one customer for each other, also where it was
\* edited between the vendor's answer and the join; and of a page the vendor sent
\* in a known shape a list leaves out no invoice of the account.
AnswersAreEarned ==
  \A r \in ReadCall : Disclosed(r) /\ read[r].joined = remaps =>
    /\ read[r].who \in Shopper
    /\ \E q \in QboCustomer :
         /\ Pair(read[r].who, q)
         /\ read[r].recognised /\ read[r].action # "get_invoice" =>
              read[r].invoices = {i \in FirstPage : books[i].customer = q}

\* Invoices are disclosed along one trusted pair of customers, in both directions,
\* on the mapping as the read saw it (gadget.py).
InvoicesAreScoped == OneShopperPerInvoice /\ OneAccountPerShopper

\* What the AR summary promises: an attributed customer is told of every open
\* invoice QuickBooks holds for the account ("only a genuinely-zero,
\* positively-attributed customer gets 0"), here of answers in a known shape.
SummaryCoversTheLedger ==
  \A r \in ReadCall :
    (read[r].kind = "answered" /\ read[r].action = "get_ar_summary"
       /\ read[r].recognised /\ read[r].joined = remaps) =>
      \A q \in ForwardRows(read[r].who) :
        read[r].open = Cardinality({i \in DOMAIN books :
                         books[i].customer = q /\ books[i].balance = "open"})
=============================================================================
