------------------------------ MODULE MCTools ------------------------------
(***************************************************************************)
(* What a turn's tools do, in five parts that share no state: the agent    *)
(* loop that calls them, the account reads, the knowledge search, the      *)
(* phone lookup of the ingress, and customer memory. A behaviour is one of *)
(* one part; the others stand still.                                       *)
(***************************************************************************)
EXTENDS AgentLoop, AccountReads, KnowledgeBase, PhoneLookup, CustomerMemory, TLC

VARIABLE part

toolsVars == <<part, agentVars, readVars, knowledgeVars, lookupVars, memoryVars>>

Invoice(customer, balance) == [customer |-> customer, balance |-> balance]

\* Customers 1 and 2 within the page and beyond it, a balance no parser reads, and
\* an invoice without a customer.
MCLedger ==
  {<<Invoice(1, "open"), Invoice(2, "open"), Invoice(1, "paid")>>,
   <<Invoice(Nobody, "open"), Invoice(2, "unreadable"), Invoice(1, "open")>>}

AllCredentials == {"qbo", "shopify", "gadget", "easyroutes", "delivery"}

\* Everything, no key for the mapping, and QuickBooks with EasyRoutes alone.
MCCredentials ==
  {AllCredentials, AllCredentials \ {"gadget"}, AllCredentials \ {"shopify", "delivery"}}

\* A part that stands still has one initial state.
ToolsInit ==
  /\ part \in {"agent", "reads", "knowledge", "lookup", "memory"}
  /\ AgentInit /\ ReadsInit /\ KnowledgeInit /\ LookupInit /\ MemoryInit
  /\ part # "agent" => deploy = CHOOSE d \in Deployment : TRUE
  /\ part # "reads" =>
       connected = AllCredentials /\ books = CHOOSE l \in MCLedger : TRUE

AgentMoves ==
  /\ part = "agent" /\ AgentNext
  /\ UNCHANGED <<part, readVars, knowledgeVars, lookupVars, memoryVars>>
ReadsMove ==
  /\ part = "reads" /\ ReadsNext
  /\ UNCHANGED <<part, agentVars, knowledgeVars, lookupVars, memoryVars>>
KnowledgeMoves ==
  /\ part = "knowledge" /\ KnowledgeNext
  /\ UNCHANGED <<part, agentVars, readVars, lookupVars, memoryVars>>
LookupMoves ==
  /\ part = "lookup" /\ LookupNext
  /\ UNCHANGED <<part, agentVars, readVars, knowledgeVars, memoryVars>>
MemoryMoves ==
  /\ part = "memory" /\ MemoryNext
  /\ UNCHANGED <<part, agentVars, readVars, knowledgeVars, lookupVars>>

ToolsNext == AgentMoves \/ ReadsMove \/ KnowledgeMoves \/ LookupMoves \/ MemoryMoves

ToolsSpec == ToolsInit /\ [][ToolsNext]_toolsVars

\* AgentTurn, Shopper and Turn are one set of model values: a behaviour moves one
\* part, and exchanges its own.
ToolsSymmetry == Permutations(Turn)
=============================================================================
