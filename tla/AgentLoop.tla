------------------------------ MODULE AgentLoop ------------------------------
(***************************************************************************)
(* A governed agent turn: booting a profile into the tool registry of the  *)
(* process, the completions of the model with their fallback, and the      *)
(* dispatch of the tool calls (boot.py, live.py, openrouter.py,            *)
(* plugin/__init__.py, execute.py, tool_backend.py).                       *)
(*                                                                         *)
(* A process serves its turns one after the other: the workers are loops,  *)
(* and the routes await nothing while a turn runs.  The registry and the   *)
(* provider class are process globals: what one turn, or a plugin          *)
(* discovery, leaves there is what the next one finds.                     *)
(***************************************************************************)
EXTENDS Naturals, Sequences, SequencesExt

CONSTANTS
  AgentTurn,      \* the turns a process serves; each has a conversation of its own
  MaxIterations,  \* max_iterations of the agent
  MaxCalls,       \* bound on the tool calls of one completion
  MaxHistory      \* bound: with so many calls made, the model asks for no more

ASSUME AgentAssumption ==
  MaxIterations \in Nat \ {0} /\ MaxCalls \in Nat \ {0} /\ "none" \notin AgentTurn

VARIABLES
  deploy,      \* the home of the process and its flags
  registry,    \* tools.registry, by (tool, action)
  discovered,  \* whether the plugin discovery has run
  provider,    \* run_agent.OpenAI
  served,      \* turns taken up so far
  agent,       \* the turn in progress
  calls        \* history: the requests that reached a driver, in order

agentVars == <<deploy, registry, discovered, provider, served, agent, calls>>

(***************************************************************************)
(* Profiles and catalog                                                    *)
(***************************************************************************)
\* One representative of each kind of catalog entry the profiles tell apart.
Catalog == {<<"toee_customer_memory", "upsert_preference">>,
            <<"toee_customer_memory", "get_memory_audit">>,
            <<"toee_knowledge_search", "search_public_site">>,
            <<"toee_shopify_read", "get_order">>,
            <<"toee_sms_reply", "send_message">>,
            <<"toee_agent_experience", "propose_experience">>,
            <<"toee_agent_experience", "confirm_experience">>}

SharedTools == {"toee_customer_memory", "toee_knowledge_search", "toee_shopify_read"}

PROFILE_TOOL_ALLOWLIST ==
  [external |-> SharedTools \cup {"toee_sms_reply"},
   internal |-> SharedTools \cup {"toee_agent_experience"}]

AGENT_EXCLUDED_ACTIONS == {<<"toee_customer_memory", "get_memory_audit">>,
                           <<"toee_agent_experience", "confirm_experience">>}

\* The turn worker, the copilot server and the background worker's review fork.
Home == {"turn", "draft", "review"}

Profile(home) == IF home = "turn" THEN "external" ELSE "internal"

\* resolve_profile of a bare context: the environment's profile, which only the
\* copilot server sets to the internal one, else the external default.
resolve_profile(home) == IF home = "draft" THEN "internal" ELSE "external"

Registered(profile) ==
  {e \in Catalog : e[1] \in PROFILE_TOOL_ALLOWLIST[profile]} \ AGENT_EXCLUDED_ACTIONS

\* The per-tool driver overlays of a turn: _turn_extra_drivers and
\* _agent_experience_extra_drivers.
Overlay(d) ==
  [tool \in (IF d.memory /\ d.home = "turn" THEN {"toee_customer_memory"} ELSE {})
            \cup (IF d.knowledge /\ d.home # "review" THEN {"toee_knowledge_search"} ELSE {})
            \cup (IF d.learning /\ d.home = "review" THEN {"toee_agent_experience"} ELSE {})
     |-> IF tool = "toee_knowledge_search" THEN "knowledge" ELSE "datastore"]

\* extra_drivers, then Composio for the tools it serves, then the mock.
SelectDriver(overlay, d, tool) ==
  IF tool \in DOMAIN overlay THEN overlay[tool]
  ELSE IF d.composio /\ tool = "toee_shopify_read" THEN "composio"
  ELSE "mock"

\* The binding a handler closes over: only an external turn has a conversation.
Binding(d, t) == [identity |-> t, conversation |-> IF d.home = "turn" THEN t ELSE "none"]

Unbound == [identity |-> "none", conversation |-> "none"]

\* registry.register(): the last write of a name wins, the other names stay.
Registration(profile, overlay, binding) ==
  LET new == Registered(profile) IN
    [e \in new \cup DOMAIN registry |->
       IF e \in new THEN [driver |-> SelectDriver(overlay, deploy, e[1]), binding |-> binding]
       ELSE registry[e]]

(***************************************************************************)
(* Boot                                                                    *)
(***************************************************************************)
NoTurn == [at |-> "none"]

Load(t) ==
  /\ agent.at = "none"
  /\ t \notin served
  /\ served' = served \cup {t}
  /\ agent' = [at |-> "discover", turn |-> t, pos |-> 0, index |-> 0, model |-> "primary"]
  /\ UNCHANGED <<deploy, registry, discovered, provider, calls>>

\* The bare register(ctx) of the plugin, once per process.
BareDiscovery ==
  /\ discovered' = TRUE
  /\ registry' = IF discovered THEN registry
                 ELSE Registration(resolve_profile(deploy.home), [tool \in {} |-> "mock"], Unbound)

\* Mutant: the boot leaves the discovery to the agent.
discover_plugins_later ==
  /\ agent.at = "discover"
  /\ agent' = [agent EXCEPT !.at = "register"]
  /\ UNCHANGED <<deploy, registry, discovered, provider, served, calls>>

\* _boot runs the discovery before its own registration.
discover_plugins ==
  /\ agent.at = "discover"
  /\ BareDiscovery
  /\ agent' = [agent EXCEPT !.at = "register"]
  /\ UNCHANGED <<deploy, provider, served, calls>>

\* register_turn for an external turn, register for the other two.
register_turn ==
  /\ agent.at = "register"
  /\ registry' = Registration(Profile(deploy.home), Overlay(deploy), Binding(deploy, agent.turn))
  /\ agent' = [agent EXCEPT !.at = "setup"]
  /\ UNCHANGED <<deploy, discovered, provider, served, calls>>

\* run_agent_turn replaces the provider class and builds the agent, which
\* imports the tools and so runs the discovery if nothing has yet.
AgentSetup ==
  /\ agent.at = "setup"
  /\ BareDiscovery
  /\ provider' = "fallback client"
  /\ agent' = [agent EXCEPT !.at = "complete"]
  /\ UNCHANGED <<deploy, served, calls>>

(***************************************************************************)
(* Completions                                                             *)
(***************************************************************************)
\* The finally of run_agent_turn.
Leave ==
  /\ agent' = NoTurn
  /\ provider' = "original"

\* The completion is a list of tool calls, or the final response.  Nothing reads
\* a call of the list before it is dispatched, so it is chosen then.
Ask ==
  /\ agent.at = "complete"
  /\ agent.pos < MaxIterations
  /\ Len(calls) < MaxHistory
  /\ agent' = [agent EXCEPT !.at = "dispatch", !.pos = agent.pos + 1, !.index = 1]
  /\ UNCHANGED <<deploy, registry, discovered, provider, served, calls>>

Answer ==
  /\ agent.at = "complete"
  /\ Leave
  /\ UNCHANGED <<deploy, registry, discovered, served, calls>>

\* Mutant: the whole turn is run again on the fallback model.
RetryTurn == [agent EXCEPT !.model = "fallback", !.pos = 0]

\* The same completion is asked of the fallback model.
RetryCompletion == [agent EXCEPT !.model = "fallback"]

Retryable ==
  /\ agent.at = "complete" /\ agent.model = "primary"
  /\ agent' = RetryCompletion
  /\ UNCHANGED <<deploy, registry, discovered, provider, served, calls>>

\* An error that is not retryable, or one of the fallback model.
CompletionRaises ==
  /\ agent.at = "complete"
  /\ Leave
  /\ UNCHANGED <<deploy, registry, discovered, served, calls>>

(***************************************************************************)
(* Dispatch                                                                *)
(***************************************************************************)
\* create_turn_binding_gate
GateAllows(handler, e, target) ==
  \/ e[1] # "toee_sms_reply"
  \/ handler.binding.conversation = "none"
  \/ target = handler.binding.conversation

\* valid_tool_names: the booted names, and for the review fork only the L6 tool.
ValidNames ==
  LET booted == Registered(Profile(deploy.home)) IN
    IF deploy.home = "review" THEN {e \in booted : e[1] = "toee_agent_experience"} ELSE booted

\* The next call of the list; after the last one the next completion, asked of
\* the primary model again.
GoesOn ==
  \/ agent.index < MaxCalls /\ agent' = [agent EXCEPT !.index = agent.index + 1]
  \/ agent' = [agent EXCEPT !.at = "complete", !.index = 0, !.model = "primary"]

\* A reply names the conversation it goes to; the other tools name none.
Targets(e) == IF e[1] = "toee_sms_reply" THEN AgentTurn ELSE {"none"}

Allowed(e, target) == e \in ValidNames /\ GateAllows(registry[e], e, target)

\* execute_tool: whatever the driver does becomes a result of the call.
execute_tool(e, target) ==
  /\ agent.at = "dispatch"
  /\ Allowed(e, target)
  /\ calls' = Append(calls,
       [turn |-> agent.turn, pos |-> agent.pos, index |-> agent.index, entry |-> e,
        target |-> target, handler |-> registry[e]])
  /\ GoesOn
  /\ UNCHANGED <<deploy, registry, discovered, provider, served>>

\* Not a tool of the turn, or denied by the gate.
CallRefused ==
  /\ agent.at = "dispatch"
  /\ \E e \in Catalog : \E target \in Targets(e) : ~Allowed(e, target)
  /\ GoesOn
  /\ UNCHANGED <<deploy, registry, discovered, provider, served, calls>>

\* The process dies in the middle of a turn and is restarted; the registry and
\* the provider class are built anew.  The job's retry is another turn.
ProcessRestarts ==
  /\ agent.at # "none"
  /\ Leave
  /\ registry' = [e \in {} |-> Unbound]
  /\ discovered' = FALSE
  /\ UNCHANGED <<deploy, served, calls>>

(***************************************************************************)
(* Specification                                                           *)
(***************************************************************************)
\* A flag the entry point of a process does not read is left off.
Deployment ==
  {d \in [home: Home, memory: BOOLEAN, knowledge: BOOLEAN, learning: BOOLEAN, composio: BOOLEAN] :
     /\ d.memory \/ d.knowledge => d.home # "review"
     /\ d.learning => d.home = "review"}

AgentInit ==
  /\ deploy \in Deployment
  /\ registry = [e \in {} |-> Unbound]
  /\ discovered = FALSE
  /\ provider = "original"
  /\ served = {}
  /\ agent = NoTurn
  /\ calls = << >>

Boot ==
  \/ \E t \in AgentTurn : Load(t)
  \/ discover_plugins
  \/ register_turn
  \/ AgentSetup

Completion ==
  \/ Ask
  \/ Answer
  \/ Retryable
  \/ CompletionRaises

Dispatch ==
  \/ \E e \in Catalog : \E target \in Targets(e) : execute_tool(e, target)
  \/ CallRefused

AgentNext == Boot \/ Completion \/ Dispatch \/ ProcessRestarts

AgentSpec == AgentInit /\ [][AgentNext]_agentVars

(***************************************************************************)
(* Properties                                                              *)
(***************************************************************************)
\* Every call that reaches a driver reaches the one its turn was booted with and
\* carries the identity and the conversation of that turn, whatever an earlier
\* turn or the plugin discovery left in the registry (boot.py _boot: "our
\* overlay-aware boot is always what registers last").
CallsRunUnderTheirTurn ==
  \A c \in Range(calls) :
    /\ c.handler.binding = Binding(deploy, c.turn)
    /\ c.handler.driver = SelectDriver(Overlay(deploy), deploy, c.entry[1])

\* An SMS reply a tool call sends goes to the conversation of its own turn
\* (create_turn_binding_gate).
RepliesStayInTheirConversation ==
  \A c \in Range(calls) : c.entry[1] = "toee_sms_reply" => c.target = c.turn

\* c was made before the place p of its turn's transcript: from an earlier
\* completion, or earlier in the list of the same one.
Earlier(c, p) == c.pos < p.pos \/ (c.pos = p.pos /\ c.index < p.index)

\* A fallback never repeats a governed action of the turn: whatever completions
\* fail over, whichever calls of a list are refused and wherever a process dies,
\* the calls of a turn follow the order of its transcript, each place at most
\* once, and all of them lie before the place the turn is at
\* (make_fallback_openai_factory: "the fallback never repeats a governed action
\* already taken earlier in the turn").
FallbackRepeatsNothing ==
  /\ \A i, j \in DOMAIN calls :
       calls[i].turn = calls[j].turn /\ i < j => Earlier(calls[i], calls[j])
  /\ \A i \in DOMAIN calls :
       agent.at # "none" /\ calls[i].turn = agent.turn =>
         IF agent.at = "dispatch" THEN Earlier(calls[i], agent) ELSE calls[i].pos <= agent.pos

\* Between turns the provider class of the process is the original one, also
\* after a turn that raised (run_agent_turn's finally).
ProviderIsRestored == agent.at = "none" => provider = "original"

\* A turn leaves nothing to the next one and takes nothing from the one before:
\* driver, identity, conversation and provider are its own (boot.py, live.py).
TurnsAreIsolated ==
  CallsRunUnderTheirTurn /\ RepliesStayInTheirConversation /\ ProviderIsRestored
=============================================================================
