------------------------------ MODULE ToolCall ------------------------------
(***************************************************************************)
(* One engine process starts, or refuses to, and serves tool calls.  A     *)
(* call whose gates passed is dispatched by name to an adapter, awaits one *)
(* or three sources, each with at most one fallback, and its result is     *)
(* wrapped as an observation that the data-quality guard lets through or   *)
(* rejects.  Calls of different runs share nothing here: one at a time.    *)
(***************************************************************************)
EXTENDS ToolCatalog, Naturals, Sequences

CONSTANTS
    Registries,     \* inputs: the rows the capability registry may hold
    SettingsSpace   \* inputs: runtimeAllowed, entitlement, deepFlag, deepInfra,
                    \* webSearch and complete (every credential given)

\* The name is the key of the table the rows are read from.
ASSUME RegistryAssumption ==
    \A snapshot \in Registries : \A c, d \in snapshot.capabilities : c.name = d.name => c = d

VARIABLES registry, settings, cards, call
vars == <<registry, settings, cards, call>>

Status == {"SUCCESS", "PARTIAL", "FAILED", "UNAVAILABLE"}
Mark == {"mock", "stale", "fault"}
Server == {"cn-financial-mcp", "akshare-one-mcp", "java-api", "web-search", "research", "memory"}
Statements == "market.get_financial_statements"
StatementLeg == {"balance_sheet", "income_statement", "cash_flow_statement"}
LegName == StatementLeg \cup {"main"}

-----------------------------------------------------------------------------
(* What may come back.  From an MCP tool: an exception or a time-out, an   *)
(* error by protocol, an error as plain text or as JSON of the forms the   *)
(* adapter knows, or any other text; "empty" is no text at all.  Marks:    *)
(* data said to be mock or stale, wherever in the reply it is said, and a  *)
(* bundle with a fault that one of the research rules blocks.              *)

McpReply == {"raises", "is_error", "text_error", "json_error", "empty", "text"}
Reply == [kind : McpReply \cup Status \cup {"complete", "incomplete", "results",
                    "results_errors", "nothing", "memories", "degraded"},
          marks : SUBSET Mark]

OfData == SUBSET {"mock", "stale"}

\* The Java service answers 400 to an internal caller that names no user.
RepliesOf(server, arguments) ==
    CASE server \in {"cn-financial-mcp", "akshare-one-mcp"} ->
             [kind : McpReply, marks : OfData]
      [] server = "java-api" ->
             [kind : IF "user_id" \in arguments THEN {"raises", "complete", "incomplete"}
                     ELSE {"raises"}, marks : OfData]
      [] server = "web-search" ->
             [kind : {"raises", "results", "results_errors", "nothing"}, marks : OfData]
      [] server = "research" ->
             [kind : {"raises"} \cup Status, marks : SUBSET {"fault"}]
      [] server = "memory" -> [kind : {"memories", "degraded"}, marks : {{}}]

\* Mutant: the adapter looks for a swallowed error as the normalizer does.
SwallowedAsJson(kind) == kind = "json_error"

\* _detect_swallowed_error of the adapter.
Swallowed(kind) == kind \in {"json_error", "text_error"}

\* _try_target: an observation, or nothing; only MCP has a second target.
Usable(server, kind) ==
    server \in {"cn-financial-mcp", "akshare-one-mcp"} =>
        kind \notin {"raises", "is_error"} /\ ~Swallowed(kind)

-----------------------------------------------------------------------------
(* Routes: for each part of the answer, where to ask, best first.          *)

McpRoute ==
    [tool \in Market |->
        CASE tool = "market.get_realtime_quote" -> <<"akshare-one-mcp", "cn-financial-mcp">>
          [] tool \in {"market.get_historical_prices", Statements, "market.get_news"} ->
                 <<"cn-financial-mcp", "akshare-one-mcp">>
          [] OTHER -> <<"cn-financial-mcp">>]

Legs(tool) == IF tool = Statements THEN StatementLeg ELSE {"main"}

\* CatalogToolExecutor._dispatch, in its order: a recall, deep research and
\* the web by name, Java by prefix, then MCP by origin or prefix.
Route(card) ==
    IF card.name = MemoryRecall THEN <<"memory">>
    ELSE IF card.name = DeepSearch THEN <<"research">>
    ELSE IF card.name = WebSearch THEN <<"web-search">>
    ELSE IF card.name \in Owned THEN <<"java-api">>
    ELSE IF card.name \in Market THEN McpRoute[card.name]
    ELSE <<>>

\* The parts of a request the adapter cannot do without.
Needed(tool) == IF tool = DeepSearch THEN {"request_id", "question", "objective"}
                ELSE IF tool \in Owned THEN {"user_id"} ELSE {}

-----------------------------------------------------------------------------
(* Observations.  unavailable and fallback: the parts known to be missing, *)
(* and those a fallback answered; refused: turned down for its arguments.  *)

Obs(status) == [status |-> status, unavailable |-> {}, fallback |-> {}, marks |-> {},
                sourced |-> TRUE, refused |-> FALSE]
Unavailable(tool) == [Obs("UNAVAILABLE") EXCEPT !.unavailable = {tool}, !.sourced = FALSE]
Dict == Obs("SUCCESS")      \* a plain dict, as the middleware wraps it
Raised == Obs("RAISED")

\* create_deep_research_executor: enabled by its own reading of the settings.
DeepEnabled == settings.deepFlag /\ settings.deepInfra

\* The results that come without awaiting anything.
Immediate(card) ==
    IF card.name = DeepSearch
    THEN IF ~DeepEnabled THEN {Unavailable(card.name)}
         ELSE IF ~(Needed(card.name) \subseteq card.parameters)
         THEN {[Obs("FAILED") EXCEPT !.refused = TRUE, !.sourced = FALSE]} ELSE {}
    ELSE IF card.name = WebSearch /\ ~settings.webSearch THEN {Unavailable(card.name)}
    ELSE IF card.name \in {Valuation, Analysis} THEN {Dict}
    ELSE IF Route(card) = <<>> THEN {Raised}
    ELSE {}

\* The texts stay texts: a mark in them is none of the observation's.
McpObs(tool, legs) ==
    LET answered == {l \in DOMAIN legs : legs[l].state = "answered"}
        missing  == DOMAIN legs \ answered IN
    [Obs(IF missing = {} THEN "SUCCESS" ELSE IF answered = {} THEN "FAILED" ELSE "PARTIAL")
        EXCEPT !.unavailable = IF answered = {} THEN {tool} ELSE missing,
               !.fallback = {l \in answered : legs[l].at = 2},
               !.sourced = answered # {}]

\* What becomes of an exception: the deep executor lets it through.
OnError(card) ==
    IF card.name = DeepSearch THEN Raised
    ELSE IF card.name = WebSearch THEN Unavailable(card.name)
    ELSE [Unavailable(card.name) EXCEPT !.sourced = TRUE,
             !.refused = ~(Needed(card.name) \subseteq card.parameters)]

\* The observation of the other adapters, from the one reply they await.
ObsOf(card, reply) ==
    CASE reply.kind = "raises" -> OnError(card)
      [] reply.kind \in {"complete", "results"} ->
             [Obs("SUCCESS") EXCEPT !.marks = reply.marks]
      [] reply.kind = "results_errors" -> [Obs("PARTIAL") EXCEPT !.marks = reply.marks]
      [] reply.kind \in {"incomplete", "nothing"} ->
             [Obs("PARTIAL") EXCEPT !.unavailable = {card.name}, !.marks = reply.marks]
      [] reply.kind \in Status -> [Obs(reply.kind) EXCEPT !.marks = reply.marks]
      [] OTHER -> Dict      \* the recall

Observation(card, legs) ==
    IF card.name \in Market THEN McpObs(card.name, legs) ELSE ObsOf(card, legs["main"].reply)

\* The middleware's wrapper gives an observation without a source its own.
Wrap(obs) == [obs EXCEPT !.sourced = TRUE]

\* Mutant: a partial result is read for its status alone.
GuardStatusOnly(obs) ==
    IF obs.status \in {"FAILED", "UNAVAILABLE"} THEN "DATA_UNAVAILABLE"
    ELSE IF obs.status = "PARTIAL" THEN "allow"
    ELSE IF "mock" \in obs.marks THEN "NON_PRODUCTION_DATA"
    ELSE IF "fault" \in obs.marks THEN "RESEARCH_RULE"
    ELSE IF "stale" \in obs.marks THEN "DATA_STALE" ELSE "allow"

\* The data-quality guard, in the order of its rules; RESEARCH_RULE stands
\* for the codes of the research rules.
Guard(obs) ==
    IF obs.status \in {"FAILED", "UNAVAILABLE"} THEN "DATA_UNAVAILABLE"
    ELSE IF "mock" \in obs.marks THEN "NON_PRODUCTION_DATA"
    ELSE IF "fault" \in obs.marks THEN "RESEARCH_RULE"
    ELSE IF "stale" \in obs.marks THEN "DATA_STALE"
    ELSE IF ~obs.sourced THEN "PROVENANCE_REQUIRED"
    ELSE "allow"

\* What the loop gets: SUCCESS with the observation, or the audit code.
Outcome(obs) ==
    IF obs = Raised
    THEN [status |-> "FAILED", code |-> "TOOL_EXECUTION_FAILED", obs |-> Obs("FAILED")]
    ELSE LET wrapped == Wrap(obs) IN
         [status |-> IF Guard(wrapped) = "allow" THEN "SUCCESS" ELSE "REJECTED",
          code   |-> Guard(wrapped), obs |-> wrapped]

-----------------------------------------------------------------------------
(* The process.                                                            *)

NoCall == [stage |-> "idle"]

Init ==
    /\ registry \in Registries /\ settings \in SettingsSpace
    /\ cards = {} /\ call = [stage |-> "starting"]

\* create_application: incomplete settings, a registry that does not
\* validate or a card the catalogue refuses, and the process exits.
StartChecks ==
    /\ settings.complete
    /\ ValidSnapshot(registry, settings.runtimeAllowed)
    /\ Registrable(registry)

Start ==
    /\ call.stage = "starting" /\ StartChecks
    /\ cards' = Catalogue(registry, settings) /\ call' = NoCall
    /\ UNCHANGED <<registry, settings>>

Refuse ==
    /\ call.stage = "starting" /\ ~StartChecks
    /\ call' = [stage |-> "refused"]
    /\ UNCHANGED <<registry, settings, cards>>

Waiting(card) ==
    [stage |-> "waiting", card |-> card,
     legs |-> [l \in Legs(card.name) |-> [at |-> 1, state |-> "waiting",
                                         reply |-> [kind |-> "empty", marks |-> {}]]]]

\* A call with the arguments its card admits.
Call(card) ==
    /\ call.stage \in {"idle", "done"}
    /\ IF Immediate(card) = {} THEN call' = Waiting(card)
       ELSE \E obs \in Immediate(card) :
                call' = [stage |-> "done", card |-> card, outcome |-> Outcome(obs), legs |-> <<>>]
    /\ UNCHANGED <<registry, settings, cards>>

\* Mutant: after the fallback the first source is tried again.
NextTargetAround(leg, route) ==
    IF leg.at < Len(route) THEN [leg EXCEPT !.at = @ + 1] ELSE [leg EXCEPT !.at = 1]

\* A failed attempt: the fallback, once, or the part is lost.
NextTarget(leg, route) ==
    IF leg.at < Len(route) THEN [leg EXCEPT !.at = @ + 1] ELSE [leg EXCEPT !.state = "lost"]

Return(l) ==
    /\ call.stage = "waiting" /\ l \in DOMAIN call.legs
    /\ LET route == Route(call.card)
           leg   == call.legs[l]
       IN  /\ leg.state = "waiting"
           /\ \E reply \in RepliesOf(route[leg.at], call.card.parameters) :
                  call' = [call EXCEPT !.legs[l] =
                      IF Usable(route[leg.at], reply.kind)
                      THEN [leg EXCEPT !.state = "answered", !.reply = reply]
                      ELSE NextTarget(leg, route)]
    /\ UNCHANGED <<registry, settings, cards>>

\* All parts have come back or are lost.
Finish ==
    /\ call.stage = "waiting" /\ \A l \in DOMAIN call.legs : call.legs[l].state # "waiting"
    /\ call' = [stage |-> "done", card |-> call.card, legs |-> call.legs,
                outcome |-> Outcome(Observation(call.card, call.legs))]
    /\ UNCHANGED <<registry, settings, cards>>

Next ==
    \/ Start \/ Refuse \/ Finish
    \/ \E card \in {c \in cards : c.name # MetaSearch} : Call(card)
    \/ \E l \in LegName : Return(l)

\* Sources answer or time out.
Spec == Init /\ [][Next]_vars
FairSpec == Spec /\ WF_vars(Start \/ Refuse) /\ WF_vars(Finish)
                 /\ \A l \in LegName : WF_vars(Return(l))

-----------------------------------------------------------------------------
(* Properties.                                                             *)

Done == call.stage = "done"

\* Types of the variables.
TypeOK ==
    /\ registry \in Registries /\ settings \in SettingsSpace
    /\ cards \subseteq SourceCards(registry)
    /\ call.stage \in {"starting", "refused", "idle", "waiting", "done"}
    /\ call.stage = "waiting" =>
         \A l \in DOMAIN call.legs :
             call.legs[l] \in [at : {1, 2}, state : {"waiting", "answered", "lost"}, reply : Reply]
    /\ Done => call.outcome.status \in {"SUCCESS", "REJECTED", "FAILED"}

\* An error a data server wrapped as a normal answer, in one of the forms the
\* adapter knows (error:true in JSON, three prefixes of a text), never stands
\* for a part of a result the model is given.
ErrorsAreNotData ==
    Done /\ call.outcome.status = "SUCCESS" => \A l \in DOMAIN call.legs :
        call.legs[l].state = "answered"
            => call.legs[l].reply.kind \notin {"raises", "is_error", "text_error", "json_error"}

\* Where a source answers with fields and not with a text, data said to be
\* mock or outdated, and a research bundle with a fault, reaches the model in
\* no result, complete or partial.  The market's texts are not looked into.
OnlyRealDataPasses ==
    Done /\ call.outcome.status = "SUCCESS" /\ call.card.name \notin Market =>
        \A l \in DOMAIN call.legs : call.legs[l].reply.marks = {}

\* Each card says it is read-only, whatever its row says: a capability that
\* writes is kept from the model by the start checks and the menu alone.
WritingIsNotOffered ==
    \A c \in cards, cap \in registry.capabilities : c.name = cap.name => cap.readOnly

\* Every call ends, and every start, however the sources behave.
EveryCallEnds == call.stage \in {"starting", "waiting"} ~> call.stage \in {"idle", "done", "refused"}

\* Arguments the card's contract admits are arguments its adapter accepts
\* (tools/catalog.py: the tool "reads the positions of the current user").
AcceptedCallIsServed == Done => ~call.outcome.obs.refused

=============================================================================
