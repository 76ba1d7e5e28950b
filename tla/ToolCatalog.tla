---------------------------- MODULE ToolCatalog ----------------------------
(***************************************************************************)
(* The tool catalogue an engine process builds when it starts: the rows of *)
(* the capability registry are validated, the menu picks those the         *)
(* settings, the enabled skills and the feature flag allow, and each gets  *)
(* a card with the arguments its contract admits.                          *)
(***************************************************************************)
EXTENDS FiniteSets

CONSTANT Trading    \* names whose name or description speaks of trading

Market == {"market.resolve_instrument", "market.get_realtime_quote",
           "market.get_historical_prices", "market.get_financial_statements",
           "market.get_valuation", "market.get_industry_context",
           "market.get_money_flow", "market.get_news"}
Owned == {"portfolio.get_current_positions", "portfolio.get_account_snapshot",
          "portfolio.get_transaction_history", "user.get_risk_profile"}
WebSearch == "research.web_search"
DeepSearch == "research.deep_search"
Valuation == "portfolio.build_current_valuation"
Analysis == "analysis.run_analysis"
MemoryRecall == "memory.recall"
MetaSearch == "search_tools"
EngineTool == {MemoryRecall, MetaSearch}    \* the engine's own, in no row

-----------------------------------------------------------------------------
(* The parameter contracts: the arguments a call may carry.  All of them   *)
(* forbid others; only limit and top_k may be left out.                    *)

Parameters(name, required) ==
    IF name = "market.get_historical_prices" THEN {"symbol", "lookback_days"}
    ELSE IF name \in Market THEN {"symbol"}
    ELSE IF name \in Owned \cup {Analysis} THEN {}
    ELSE IF name = WebSearch THEN {"query"}
    ELSE IF name = DeepSearch THEN {"question", "objective"}
    ELSE IF name = Valuation
    THEN {"positions_observation", "account_observation", "quote_observations"}
    ELSE IF name = MemoryRecall THEN {"query", "limit"}
    ELSE IF name = MetaSearch THEN {"query", "top_k"}
    ELSE required

CostOf(name) ==
    IF name = DeepSearch THEN "premium" ELSE IF name = MemoryRecall THEN "free" ELSE "normal"

\* A card of a capability; the registry's own flag is not copied.
CardOf(cap) ==
    [name |-> cap.name, parameters |-> Parameters(cap.name, cap.arguments),
     origin |-> IF cap.adapter = "mcp" THEN "mcp" ELSE "local",
     readOnly |-> TRUE, cost |-> CostOf(cap.name),
     scopes |-> cap.toolsets \cup (IF cap.login THEN {"authenticated"} ELSE {})]

EngineCards ==
    {[name |-> n, parameters |-> Parameters(n, {}), origin |-> "local", readOnly |-> TRUE,
      cost |-> CostOf(n), scopes |-> IF n = MemoryRecall THEN {"authenticated"} ELSE {}]
        : n \in EngineTool}

\* build_engine_runtime: all rows are registered once, those of the menu
\* and the two tools of the engine a second time, in the catalogue used.
SourceCards(snapshot) == {CardOf(cap) : cap \in snapshot.capabilities} \cup EngineCards

\* What register refuses: a second card of a name, trading, writing.  The
\* rows' names differ, so a row can only take the name of an engine's tool.
Registrable(snapshot) ==
    /\ \A cap \in snapshot.capabilities : cap.name \notin EngineTool
    /\ \A c \in SourceCards(snapshot) : c.name \notin Trading /\ c.readOnly

-----------------------------------------------------------------------------
(* load_and_validate: what a registry must satisfy for the process to run. *)

ValidCapability(cap, snapshot) ==
    /\ cap.operations # {} /\ cap.operations \subseteq snapshot.operations
    /\ cap.toolsets # {}
    /\ cap.dependsOn \subseteq {c.name : c \in snapshot.capabilities}
    /\ cap.enabled => cap.readOnly

\* Every operation and capability a skill names exists; an enabled skill
\* requires only operations the runtime allows.
ValidSkill(skill, snapshot, runtimeAllowed) ==
    /\ skill.capabilities \subseteq {c.name : c \in snapshot.capabilities}
    /\ skill.required \cup skill.optional \subseteq snapshot.operations
    /\ skill.enabled => skill.required \subseteq runtimeAllowed

ValidSnapshot(snapshot, runtimeAllowed) ==
    /\ snapshot.capabilities # {}
    /\ \A cap \in snapshot.capabilities : ValidCapability(cap, snapshot)
    /\ \A skill \in snapshot.skills : ValidSkill(skill, snapshot, runtimeAllowed)

-----------------------------------------------------------------------------
(* The menu.                                                               *)

EnabledSkills(snapshot) == {s \in snapshot.skills : s.enabled}

EffectiveOperations(snapshot, settings) ==
    settings.runtimeAllowed \cap settings.entitlement
        \cap UNION {s.required \cup s.optional : s \in EnabledSkills(snapshot)}

\* Mutant: the rows are taken as they are, the card says read-only anyway.
EligibleAsListed(snapshot, operations) ==
    {cap \in snapshot.capabilities :
        /\ cap.operations \subseteq operations
        /\ cap.name \in UNION {s.capabilities : s \in EnabledSkills(snapshot)}}

Eligible(snapshot, operations) ==
    {cap \in snapshot.capabilities :
        /\ cap.enabled /\ cap.readOnly
        /\ cap.operations \subseteq operations
        /\ cap.name \in UNION {s.capabilities : s \in EnabledSkills(snapshot)}}

FeatureGate(caps, settings) ==
    {cap \in caps : cap.name = DeepSearch => settings.deepFlag /\ settings.deepInfra}

Menu(snapshot, settings) ==
    FeatureGate(Eligible(snapshot, EffectiveOperations(snapshot, settings)), settings)

Catalogue(snapshot, settings) ==
    {card \in SourceCards(snapshot) :
        \/ card.name \in EngineTool
        \/ card.name \in {cap.name : cap \in Menu(snapshot, settings)}}

=============================================================================
