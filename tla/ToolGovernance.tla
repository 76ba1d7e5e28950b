-------------------------- MODULE ToolGovernance --------------------------
(***************************************************************************)
(* Which tools a run is bound, and which of its calls the governance       *)
(* middleware lets through.  A tool is known by its card; a scene grants   *)
(* toolsets, a login grants the label "authenticated".                     *)
(***************************************************************************)
EXTENDS Integers, FiniteSets

CONSTANTS
    Tool,           \* names of the catalogue
    Card,           \* the card of each: required_scope, cost_hint, read_only
    SearchTools,    \* the meta tool search_tools
    MissLimit,      \* misses in a row after which search gives up
    PremiumWeight   \* what a premium call costs (3 in the code)

Toolset == {"market_read", "fundamental_read", "news_read", "portfolio_read",
            "financial_profile_read", "planning_compute"}
Label == Toolset \cup {"authenticated"}
CardType == [scopes : SUBSET Label, cost : {"free", "normal", "premium"},
             readOnly : BOOLEAN]

ASSUME ToolAssumption ==
    /\ Card \in [Tool -> CardType]
    /\ SearchTools \in Tool
    /\ Card[SearchTools] = [scopes |-> {}, cost |-> "normal", readOnly |-> TRUE]
    /\ MissLimit \in Nat \ {0} /\ PremiumWeight \in Nat \ {0}

Scene == {"watch", "research"}

SceneToolsets ==
    [watch    |-> {"market_read", "portfolio_read", "financial_profile_read"},
     research |-> {"market_read", "fundamental_read", "news_read", "planning_compute"}]

-----------------------------------------------------------------------------
(* The loader.  Its state is one record, shared by every run: the cards    *)
(* found so far, the misses in a row, and whether it has given up.         *)

Loader == [cache : SUBSET Tool, misses : Nat, fallback : BOOLEAN]
FreshLoader == [cache |-> {}, misses |-> 0, fallback |-> FALSE]

\* Mutant: the meta tool is a tool like the others.
VisibleMeta(t, scene, auth) ==
    Card[t].scopes = {} \/ Card[t].scopes \cap SceneToolsets[scene] # {}

Visible(t, scene, auth) ==
    LET functional == Card[t].scopes \ {"authenticated"} IN
    /\ t # SearchTools
    /\ "authenticated" \in Card[t].scopes => auth
    /\ functional = {} \/ functional \cap SceneToolsets[scene] # {}

LoadScoped(scene, auth) == {t \in Tool : Visible(t, scene, auth)}

SearchPack(loader) == {SearchTools} \cup loader.cache

LoadForTurn(loader, mode, scene, auth) ==
    IF mode = "search" /\ ~loader.fallback THEN SearchPack(loader)
    ELSE LoadScoped(IF loader.fallback THEN "research" ELSE scene, auth)

\* Mutant: the labels are those of the scene although the pack is the wide one.
GrantedOfScene(loader, scene, auth) ==
    SceneToolsets[scene] \cup (IF auth THEN {"authenticated"} ELSE {})

GrantedScopes(loader, scene, auth) ==
    SceneToolsets[IF loader.fallback THEN "research" ELSE scene]
        \cup (IF auth THEN {"authenticated"} ELSE {})

\* The search ranks what the run may see and returns the best few; which
\* they are, and whether any is near enough, is the encoder's.
SearchResults(scene, auth, topK) ==
    {hits \in SUBSET LoadScoped(scene, auth) : Cardinality(hits) <= topK}

AfterSearch(loader, hits) ==
    IF hits # {} THEN [loader EXCEPT !.cache = @ \cup hits, !.misses = 0]
    ELSE [loader EXCEPT !.misses = @ + 1,
                        !.fallback = @ \/ loader.misses + 1 >= MissLimit]

-----------------------------------------------------------------------------
(* The middleware: the gates before a call, in their order.                *)

Weight(t) == IF Card[t].cost = "premium" THEN PremiumWeight ELSE 1

\* G3: the caller's identity, then the labels granted to the run.
AuthGate(t, auth) == "authenticated" \in Card[t].scopes => auth
ScopeGate(t, granted) == Card[t].scopes # {} => Card[t].scopes \cap granted # {}

\* Mutant: G4 lets a call through while anything is left.
BudgetUnweighed(name, loaded, granted, auth, remaining, argumentsOk) ==
    IF name \notin loaded \cap Tool THEN "TOOL_NOT_VISIBLE"
    ELSE IF ~AuthGate(name, auth) THEN "AUTHENTICATION_REQUIRED"
    ELSE IF remaining < 1 THEN "TOOL_BUDGET_EXCEEDED" ELSE "pass"

PreGates(name, loaded, granted, auth, remaining, argumentsOk) ==
    IF name \notin loaded \cap Tool THEN "TOOL_NOT_VISIBLE"
    ELSE IF ~Card[name].readOnly THEN "READ_ONLY_REQUIRED"
    ELSE IF ~AuthGate(name, auth) THEN "AUTHENTICATION_REQUIRED"
    ELSE IF ~ScopeGate(name, granted) THEN "SCOPE_DENIED"
    ELSE IF remaining < Weight(name) THEN "TOOL_BUDGET_EXCEEDED"
    ELSE IF ~argumentsOk THEN "ARGUMENTS_INVALID"
    ELSE "pass"

=============================================================================
