----------------------------- MODULE ToolCallMC -----------------------------
\* Registries and settings for ToolCall: tools of every route; a registry the
\* process accepts, one with a disabled writing capability, some it refuses.
EXTENDS ToolCall

Row(name, adapter, operation) ==
    [name |-> name, adapter |-> adapter, readOnly |-> TRUE, login |-> name \in Owned,
     arguments |-> {}, dependsOn |-> {}, enabled |-> TRUE, operations |-> {operation},
     toolsets |-> {"market_read"}]
Rows == {Row("market.get_realtime_quote", "mcp", "MARKET"), Row(Statements, "mcp", "MARKET"),
         Row("market.get_news", "mcp", "MARKET"), Row("market.resolve_instrument", "mcp", "MARKET"),
         Row("market.get_historical_prices", "mcp", "MARKET"),
         Row("market.get_money_flow", "mcp", "MARKET"),
         Row(WebSearch, "web", "RESEARCH"), Row(DeepSearch, "web", "RESEARCH"),
         Row("user.get_risk_profile", "java", "PORTFOLIO"), Row(Analysis, "local", "MARKET"),
         Row("planning.plan", "local", "MARKET")}
Skill(rows, required) ==
    [enabled |-> TRUE, capabilities |-> {r.name : r \in rows}, required |-> required,
     optional |-> {"RESEARCH", "PORTFOLIO"}]
Registry(rows, required) ==
    [operations |-> {"MARKET", "RESEARCH", "PORTFOLIO", "WRITE"}, capabilities |-> rows,
     skills |-> {Skill(rows, required)}]

Writing == [Row("market.get_valuation", "mcp", "MARKET") EXCEPT !.readOnly = FALSE]
MCRegistries ==
    {Registry(Rows, {"MARKET"}),
     Registry(Rows \cup {[Writing EXCEPT !.enabled = FALSE]}, {"MARKET"}),
     Registry(Rows \cup {Writing}, {"MARKET"}), Registry(Rows, {"WRITE"}),
     Registry(Rows \cup {Row("broker.buy", "mcp", "MARKET")}, {"MARKET"})}
MCTrading == {"broker.buy"}

Given == [runtimeAllowed |-> {"MARKET", "RESEARCH", "PORTFOLIO"},
          entitlement |-> {"MARKET", "RESEARCH", "PORTFOLIO"},
          deepFlag |-> TRUE, deepInfra |-> TRUE, webSearch |-> TRUE, complete |-> TRUE]
MCSettings == {Given, [Given EXCEPT !.deepFlag = FALSE], [Given EXCEPT !.complete = FALSE],
               [Given EXCEPT !.deepInfra = FALSE, !.webSearch = FALSE]}

=============================================================================
