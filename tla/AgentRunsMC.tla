---------------------------- MODULE AgentRunsMC ----------------------------
\* Cards, users and turns for AgentRuns: one tool of each kind the gates tell
\* apart.  In the research scene the API's guest, or a caller by a name the
\* engine takes for a guest's, which only an assembly without login admits.
EXTENDS AgentRuns, TLC

CONSTANTS r1, r2, guest, visitor, ann, bob, positions, deep

MCRun == {r1, r2}
MCUser == {guest, visitor, ann, bob}
MCGuestIds == {visitor}
MCTool == {positions, deep, Recall, SearchTools}
MCCard == [t \in MCTool |->
    CASE t = positions   -> [scopes |-> {"portfolio_read", "authenticated"},
                             cost |-> "normal", readOnly |-> TRUE]
      [] t = deep        -> [scopes |-> {"news_read"}, cost |-> "premium", readOnly |-> TRUE]
      [] t = Recall      -> [scopes |-> {"authenticated"}, cost |-> "free", readOnly |-> TRUE]
      [] t = SearchTools -> [scopes |-> {}, cost |-> "normal", readOnly |-> TRUE]]
MCTurn == (r1 :> [user : {guest, visitor}, scene : {"research"}])
       @@ (r2 :> {[user |-> bob, scene |-> "watch"]})
MCOwners == (r1 :> {[user |-> ann, scene |-> "research"]})
         @@ (r2 :> {[user |-> bob, scene |-> "watch"]})

=============================================================================
