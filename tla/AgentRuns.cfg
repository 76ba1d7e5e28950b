\* A guest, known or not, in the research scene and an owner in the watch scene, a budget of two calls
\* (one premium call), two calls in a reply, one hit in a search.
CONSTANTS
    r1 = r1
    r2 = r2
    guest = guest
    visitor = visitor
    ann = ann
    bob = bob
    positions = positions
    deep = deep
    Run <- MCRun
    User <- MCUser
    GuestIds <- MCGuestIds
    None = None
    Recall = Recall
    SearchTools = SearchTools
    Tool <- MCTool
    Card <- MCCard
    Turn <- MCTurn
    MissLimit = 2
    PremiumWeight = 2
    MaxToolCalls = 2
    MaxCalls = 2
    TopK = 1
SPECIFICATION FairSpec
INVARIANTS
    TypeOK
    BoundIsCallable
    ScopedRunsAreIsolated
    ObserverIsActive
    LimitLeavesTwoRounds
PROPERTIES
    EveryRunEnds
CHECK_DEADLOCK FALSE
