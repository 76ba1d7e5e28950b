\* Two owners with a run each: the memory a recall reads.
CONSTANTS
    r1 = r1
    r2 = r2
    guest = guest
    visitor = visitor
    ann = ann
    bob = bob
    positions = positions
    deep = deep
    Run <- MCRun
    User <- MCUser
    GuestIds <- MCGuestIds
    None = None
    Recall = Recall
    SearchTools = SearchTools
    Tool <- MCTool
    Card <- MCCard
    Turn <- MCOwners
    MissLimit = 2
    PremiumWeight = 2
    MaxToolCalls = 2
    MaxCalls = 2
    TopK = 1
SPECIFICATION Spec
INVARIANTS
    RecallIsOwn
CHECK_DEADLOCK FALSE
