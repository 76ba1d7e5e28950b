SPECIFICATION FairSpec
CONSTANTS
    w1 = w1
    w2 = w2
    up = up
    down = down
    brief = brief
    s1 = s1
    s2 = s2
    Process = {w1, w2}
    Roles <- MCRoles
    PriceRule = {up, down}
    DailyRule = {brief}
    Config <- MCConfig
    Symbol = {s1, s2}
    Price <- MCPrice
    MaxTime = 2
    DayLength = 2
    Open <- MCOpen
    Holiday <- MCHoliday
    Base = 2
    MaxWait = 3
    MaxFaults = 1
    MaxDemo = 1
    Pausable = {up}
    Run = {r1}
    None = None
INVARIANTS
    OncePerDay
    FiredHasEvent
PROPERTIES
    NoCrossingLost
    EveryTickEnds
CHECK_DEADLOCK FALSE
