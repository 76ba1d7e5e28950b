SPECIFICATION ResearchSpec
CONSTANTS
    u1 = u1
    u2 = u2
    u3 = u3
    Url = {u1, u2, u3}
    Web = {u1, u3}
    Covering = {u1}
    Telling = {u3}
    MaxUnits = 2
    Rounds = 2
    Searches = 3
    Calls = 3
    Stagnation = {1, 2}
    Runtime = 2
    Page = 2
    Rate = 2
    Window = 1
    MaxClock = 3
    MaxOther = 1
INVARIANT
    ExhaustedIsNotComplete
CHECK_DEADLOCK FALSE
