\* Two runs, no faults: are the endpoints of a run answered?
CONSTANTS
    r1 = r1
    r2 = r2
    r3 = r3
    s1 = s1
    s2 = s2
    Run <- MCRun2
    NoRun = NoRun
    Slot <- MCSlot2
    MaxFaults = 0
SPECIFICATION Spec
INVARIANT EndpointsAnswer
CHECK_DEADLOCK FALSE
