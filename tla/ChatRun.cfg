\* Three runs of one session, two requests in flight, two faults.
CONSTANTS
    r1 = r1
    r2 = r2
    r3 = r3
    s1 = s1
    s2 = s2
    Run <- MCRun3
    NoRun = NoRun
    Slot <- MCSlot2
    MaxFaults = 2
SPECIFICATION Spec
SYMMETRY MCSymmetry
INVARIANTS
    PauseHolds
    CancelHolds
PROPERTIES
    EndedIsSettled
CHECK_DEADLOCK FALSE
