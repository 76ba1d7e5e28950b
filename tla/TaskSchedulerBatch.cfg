\* Two workers and two tasks: claims of several rows, handled in order, while
\* the other worker recovers, expires and claims.
CONSTANTS
    t1 = t1
    t2 = t2
    w1 = w1
    w2 = w2
    Task <- MCTask2
    Worker <- MCWorker2
    MaxTime = 3
    StaleAfter = 1
    BatchLimit = 2
    Cadence = 1
    MaxFaults = 0
SPECIFICATION Spec
SYMMETRY MCSymmetry
CONSTRAINT MCNoCancel
INVARIANTS
    ClaimIsLease
    CurrentClaimIsExclusive
    SlotIsFree
    CompletedIsNotified
CHECK_DEADLOCK FALSE
