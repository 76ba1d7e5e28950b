\* Two workers and one task: races of wakeup, recovery, expiry and cancel.
CONSTANTS
    t1 = t1
    t2 = t2
    w1 = w1
    w2 = w2
    Task <- MCTask1
    Worker <- MCWorker2
    MaxTime = 3
    StaleAfter = 1
    BatchLimit = 1
    Cadence = 1
    MaxFaults = 1
SPECIFICATION FairSpec
INVARIANTS
    ClaimIsLease
    CurrentClaimIsExclusive
    CancelledForGood
    SlotIsFree
    CompletedIsNotified
PROPERTIES
    EveryTaskEnds
CHECK_DEADLOCK FALSE
