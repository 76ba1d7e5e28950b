\* One worker, no fault: what becomes of a creation the user confirmed.
CONSTANTS
    t1 = t1
    t2 = t2
    w1 = w1
    w2 = w2
    Task <- MCTask1
    Worker <- MCWorker1
    MaxTime = 4
    StaleAfter = 1
    BatchLimit = 1
    Cadence = 1
    MaxFaults = 0
SPECIFICATION Spec
INVARIANT CreatesAreStored
CHECK_DEADLOCK FALSE
