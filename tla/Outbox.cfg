\* Two relays and two events, under fairness: stale claims, a fault, a requeue.
CONSTANTS
    r1 = r1
    r2 = r2
    Relay <- MCRelay2
    MaxEvents = 2
    MaxAttempts = 2
    StaleAfter = 1
    Backoff = 1
    BatchLimit = 2
    MaxTime = 3
    MaxFaults = 1
    MaxRequeues = 1
SPECIFICATION FairSpec
INVARIANTS
    ClaimsAreLeased
    PublishedWasSent
    FailureIsVisible
PROPERTIES
    ImplementsDelivery
    EveryEventEnds
CHECK_DEADLOCK FALSE
