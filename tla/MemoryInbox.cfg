CONSTANTS
    e1 = e1
    c1 = c1
    c2 = c2
    EventId <- MCEvent1
    Consumer <- MCConsumer2
    StaleAfter = 2
    MaxTime = 4
    MaxFaults = 3
SPECIFICATION FairSpec
INVARIANTS ProcessedIsRemembered FailureIsRedelivered
PROPERTIES SecondConsumerWaits EverythingSettles
CHECK_DEADLOCK FALSE
