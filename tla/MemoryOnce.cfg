CONSTANTS
    e1 = e1
    c1 = c1
    c2 = c2
    EventId <- MCEvent1
    Consumer <- MCConsumer2
    StaleAfter = 2
    MaxTime = 4
    MaxFaults = 1
SPECIFICATION Spec
PROPERTY ProcessedIsFinal
CHECK_DEADLOCK FALSE
