\* One task, two callers with stale snapshots, retries and crashes.
CONSTANTS
    t1 = t1
    t2 = t2
    c1 = c1
    c2 = c2
    Task <- MCTask1
    Client <- MCClient2
    MaxTime = 3
    StaleAfter = 1
    BatchLimit = 1
    Cadence = 1
    MaxVersion = 5
SPECIFICATION Spec
SYMMETRY ClientSymmetry
INVARIANTS
    VersionNamesContent
    OneNotificationPerCompletion
PROPERTY ImplementsLifecycle
CHECK_DEADLOCK FALSE
