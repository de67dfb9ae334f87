SPECIFICATION Spec
CONSTANTS
    Dispatchers = {d1, d2}
    Workers = {w1}
    RetryCount = 1
    UserSteps = 2
    Nobody = Nobody
INVARIANTS
    TypeOK
PROPERTIES
    PlacedOnce
    QueuedIsKept
    DeferredIsDispatched
    RunsEnd
CHECK_DEADLOCK FALSE
