SPECIFICATION Spec
CONSTANTS
    Workers = {w1, w2}
    Calls = {c1, c2}
    MaxClaims = 2
    DiskErrors = FALSE
    NoWorker = NoWorker
    NoCall = NoCall
PROPERTY FinalizationIsNotStolen
CHECK_DEADLOCK FALSE
