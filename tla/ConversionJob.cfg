SPECIFICATION Spec
CONSTANTS
    Workers = {w1, w2}
    Calls = {c1, c2}
    MaxClaims = 2
    DiskErrors = TRUE
    NoWorker = NoWorker
    NoCall = NoCall
SYMMETRY Symmetry
INVARIANTS
    TypeOK
    ActiveClaimIsNewest
    FinalizingIsRecoverable
    DeliveredResultExists
    AckedUploadWon
PROPERTIES
    DeliveredRowIsFinal
    RecoveryRevokesWhatItSaw
    ImplementsLease
CHECK_DEADLOCK FALSE
