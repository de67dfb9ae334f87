SPECIFICATION Spec
CONSTANTS
    Requests = {q1, q2}
    Accounts = {a1, a2}
    MaxAttempts = 2
    Limit = 2
    Concurrency = 1
    LastDay = 1
    NoAccount = NoAccount
SYMMETRY Symmetry
INVARIANT UncertainIsNotResent
CHECK_DEADLOCK FALSE
