SPECIFICATION Spec
CONSTANTS
    Requests = {q1, q2, q3}
    Accounts = {a1, a2}
    MaxAttempts = 1
    Limit = 1
    Concurrency = 3
    LastDay = 2
    NoAccount = NoAccount
SYMMETRY Symmetry
INVARIANT LimitHoldsEveryDay
CHECK_DEADLOCK FALSE
