SPECIFICATION Spec
CONSTANTS
    Guests = {g1}
    Jobs = {j1}
    Users = {u1, u2}
    Calls = {c1, c2}
    DailyBudget = 1
    SessionLife = 2
    JobLife = 1
    DayLength = 2
    LastTime = 2
    None = None
PROPERTY ClaimedOnce
CHECK_DEADLOCK FALSE
