CONSTANTS
    NKeys = 2
    Requests = {r1, r2, r3, r4}
    Reapers = {w1, w2}
    Admins = {}
    Models = {m1}
    Amounts = {0, 1}
    Limits = {}
    NoLimit = NoLimit
    Keep = Keep
    TTL = 0
    MonthTicks = 2
    ReapLimit = 2
    MaxNow = 1
    MaxFailures = 0
SPECIFICATION SpecOverdue
SYMMETRY Symmetry
CHECK_DEADLOCK FALSE
INVARIANTS
    NoDeadlockWithoutUpdate
