CONSTANTS
    NKeys = 1
    Requests = {r1, r2}
    Reapers = {w1}
    Admins = {}
    Models = {m1}
    Amounts = {0, 1}
    Limits = {1}
    NoLimit = NoLimit
    Keep = Keep
    TTL = 1
    MonthTicks = 2
    ReapLimit = 2
    MaxNow = 3
    MaxFailures = 1
SPECIFICATION Spec
SYMMETRY Symmetry
CHECK_DEADLOCK FALSE
INVARIANTS
    TypeOK
PROPERTY ImplementsLedger
