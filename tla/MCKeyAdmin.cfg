CONSTANTS
    NKeys = 1
    Requests = {r1}
    Reapers = {w1}
    Admins = {a1}
    Models = {m1}
    Amounts = {0, 1}
    Limits = {0, 1}
    NoLimit = NoLimit
    Keep = Keep
    TTL = 0
    MonthTicks = 1
    ReapLimit = 1
    MaxNow = 2
    MaxFailures = 1
SPECIFICATION FairSpec
CHECK_DEADLOCK FALSE
INVARIANTS
    RevocationIsImmediate
PROPERTIES
    ImplementsLedger
    PendingCloses
