CONSTANTS
    Keys = {k1}
    Reservations = {q1, q2}
    Amounts = {1}
    Limits = {1}
    NoLimit = NoLimit
    MaxMonth = 2
    MaxFaults = 2
    RecordIds = {1, 2}
    NoCost = NoCost
    Master = Master
    PageLimits = {2}
    MaxPage = 1
    DefaultPage = 1
    MaxQueryWindow = 2
    UsageRetention = 1
    BatchSize = 1
SPECIFICATION Spec
SYMMETRY Symmetry
CHECK_DEADLOCK FALSE
INVARIANTS
    TypeOK
    CleanReportIsTrue
    NoFalseAlarm
    UnpricedOnlyUnlimited
    PagesPartition
