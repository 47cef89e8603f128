CONSTANTS
    Keys = {k1, k2}
    Reservations = {r1, r2, r3}
    Amounts = {1, 3}
    Limits = {3}
    NoLimit = NoLimit
    MaxMonth = 1
SPECIFICATION Spec
SYMMETRY Symmetry
CHECK_DEADLOCK FALSE
INVARIANTS
    TypeOK
    BalanceMatchesLog
    SpendWithinCeiling
PROPERTY WindowNeverGoesBack
