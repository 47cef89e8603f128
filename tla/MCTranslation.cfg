CONSTANTS
    NotDecimal = NotDecimal
    NoTable = NoTable
    NoUsage = NoUsage
    NoDetails = NoDetails
    Unset = Unset
    MaxInt = 8
    GuardNum = 3
    GuardDen = 4
    DefaultMaxTokens = 2
    ClientRequests <- MCClientRequests
    Messages <- MCMessages
    EffortLevels <- MCEffortLevels
    MaxFaults = 1
    MaxBlocks = 2
    MaxFrags = 2
SPECIFICATION Spec
CHECK_DEADLOCK FALSE
INVARIANTS
    TypeOK
    StreamIsTheResponse
    ToolCallsWellFormed
    StreamMeterAgrees
    LimitsReachTheProvider
PROPERTY FramingKeepsEvents
