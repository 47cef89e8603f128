CONSTANTS
    NotDecimal = NotDecimal
    NoTable = NoTable
    NoUsage = NoUsage
    NoDetails = NoDetails
    MaxInt = 8
    GuardNum = 3
    GuardDen = 4
    DefaultMaxTokens = 2
    Requests = {r1}
    Providers = {"openai", "anthropic", "google"}
    Models = {"m", "latest"}
    Seed <- MCSeed
    Directories <- MCDirectories
    PromptSizes = {8}
    Ceilings = {0, 1}
    Usages <- MCUsages
    ChunkCounts = {2}
    MaxTime = 3
SPECIFICATION Spec
CHECK_DEADLOCK FALSE
INVARIANTS
    TypeOK
    UniqueRate
    NoSwallowedError
    EveryTokenOnce
    ReservationHolds
