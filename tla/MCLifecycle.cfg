CONSTANTS
    Replicas = {a, b}
    Requests = {q1}
    Envs <- MCEnvs
    KeyDrains <- MCKeyDrains
    Unset = Unset
    Default <- MCDefault
    Refused = Refused
    TTLMargin = 1
    LastMigration = 2
    MaxWriteConns = 2
    ProbeInterval = 1
    SettleTimeout = 1
    MaxReserve = 1
    MaxLate = 1
    MaxStops = 1
    Nobody = Nobody
SPECIFICATION Spec
INVARIANTS
    TypeOK
    MigrationReadHolds
    ReservationOutlivesRequest
PROPERTIES
    ShutdownIsGraceful
    Recovers
