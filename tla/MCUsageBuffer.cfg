CONSTANTS
    Records = {r1, r2, r3, r4}
    Capacity = 2
    BatchSize = 2
    Outcomes = {"ok", "fail", "unknown"}
    MaxFailures = 2
SPECIFICATION FairBufferSpec
CHECK_DEADLOCK FALSE
INVARIANTS
    BufferTypeOK
    AcceptedIsHeld
    CleanShutdownKeepsAll
PROPERTY AcceptedIsWritten
