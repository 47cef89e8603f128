CONSTANTS
    Streams = {s1}
    Dialects = {"openai", "anthropic", "gemini"}
    MaxDrains = 1
    MaxText = 4
SPECIFICATION Spec
CHECK_DEADLOCK FALSE
INVARIANTS
    TypeOK
    MeasurementIsExact
    CleanMeansComplete
