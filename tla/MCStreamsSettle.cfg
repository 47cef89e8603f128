CONSTANTS
    Streams = {s1, s2}
    Dialects = {"openai"}
    MaxDrains = 1
    MaxText = 1
SPECIFICATION FairSpec
CHECK_DEADLOCK FALSE
INVARIANT SlotsHeldByDrains
PROPERTY StreamsSettle
