CONSTANTS
    Streams = {s1}
    Dialects = {"openai", "anthropic", "gemini"}
    MaxDrains = 1
    MaxText = 2
SPECIFICATION Spec
CHECK_DEADLOCK FALSE
INVARIANT PartialOutputCounted
