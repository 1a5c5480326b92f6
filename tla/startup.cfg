SPECIFICATION Spec
CONSTANTS
    None = None
    Files <- SomeFiles
    Millisecond = 1
    Second = 1000
    DurationValues = 4194304
INVARIANTS PartsAsAssumed LimitedAsConfigured
