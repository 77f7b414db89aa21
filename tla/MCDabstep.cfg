SPECIFICATION FairSpec
CONSTANTS
    NTasks = 2
    Retries = 1
    MaxAttempts = 3
    Faults = {"crash", "raise", "torn", "orphan"}
INVARIANTS
    OkMeansComplete
    OkSampleHasAnswer
    RecordedOutputIsMerged
PROPERTIES
    ProgressIsKept
    InvocationEnds
CHECK_DEADLOCK FALSE
