SPECIFICATION FairSpec
CONSTANTS
    Concurrency = 2
    Warmup = 0
    Requests = 3
    Faults = {"deadline", "interrupt", "replacement"}
INVARIANTS
    EachClientOnce
    OkRunWasWarm
PROPERTIES
    TrialEnds
CHECK_DEADLOCK FALSE
