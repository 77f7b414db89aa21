SPECIFICATION FairSpec
CONSTANTS
    Concurrency = 2
    Warmup = 0
    Requests = 2
    Faults = {"deadline", "replacement"}
PROPERTY
    WorkerFailuresAreStored
CHECK_DEADLOCK FALSE
