SPECIFICATION Spec
CONSTANTS
    NTasks = 2
    Retries = 1
    MaxAttempts = 3
    Faults = {"torn"}
INVARIANT
    WrittenAnswersAreCheckpointed
CHECK_DEADLOCK FALSE
