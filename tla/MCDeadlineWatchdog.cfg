SPECIFICATION WatchdogFairSpec
CONSTANTS
    Callers = {w1, w2}
    Timeouts = {1, 2}
    MaxTokens = 3
    MaxTime = 4
INVARIANTS
    CallbacksAreOwned
    NeverOversleeps
    NoStolenWakeup
PROPERTIES
    FiredWhenDue
    DueIsInterrupted
    CancelReturns
CHECK_DEADLOCK FALSE
