SPECIFICATION FairSpec
CONSTANTS
    Procs = {leader, helper}
    Leader = leader
    Handlers = {h1, h2}
    Faults = {"escape", "interrupt", "spawn"}
INVARIANTS
    EveryClientIsClosed
PROPERTIES
    NoRequestsAfterTimeout
    RequestsEnd
    TrialEnds
CHECK_DEADLOCK FALSE
