SPECIFICATION Spec
CONSTANTS
    Procs = {leader, helper}
    Leader = leader
    Handlers = {h1}
    Faults = {}
INVARIANT
    NoOrphanedDescendants
CHECK_DEADLOCK FALSE
