SPECIFICATION Spec
CONSTANTS
    RunIds = {r1, r2}
    Specs = {s1}
    Hosts = {h1}
    Targets = {}
    Roles = {a1}
    Metrics = {m1}
    UnknownHost = UnknownHost
    NoTarget = NoTarget
    NoMetrics = NoMetrics
    NoRow = NoRow
    NoCall = NoCall
    Closed = Closed
    NotDone = NotDone
    Spec1 = s1
    Host1 = h1
    Role1 = a1
    MaxDepth = 2
    Faults = {"interrupt"}
SYMMETRY Symmetry
INVARIANT
    InterruptedRunsAreRecorded
CHECK_DEADLOCK FALSE
