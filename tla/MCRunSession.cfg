SPECIFICATION Spec
CONSTANTS
    RunIds = {r1, r2}
    Specs = {s1, s2}
    Hosts = {h1, h2}
    Targets = {t1}
    Roles = {a1, a2}
    Metrics = {m1}
    UnknownHost = UnknownHost
    NoTarget = NoTarget
    NoMetrics = NoMetrics
    NoRow = NoRow
    NoCall = NoCall
    Closed = Closed
    NotDone = NotDone
    MaxDepth = 2
    Faults = {"crash", "interrupt", "store"}
    Spec1 = s1
    Host1 = h1
    Role1 = a1
SYMMETRY Symmetry
CONSTRAINT Scope
INVARIANTS
    TablesAgree
    RunningIsOpenOrCut
    CompletedIsDurable
PROPERTIES
    LifecycleSpec
    ArtifactsKept
    ProvenanceFixed
CHECK_DEADLOCK FALSE
