SPECIFICATION FairSpec
CONSTANTS
    Configs <- MCConfigs
    Earlier <- MCEarlier
    EarlierSuite = EarlierSuite
    EarlierChild = EarlierChild
    NoParent = NoParent
    Faults = {"crash", "disk", "escape", "interrupt", "spawn", "store"}
    Sightings <- MCSightings
    Pins <- MCPins
    Procs = {ssh, helper}
    Leader = ssh
    CommandTimeout = 2
    MaxOutput = 1
    Servers <- MCServers
    MaxRedirects = 1
INVARIANTS
    OkSuiteMeansAllRan
    CountsMatchRows
    EvidenceKept
    RunsOnlyOnVerifiedTarget
    DeadlinesAreTimeouts
PROPERTIES
    ProbeEnds
CHECK_DEADLOCK FALSE
