SPECIFICATION Spec
CONSTANTS
    Legacy <- LegacyRows
    Found <- FoundSchema
    Files <- FilePlaces
    Content <- FileContent
    PrivateKeys = {"_note"}
    MissingHeads = {"gone"}
    Speeds = {1, 2}
    Replies <- GivenReplies
    Scripts <- GivenScripts
    MaxKills = 2
INVARIANTS
    MigrationConverges
    SweepIsAccounted
    NoBenchLeftBehind
    AgentRecordsAgree
    ComparisonShowsLatest
CHECK_DEADLOCK FALSE
