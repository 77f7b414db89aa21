SPECIFICATION FairSpec
CONSTANTS
    Trials <- MCTrials
    Answers <- MCAnswers
    Requests = 3
    Deadline = 1
    MaxEvents = 2
    MaxRedirects = 1
INVARIANTS
    OkResultIsComplete
    RequestsStayOnTarget
    NoEarlyCut
    MetricsDescribeResults
PROPERTIES
    RequestEnds
CHECK_DEADLOCK FALSE
