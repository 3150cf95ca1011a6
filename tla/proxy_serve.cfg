CONSTANTS
    m1 = m1
    m2 = m2
    r1 = r1
    r2 = r2
    Models <- MCModels
    MinRunning = 1
    Requests <- MCRequests
    Streaming <- MCStreaming
    MaxFeedbacks = 2
    MaxCommits = 1
    MaxVersion = 1
    Scenarios <- MCScenarios
SPECIFICATION FairSpec
INVARIANTS LabelIsTrue TakenIsKept TakenOnce
PROPERTIES UpdatesReachAll
