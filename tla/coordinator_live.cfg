CONSTANTS
    train1 = train1  eval1 = eval1  c1 = c1  c2 = c2
    BatchIds <- TwoIds
    EvalIds <- OneEval
    Clients <- TwoClients
    MaxSubmits = 1
    MaxTasks = 2
    MaxRetries = 2
    ReuseIds = FALSE
    Aborts = TRUE
    Shutdowns = TRUE
    PipelineFaults = TRUE
    TaskFaults = FALSE
    RestartFaults = TRUE
    NoClient = NoClient
SPECIFICATION FairSpec
PROPERTIES CallsReturn
\* With every batch finalized and nothing left to submit the system rests.
CHECK_DEADLOCK FALSE
