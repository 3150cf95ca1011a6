CONSTANTS
    train1 = train1  eval1 = eval1  c1 = c1  c2 = c2
    BatchIds <- TwoIds
    EvalIds <- OneEval
    Clients <- TwoClients
    MaxSubmits = 2
    MaxTasks = 2
    MaxRetries = 2
    ReuseIds = TRUE
    Aborts = FALSE
    Shutdowns = FALSE
    PipelineFaults = FALSE
    TaskFaults = TRUE
    RestartFaults = FALSE
    NoClient = NoClient
SPECIFICATION Spec
SYMMETRY Symmetry
INVARIANTS FinalizedIsComplete NoOrphans
PROPERTIES TerminalIsFinal
\* With every batch finalized and nothing left to submit the system rests.
CHECK_DEADLOCK FALSE
