CONSTANTS
    r1 = r1  r2 = r2  c1 = c1  c2 = c2
    Runners <- OneRunner
    Clients <- TwoClients
    Batches = {1}
    EvalBatches = {}
    MaxCalls = 1
    MaxTasks = 1
    SubNum = 2
    MaxStops = 0
    Exclusive = FALSE
    ActorFaults = TRUE
    RestartFaults = FALSE
    EagerGathers = {TRUE}
    NoSub = NoSub
    NoRunner = NoRunner
SPECIFICATION FairSpec
INVARIANTS NoRunnerLost
PROPERTIES DeliveredOnce CallsReturn EverySubTaskRuns
\* With every batch finished and no call left to make the system rests.
CHECK_DEADLOCK FALSE
