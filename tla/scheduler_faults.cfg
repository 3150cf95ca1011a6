CONSTANTS
    r1 = r1  r2 = r2  c1 = c1  c2 = c2
    Runners <- TwoRunners
    Clients <- OneClient
    Batches = {1}
    EvalBatches = {}
    MaxCalls = 2
    MaxTasks = 1
    SubNum = 1
    MaxStops = 1
    Exclusive = TRUE
    ActorFaults = TRUE
    RestartFaults = TRUE
    EagerGathers = {TRUE, FALSE}
    NoSub = NoSub
    NoRunner = NoRunner
SPECIFICATION Spec
SYMMETRY Symmetry
INVARIANTS ResultsAreCurrent StopQuiesces
PROPERTIES QuietAfterCleanup
\* With every batch finished and no call left to make the system rests.
CHECK_DEADLOCK FALSE
