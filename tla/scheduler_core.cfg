CONSTANTS
    r1 = r1  r2 = r2  c1 = c1  c2 = c2
    Runners <- TwoRunners
    Clients <- OneClient
    Batches = {1, 2}
    EvalBatches = {2}
    MaxCalls = 1
    MaxTasks = 1
    SubNum = 2
    MaxStops = 0
    Exclusive = TRUE
    ActorFaults = FALSE
    RestartFaults = FALSE
    EagerGathers = {FALSE}
    NoSub = NoSub
    NoRunner = NoRunner
SPECIFICATION Spec
SYMMETRY Symmetry
INVARIANTS NoDoubleBooking
PROPERTIES EmittedOnce
\* With every batch finished and no call left to make the system rests.
CHECK_DEADLOCK FALSE
