SPECIFICATION Spec
CONSTANTS
    x = x
    y = y
    Explorers <- MCExplorers
    MaxStep = 4
    MaxInflight = 2
    MaxTimeouts = 1
    Settings <- MCSettings
INVARIANTS CountsAreTrue TagNotAhead OnSchedule
PROPERTIES PullReturns EveryStepTrained
CHECK_DEADLOCK FALSE
