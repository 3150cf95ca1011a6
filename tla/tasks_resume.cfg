SPECIFICATION Spec
CONSTANTS
    Setups <- MCSetups
    Batch = 2
    Epochs = 3
    SyncInterval = 2
    MaxInflight = 1
    MaxCrashes = 2
INVARIANTS ResumesExactly LossIsBounded
PROPERTIES AllExplored
