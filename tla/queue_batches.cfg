SPECIFICATION Spec
CONSTANTS
    e1 = e1
    e2 = e2
    Writers <- MCWriters
    MaxItems = 3
    Size = 2
    BatchSize = 3
    Capacity = 1
    MaxVersion = 1
    Decay = 1
    UseLimit = 2
    MaxReads = 2
    ItemVersions <- MCItemVersions
    Modes = {"fifo", "once", "reuse"}
INVARIANTS FifoOrder NoFreshExperienceLost
PROPERTIES BufferSpec EndIsTold
CHECK_DEADLOCK FALSE
