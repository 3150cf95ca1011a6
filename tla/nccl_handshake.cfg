CONSTANTS
    NcclStyles <- AllStyles
    MaxTrainSteps = 3
    MaxSyncs = 3
    Timeouts = {TRUE, FALSE}
SPECIFICATION FairSpec
INVARIANTS Handshake VersionIsLoaded BothReturnToRunning
PROPERTIES StoppedIsFinal StopIsNoticed
\* The loops of the two sides end.
CHECK_DEADLOCK FALSE
