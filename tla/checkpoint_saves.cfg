SPECIFICATION Spec
CONSTANTS
    MaxStep = 4
    SaveInterval = 2
    SyncInterval = 1
    Keeps = {1, 2}
    Strategies = {"single_thread", "unrestricted"}
    MaxCrashes = 1
    Failures = TRUE
INVARIANTS LoadableUnlessOvertaken CheckpointSurvives
PROPERTIES PublishedOnlyForward SavedIsAnnounced
CHECK_DEADLOCK FALSE
