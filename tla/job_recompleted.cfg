SPECIFICATION Spec
CONSTANTS
    SyncEngines = 1
    NParses = 1
    NPlays = 0
    AsyncParses <- NoAsync
    ParsesKept = 3
    PlaysKept = 6
    MaxCancels = 1
    Faults = FALSE
PROPERTIES
    CanceledStaysCanceled
CHECK_DEADLOCK FALSE
