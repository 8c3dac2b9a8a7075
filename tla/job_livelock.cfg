SPECIFICATION FairSpec
CONSTANTS
    SyncEngines = 1
    NParses = 3
    NPlays = 0
    AsyncParses <- FirstAsync
    ParsesKept = 3
    PlaysKept = 6
    MaxCancels = 0
    Faults = FALSE
PROPERTIES
    FinishedJobsReport
CHECK_DEADLOCK FALSE
