SPECIFICATION Spec
CONSTANTS
    SyncEngines = 1
    NParses = 2
    NPlays = 2
    AsyncParses <- FirstAsync
    ParsesKept = 1
    PlaysKept = 6
    MaxCancels = 1
    Faults = TRUE
INVARIANTS
    TypeOK
    OnePlayAtATime
    MessagesFollowLists
PROPERTIES
    PlaysWhatWasParsed
    PlayNotLost
    ClientsSeeALedger
CHECK_DEADLOCK FALSE
