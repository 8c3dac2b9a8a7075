SPECIFICATION SchedulersSpec
CONSTANTS
    \* The jobs: one engine for one kind of job, so that a free one exists.
    SyncEngines = 1
    NParses = 2
    NPlays = 1
    AsyncParses <- NoAsync
    ParsesKept = 1
    PlaysKept = 6
    MaxCancels = 1
    Faults = FALSE
    \* A sequence with a table and an open one, and a parse that belongs to neither; of the
    \* parses that are done the last one is found.
    Sequences = {1, 2}
    OpenSequences = {2}
    Entries = {1}
    NOthers = 1
    LastParses = 1
    MaxCalls = 1
INVARIANTS
    SequencesDoNotInterleave CompletedMeansPlayed
PROPERTIES
    JobsEnd
    QueuedJobsRun
\* Nobody has to submit anything.
CHECK_DEADLOCK FALSE
