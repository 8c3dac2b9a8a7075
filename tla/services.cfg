SPECIFICATION Spec
CONSTANTS
    \* An urgent event, one more, and one that a queue that is started again handles.
    MaxEvents = 3
    MaxClears = 1
    MaxStarts = 2
    \* Two senders; enough messages for a group that is sent, one that waits and one between.
    Senders = {1, 2}
    MaxMessages = 4
    MaxStops = 1
    \* A task and its replacement, run by the loop and by a client.
    TaskIDs = {1}
    MaxAdds = 2
    MaxChanges = 2
    MaxRuns = 1
    \* Two devices below the parsing one, the events of one perhaps for the other; a parse and
    \* the one after it, which may meet an answer to the first.
    NDevices = 2
    NParses = 2
    MaxAborts = 1
    \* Two tickets for one job, or one for the parse and one for the play.
    MaxTickets = 2
INVARIANTS
    ServicesTypeOK
    QueueAtMostOnce
    GrouperOrder
    TaskListsAgree TaskRunsAlone
    TicketsTellTruth TicketsInMap
    ParsedMeansAllParsed EventsReachTheirDevice
PROPERTIES
    QueueIsMailbox QueueHandles QueueStops
    GrouperSends
    TaskReplacementStays TaskDueRuns
    TicketsEnd
    ParseEnds
\* A service may have nothing left to do.
CHECK_DEADLOCK FALSE
