SPECIFICATION Spec
CONSTANTS
    Targets = {}
    Self = self
    Owner = TRUE
    NShots = 2
    NEvents = 2
    MaxStops = 1
    Faults = TRUE
INVARIANTS TypeOK JobReturnsQuiescent
PROPERTIES SuccessMeansPlayed ReportMatchesResult EventsOnlyInTheirShot
CHECK_DEADLOCK FALSE
