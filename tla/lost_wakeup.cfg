SPECIFICATION FairSpec
CONSTANTS
    Targets = {}
    Self = self
    Owner = TRUE
    NShots = 1
    NEvents = 1
    MaxStops = 0
    Faults = FALSE
PROPERTY JobWakesWhenPlayIsOver
CHECK_DEADLOCK FALSE
