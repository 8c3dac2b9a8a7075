SPECIFICATION Spec
CONSTANTS
    Targets = {}
    Self = self
    Owner = TRUE
    NShots = 1
    NEvents = 1
    MaxStops = 1
    Faults = FALSE
PROPERTY StoppedIsNotSuccess
CHECK_DEADLOCK FALSE
