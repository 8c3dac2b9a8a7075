SPECIFICATION Spec
CONSTANTS
    Targets = {}
    Self = self
    Owner = TRUE
    NShots = 2
    NEvents = 1
    MaxStops = 1
    Faults = FALSE
INVARIANT ShotsDoNotOverlap
CHECK_DEADLOCK FALSE
