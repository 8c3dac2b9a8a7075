SPECIFICATION FairSpec
CONSTANTS
    Targets = {t1}
    Self = self
    Owner = TRUE
    NShots = 1
    NEvents = 1
    MaxStops = 1
    Faults = FALSE
PROPERTIES TriggerOnlyWhenArmed MeasurementDrains JobEnds
CHECK_DEADLOCK FALSE
