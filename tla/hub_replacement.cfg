SPECIFICATION NetworkSpec
CONSTANTS
    Parts = {"failing"}
    Targets = {t1}
    Self = self
    Owner = FALSE
    NShots = 2
    NEvents = 1
    MaxStops = 0
    Faults = FALSE
    Hubs <- LabHubs
    Server <- LabServer
    Devices <- LabDevices
    Home <- LabHome
    Partners <- LabPartners
    MaxLives = 2
    MaxKills = 1
    MaxMisses = 1
INVARIANTS ReplacementIsDistributed
CHECK_DEADLOCK FALSE
