SPECIFICATION NetworkSpec
CONSTANTS
    Parts = {"owned", "crashing", "failing", "growing"}
    Targets = {t1}
    Self = self
    Owner = FALSE
    NShots = 2
    NEvents = 1
    MaxStops = 0
    Faults = FALSE
    Hubs <- LabHubs
    Server <- LabServer
    Devices <- LabDevices
    Home <- LabHome
    Partners <- LabPartners
    MaxLives = 2
    MaxKills = 1
    MaxMisses = 1
INVARIANTS HubTypeOK DevicesAreFound OwnersKeepDevices HubsReconnect
PROPERTIES PlayReadyMeansAllAnswered
CHECK_DEADLOCK FALSE
