SPECIFICATION FairTelemetrySpec
CONSTANTS
    Motors = {0, 1}
    Packets <- HostPackets
    Looptimes = {1, 2}
    LpfHz = {1, 3}
    DefaultVolts = 4
    RestTemp = 25
    MinPack = 2
    StableReads = 2
    FilterScale = 2
    MaxTemp = 255
    MaxInputs = 3
    MaxBoots = 2
    MaxCharge = 2
INVARIANT ReportsAreOfThisPowerUp
PROPERTY SteadyDataArrives
CHECK_DEADLOCK FALSE
