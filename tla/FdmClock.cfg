SPECIFICATION FairSpec
CONSTANTS
    Sub = 2
    Quantum = 2
    Period = 4
    SpinUs = 2
    MaxDelta = 5
    MaxTs = 13
    MaxPackets = 4
INVARIANTS
    SensorsBeforeTime
    TimeIsConserved
    GyroOnGrid
    NoLostWakeup
PROPERTIES
    ClockAccounts
    BacklogDrains
    ImplementsVirtualClock
