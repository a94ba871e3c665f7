SPECIFICATION FairSpec
CONSTANTS
    RING = 3
    RECORDS = 4
    StepUs = 1
    Second = 2
    Full = FALSE
    Hz = 1
    PeriodUs = 3
    MaxHz = 2
    MaxWindows = 3
    MaxFaults = 1
INVARIANT
    RingIsFifo
PROPERTIES
    DrainCatchesUp
    ImplementsQueue
