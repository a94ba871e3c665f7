SPECIFICATION FairFontSpec
CONSTANTS
    Aircraft = {a, b}
    NoPath = none
    Stored = {a}
    CharCount = 2
    MaxUploads = 2
    MaxSwitches = 2
    MaxRestarts = 1
    MaxFaults = 1
INVARIANTS
    FontsDoNotTravel
    OnlyOverlapsTear
PROPERTIES
    FontReachesHostAndDisk
