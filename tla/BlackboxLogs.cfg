SPECIFICATION FairLogSpec
CONSTANTS
    d1 = d1
    d2 = d2
    Dirs <- MCDirs
    DefaultDir = d1
    Nums <- MCNums
    Caps <- MCCaps
    EnvCap = 2
    MaxTracked = 3
    MaxLogs = 4
    MaxCalls = 2
INVARIANT NumbersFollowAge
PROPERTY NeverOverwritten
PROPERTY CapIsRestored
CHECK_DEADLOCK FALSE
