SPECIFICATION FairSpec
CONSTANTS
    INVALID = INVALID
    Handles = {11, 12, 13}
    Slots <- MCSlots
    Conns <- MCConns
    Starts <- MCStarts
    RxSize = 3
    MaxSend = 1
    MaxDrops = 1
    MaxStops = 1
INVARIANTS
    SlotsAgree
    ClosedOnce
PROPERTIES
    LeaverFreesSlot
CHECK_DEADLOCK FALSE
