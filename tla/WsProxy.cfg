SPECIFICATION FairSpec
CONSTANTS
    ZERO = ZERO
    INVALID = INVALID
    Conns <- MCConns
    Handles <- MCHandles
    Slots <- MCSlots
    MaxStarts = 2
INVARIANTS
    NoSocketLeaks
    SlotsAreGivenBack
PROPERTIES
    LinkLossReachesPeer
    LeaverReleasesMsp
CHECK_DEADLOCK FALSE
