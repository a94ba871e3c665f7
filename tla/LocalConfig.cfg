SPECIFICATION FairSpec
CONSTANTS
    a = a
    b = b
    NONE = NONE
    Paths <- MCPaths
    BootPath = a
    Starts <- MCStarts
    MaxEdits = 1
    MaxRequests = 2
    MaxBoots = 2
INVARIANTS
    FileOfItsAircraft
    SelectedAircraftFlown
PROPERTIES
    DeferredEditPersists
    SaveIsRepinned
