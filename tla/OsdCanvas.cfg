SPECIFICATION FairCanvasSpec
CONSTANTS
    MAX_COLS = 3
    MAX_ROWS = 2
    SD_COLS = 2
    SD_ROWS = 1
    Reported <- CanvasSizes
    TextItems = {text}
    SysItems = {sys}
    TextLength = 2
    Inputs <- HostInputs
    MaxDraws = 3
    MaxBoots = 2
    MaxSets = 2
INVARIANTS
    PublishedIsTheCommittedScreen
    RevisionNamesOneFrame
PROPERTIES
    PlacedElementReachesHost
