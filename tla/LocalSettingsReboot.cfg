SPECIFICATION SettingsSpec
CONSTANTS
    MAX_MODE_ACTIVATION_CONDITION_COUNT = 2
    MAX_MODE_RANGE_STEP = 1
    SITL_LOCAL_MAX_RC_CHANNELS = 1
    Boxes <- MCBoxes
    Paths = {"a", "b"}
    BootPath = "a"
    NoFile = NoFile
    Aircraft <- MCAircraft
    Default <- Factory
    Conditions <- MCConditions
    MaxEdits = 2
    MaxRequests = 2
PROPERTY RebootApplies
