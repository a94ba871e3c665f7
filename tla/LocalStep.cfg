SPECIFICATION Spec
CONSTANTS
    Rates <- MCRates
    Dts <- MCDts
    SnapEnabled = TRUE
    RcPeriod = 600
    GuardUs = 10
    SpinUs = 12
    MaxSteps = 3
    MaxBoots = 1
    MaxDisarms = 1
INVARIANTS
    StepTimeIsConserved
    GyroKeepsPace
    RcFramesOnTime
    MotorsAreFresh
    FlipOnlyIfOnAtArming
