CONSTANTS
    FrameTime = 2
    FullSpeed = 2
    Grain = 4
    WaitInputs = {1, 2, 9}
    MaxAhead = 6
    SpeedInputs <- HalfAndFull
    RateInputs = {}
    SubstepInputs = {TRUE, FALSE}
    SubtickInputs = {FALSE}
    MaxExtra = 2
    GuardMayFail = FALSE
SPECIFICATION Spec
INVARIANTS SwitchOnIsFree NativeCoversGap SlicesWithinFrame
