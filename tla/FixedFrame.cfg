CONSTANTS
    FrameTime = 2
    FullSpeed = 2
    Grain = 4
    WaitInputs = {1, 2, 9}
    MaxAhead = 6
    SpeedInputs <- HalfAndFull
    RateInputs = {TRUE, FALSE}
    SubstepInputs = {TRUE, FALSE}
    SubtickInputs = {TRUE, FALSE}
    MaxExtra = 1
    GuardMayFail = TRUE
SPECIFICATION Spec
INVARIANT MotionKept
PROPERTY FrameWhole
