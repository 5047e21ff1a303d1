CONSTANTS
    Fps = 3
    UnitsPerFrame = 4
    MaxRate = 7
    FullSpeed = 2
    SpeedMin = 1
    SpeedMax = 4
    RateInputs <- SmallRates
    SpeedInputs <- SmallSpeeds
    FrameInputs <- SmallFrames
SPECIFICATION FairSpec
INVARIANTS NoDrift PacingExact
PROPERTIES ImplementsClock WalkEnds
