CONSTANTS
    Fps = 2
    UnitsPerFrame = 4
    MaxRate = 3
    Refresh = 3
    FullSpeed = 1
    RateInputs <- SmallRates
    SpeedInputs <- SmallSpeeds
    Grain = 2
    Elapses <- SmallElapses
    Window = 3
    Slack = 3
    Hysteresis = 1
    MaxFF = 2
    Burst = 1
SPECIFICATION FairSpec
INVARIANT NearTheClock
PROPERTIES SettlesDown ForwardsWholeFrames
