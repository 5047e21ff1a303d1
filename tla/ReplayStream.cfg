CONSTANTS
    Fps = 3
    UnitsPerFrame = 4
    MaxRate = 7
    MaxFrame = 7
    RateInputs <- SmallRates
    DisplayChanges = FALSE
SPECIFICATION Spec
INVARIANTS SlicedByFrame StreamIsTheStage
PROPERTY PlaybackReadsOwnTick
