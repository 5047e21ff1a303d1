CONSTANTS
    Size = 6
    Stepped = {2, 4, 6}
    Gm = 3
    Volatile = {4, 5}
    HasCell = TRUE
    MaxMinors = 2
    MaxAgain = 1
    Count = 2
    Slots = 2
    Width = 2
    Far = 2
    Alphas = {1}
    SharedFor = 2
    Odd = {}
SPECIFICATION FrameSpec
INVARIANTS CutHolds WholeSlices WalksTheList OwnMotion SteadyMotion
