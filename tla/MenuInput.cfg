CONSTANTS
    Routes = {"dik"}
    LateRepeats = FALSE
    StalePolls = 2
    MaxQueue = 3
    Screen = 10
    WorkArea = 9
    Presets = {4, 6, 8}
    Scales = {0, 99, 6}
    Drags = {5}
    Surprises = {}
SPECIFICATION PumpSpec
INVARIANTS OnePressOneToggle TypedStaysInMenu WindowAsAsked
