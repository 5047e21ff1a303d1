CONSTANTS
    Stages = {1, 2}
    Bits = {0}
    Settings <- Chosen
    Rates = {0, 240}
    Display = 144
    Displays = {144}
    HasManager = TRUE
    SavesInPlay = FALSE
    ReloadFails = FALSE
    MaxRun = 1
    Full = 2
SPECIFICATION Spec
INVARIANTS PlaysAsRecorded SettingsReturn StreamsOfTheFile
