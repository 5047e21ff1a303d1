CONSTANTS
    d3d = d3d
    joy = joy
    Imports <- SomeImports
    Main = main
    Workers = {worker}
    Executables = {"plain", "wrapped", "unknown"}
    MaxCalls = 2
SPECIFICATION FairSpec
INVARIANTS OthersStayCalled HooksFollowCommit StandsDownHolding
PROPERTIES HookedForDirect3D ClockGivenBack
CHECK_DEADLOCK FALSE
