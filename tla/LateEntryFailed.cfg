CONSTANTS
    d3d = d3d
    joy = joy
    Imports <- SomeImports
    Main = main
    Workers = {worker}
    Executables = {"plain", "wrapped", "unknown"}
    MaxCalls = 2
SPECIFICATION Spec
INVARIANT FailureLeavesUntouched
CHECK_DEADLOCK FALSE
