CONSTANTS
    PageSize = 4
    LastByte = 7
    Protections = {"rx", "ro"}
    OrigProt <- CodeAndImports
    Places <- Th14Places
    Foreign = {}
    MaxSize = 3
    MaxPatches = 4
SPECIFICATION PatchSpec
INVARIANT ProtectionsRestored
CHECK_DEADLOCK FALSE
