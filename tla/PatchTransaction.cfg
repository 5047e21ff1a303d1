CONSTANTS
    PageSize = 4
    LastByte = 11
    Protections = {"rx", "ro"}
    OrigProt <- CodeAndImports
    Places <- PagedPlaces
    Foreign = {0, 6, 8}
    MaxSize = 3
    MaxPatches = 4
SPECIFICATION PatchSpec
INVARIANTS AllOrNothing ProtectionsRestored
PROPERTY OnlyGameCodeReplaced
CHECK_DEADLOCK FALSE
