SPECIFICATION GamesSpec
CONSTANTS
    Fps = 3
    UnitsPerFrame = 4
    MaxRate = 12
    TestRates <- AllRates
    Full = 2
    Speeds <- HalfAndFull
    Cycle = 2
    Velocity = 3
    Life = 6
    FieldRates <- SomeRates
    Parts = 2
    Multipliers <- HalfAndFull
    Top = 2
    Edge = 4
    Graces <- UpToAFrame
    SpawnFrames = 1
    Every = 2
    Lifetime = 4
INVARIANTS
    OnceAFrame
    AskedOncePerFrame
    PromotedAsStock
    MenuAtFullSpeed
    BulletsAsStated
