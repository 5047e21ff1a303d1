CONSTANTS
    Addresses = {t1, t2, t3, t4}
    None = None
    Costs = {1, 2}
    Budget = 3
    MaxEntries = 5
    Working <- Chain
    Lapses = {}
    w1 = w1
    w2 = w2
    MaxTextures = 2
    Pictures = {p1, p2}
    Failing = {"create"}
    Priorities = {1, 2, 3}
    WorldPrio = 2
    Rules <- ProfileRules
    Sprites = {"plain", "shot", "spell"}
    Faded = {"background", "items", "shots"}
    Callers = 2
    Nested = 2
    AdditiveSource = "one"
    Habits = {}
SPECIFICATION HooksSpec
SYMMETRY Symmetry
INVARIANTS FreshBind CopiesOwned FadedApart
CHECK_DEADLOCK FALSE
