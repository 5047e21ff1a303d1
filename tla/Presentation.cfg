CONSTANTS
    Native = 1
    Sizes = {1, 2, 3}
    Faults = {"target", "reset", "ex"}
SPECIFICATION Spec
INVARIANTS TexturesKept PictureShown
PROPERTY SizeFollows
