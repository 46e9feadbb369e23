SPECIFICATION Spec
CONSTANTS
    Procs = {x, y}
    Paths = {"top", "mid", "leaf", "other"}
    Order <- MCOrder
    Imports <- MCImports
    Immutable = {"mid", "leaf"}
    Cap <- MCCap
    Loads <- LostLoads
INVARIANT ReturnedIsPinned
CHECK_DEADLOCK FALSE
