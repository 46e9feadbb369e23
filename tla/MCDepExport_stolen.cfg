SPECIFICATION Spec
CONSTANTS
    Procs = {x, y}
    Paths = {"top", "mid", "leaf", "other"}
    Order <- MCOrder
    Imports <- MCImports
    Immutable = {"mid", "leaf"}
    Cap <- MCCap
    Loads <- LostLoads
INVARIANT NoSplitIdentity
CHECK_DEADLOCK FALSE
