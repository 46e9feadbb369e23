SPECIFICATION Spec
CONSTANTS
    Procs = {x, y}
    Paths = {"top", "mid", "leaf", "other"}
    Order <- MCOrder
    Imports <- MCImports
    Immutable = {"mid", "leaf"}
    Cap <- MCCap
    Loads <- MCLoads
INVARIANTS TypeOK ClosuresAreWhole PinsAreBalanced DeletedIsRechecked RunAnswersAgree
PROPERTIES EveryCallReturns PersistedIsFinal
CHECK_DEADLOCK FALSE
