\* Two worktrees, two packages with a test-only import cycle.
SPECIFICATION Spec
CONSTANTS
    Roots = {"a", "b"}
    Pkgs = {"p", "q"}
    Versions = {1, 2, 3}
    Broken = {3}
    Api <- MCApi
    Imports <- MCImports
    TestImports <- MCTestImports
    Order <- MCOrder
    MaxWrites = 2
    ListingFails = FALSE
    Live = "a"
    Calls = {"c1", "c2", "c3"}
    Repair = "c3"
    Parallelism = 2
    BatchSize = 2
    TornReads = FALSE
    Loads <- MCLoads
INVARIANTS TypeOK StatFastPathIsSound KeysAreCoherent RepairHeals DecodedIsCurrent PinnedBlobsSurvive
PROPERTY BuildEnds
CHECK_DEADLOCK FALSE
