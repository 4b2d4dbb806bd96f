SPECIFICATION Spec
CONSTANTS
    Nodes = {"a", "b"}
    Seed = "a"
    NumSlots = 2
    Topology <- SeedLast
    Callers = {k1}
    MaxStarters = 2
    MaxDowns = 2
    MaxMoves = 0
    MayClose = TRUE
CHECK_DEADLOCK FALSE
INVARIANTS
    OneSpinner
    FaultyIsWatched
