SPECIFICATION LiveSpec
CONSTANTS
    Nodes = {"a", "b"}
    Seed = "a"
    NumSlots = 2
    Topology <- SeedLast
    Callers = {k1}
    MaxStarters = 1
    MaxDowns = 2
    MaxMoves = 1
    MayClose = FALSE
CHECK_DEADLOCK FALSE
PROPERTIES
    Answered
    RecoversWithPools
