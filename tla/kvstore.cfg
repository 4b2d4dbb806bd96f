SPECIFICATION Spec
CONSTANTS
    Conns = {c1, c2}
    Keys = {"k"}
    EmptyKey = ""
    Names = {"f"}
    Items <- OneField
    MaxHmsets = 3
    MaxSends = 1
    MaxWrites = 2
    MaxReads = 1
    Configs <- Reloads
    MaxTries = 2
    MaxRetries = 1
SYMMETRY Symmetry
CHECK_DEADLOCK FALSE
INVARIANTS
    OneOwner
    PostsSnapshot
    ReadsOwnWrites
    NothingForgotten
    ExitWaitsForPosts
