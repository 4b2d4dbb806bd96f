SPECIFICATION LiveSpec
CONSTANTS
    Requests = {1, 2}
    Hash <- Keys
    Sync = TRUE
    Buffer = 1
    Initial <- OneByTwo
    Configs <- Reloads
    MaxShards = 2
    MaxWriters = 2
    MaxReloads = 2
    BreakMultiplier = 2
    Faults = {"parse", "tmp", "write", "remove"}
    MaxFailures = 1
    Shared = TRUE
    MayExit = TRUE
CHECK_DEADLOCK FALSE
INVARIANTS
    
    MessageOnce
PROPERTY
    AllStored
