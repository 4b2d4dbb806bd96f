SPECIFICATION LiveSpec
CONSTANTS
    Conns = {k1, k2}
    NumClients = 3
    Initial <- Large
    Configs <- SizesAndURLs
    MaxReloads = 1
CHECK_DEADLOCK FALSE
INVARIANTS
    OneOwner
PROPERTIES
    Replenished
    ResetEmpties
