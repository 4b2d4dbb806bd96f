SPECIFICATION Spec
CONSTANTS
    Conns = {"c"}
    Commands <- SomeCommands
    Configs <- SmartAndSync
    MaxReloads = 1
    Clients = {"k1", "k2"}
    Buffer = 1
    MaxTries = 1
    MaxConnections = 1
    MaxBatchRecords = 3
    MaxRecordSize = 3
CHECK_DEADLOCK FALSE
INVARIANTS
    RequestFits
    CarriesItsCommand
PROPERTIES
    AcceptedIsSent
    SyncAnswered
