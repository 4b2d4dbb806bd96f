SPECIFICATION StreamSpec
CONSTANTS
    StreamConns = {"c"}
    Scripts <- SomeScripts
    StreamConfigs <- SomeConfigs
    StreamBuffer = 1
    StreamRecordSize = 1
    RetryLimit = 0
    MaxPending = 1
CHECK_DEADLOCK FALSE
INVARIANTS
    OneTransactionEach
    

    
