SPECIFICATION Spec
CONSTANTS
    Inputs <- SmartInputs
    MaxRequests = 2
    MaxConns = 2
    BufferSize = 1
    FailureLimit = 0
    Modes = {TRUE, FALSE}
    Faults = {"break", "timeout", "eof", "idle", "dial", "exit"}
CHECK_DEADLOCK FALSE
INVARIANTS
    AtMostOneReply
    QueuesClosedOnce
    OneDisconnects
