SPECIFICATION LiveSpec
CONSTANTS
    Inputs <- AllInputs
    MaxRequests = 3
    MaxConns = 2
    BufferSize = 2
    FailureLimit = 1
    Modes = {FALSE}
    Faults = {"dial"}
CHECK_DEADLOCK FALSE
INVARIANTS
    RepliesMatch
    CommandsRunInOwnDatabase
PROPERTIES
    ServerRepliesInOrder
    AllAnswered
