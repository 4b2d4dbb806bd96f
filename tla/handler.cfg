SPECIFICATION LiveSpec
CONSTANTS
    Commands <- SmartCommands
    MaxCommands = 4
    BufferSize = 2
CHECK_DEADLOCK FALSE
INVARIANTS
    OneSender
    WaitedRepliesInOrder
PROPERTIES
    ExecutesInOrder
    AllExecuted
    AllAnswered
