SPECIFICATION LiveSpec
CONSTANTS
    Endpoints = {e1, e2}
    MaxRelayers = 4
    MaxReloads = 2
CHECK_DEADLOCK FALSE
INVARIANTS
    StopsAfterExit
PROPERTY
    ExitStops
