SPECIFICATION PoolSpec
CONSTANTS
    Users = {u1, u2, u3}
    Pinger = pinger
    Size = 2
    NumConns = 5
CHECK_DEADLOCK FALSE
SYMMETRY UserSymmetry
INVARIANTS
    OneOwner
    LeftByRacers
