SPECIFICATION Spec
CONSTANTS
    Timers = {1}
    Users = {u1}
    Pollers = {p1, p2}
    Periods = {2, 63}
    Setbacks = {1, 2}
    Wrap = 64
    HalfDay = 1
    MaxWait = 2
    Epoch = 8
    LastCall = 10
    MaxTime = 10
    MaxSetback = 2
SYMMETRY Symmetry
VIEW View
INVARIANTS
    CancelFindsTimer
    
PROPERTIES
    NoEarlyFire
    OneShotFiresOnce
CHECK_DEADLOCK FALSE
