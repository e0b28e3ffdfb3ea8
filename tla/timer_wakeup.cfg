SPECIFICATION FairSpec
CONSTANTS
    Timers = {1, 2}
    Users = {u1}
    Pollers = {p1, p2}
    Periods = {1}
    Setbacks = {}
    Wrap = 64
    HalfDay = 2
    MaxWait = 2
    Epoch = 8
    LastCall = 8
    MaxTime = 11
    MaxSetback = 0
PROPERTIES
    DueTimerIsCollected
CHECK_DEADLOCK FALSE
