SPECIFICATION FairSpec
CONSTANTS
    Threads = {t1, t2}
    Callers = {c1}
    TimerCallers = {c1}
    Tasks = {f1, f2}
    Deltas = {7, 9}
    NoTimer = NoTimer
    NoTask = NoTask
    Pipe = Pipe
    MAX_TIMEOUT = 3
    IntWrap = 16
INVARIANTS
    IdleInv
PROPERTIES
    IdleProgress
CHECK_DEADLOCK FALSE
