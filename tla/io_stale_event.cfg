SPECIFICATION Spec
CONSTANTS
    Threads = {t1, t2}
    Fds = {a}
    Waiters = {w1, w2}
    NoWaiter = NoWaiter
SYMMETRY Symmetry
INVARIANTS
    TriggersRegistered
CHECK_DEADLOCK FALSE
