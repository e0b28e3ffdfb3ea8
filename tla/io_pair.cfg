SPECIFICATION Spec
CONSTANTS
    Threads = {t1, t2}
    Fds = {a, b}
    Waiters = {w1, w2, w3}
    NoWaiter = NoWaiter
SYMMETRY Symmetry
INVARIANTS
    PendingCount
    ContextMatches
    WaiterInOnePlace
    EpollMatches
CHECK_DEADLOCK FALSE
