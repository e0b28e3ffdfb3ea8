SPECIFICATION Spec
CONSTANTS
    Threads = {t1, t2}
    Root = NoThread
    NoThread = NoThread
    Tasks = {f1}
    NoTask = NoTask
    Pins = {NoThread}
    Yields = {"HOLD"}
    MaxYields = 1
    MaxSubmits = 1
INVARIANTS
    FiberOnOneThread
CHECK_DEADLOCK FALSE
