SPECIFICATION FairSpec
CONSTANTS
    Threads = {r, t1}
    Root = r
    NoThread = NoThread
    Tasks = {f1, f2}
    NoTask = NoTask
    Pins = {NoThread, r}
    Yields = {"READY", "HOLD"}
    MaxYields = 1
    MaxSubmits = 2
INVARIANTS
    ActiveCount
    OneThreadUnlessEarly
    SwapInAssertion
PROPERTIES
    StopDrains
    EveryTaskFinishes
CHECK_DEADLOCK FALSE
