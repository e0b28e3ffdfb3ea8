SPECIFICATION FairSpec
CONSTANTS
    f1 = f1
    f2 = f2
    s1 = s1
    Fibers = {f1, f2}
    Slots = {s1}
    SlotOf <- OneSlot
    CallsOf <- Calls
    EpollFails = TRUE
    MaxWaits = 2
    NoFiber = NoFiber
    NoCond = NoCond
INVARIANTS
    CallInv
    RegistrationInv
PROPERTIES
    CallReturns
CHECK_DEADLOCK FALSE
