SPECIFICATION FairSpec
CONSTANTS
    HeadLen = 2
    BufferSize = 6
    MaxBodySize = 2
    Bodies = {0, 2, 3}
    MaxRequests = 3
    HeadUnits = 2
    BufferUnits = 5
    MaxResponse = 5
    Shapes <- TheShapes
    MaxCalls = 2
    Clients = {d1, d2}
    DbConns = {b1, b2, b3, b4}
    m_minSize = 1
    MaxGets = 2
    Addresses = {a1, a2}
    MaxAttempts = 3
    MaxStops = 2
    MaxStarts = 2
    Setters = {s1, s2}
    Listeners = {1, 2}
    ConfigValues = {1, 2}
    MaxSets = 3
    DaemonThreads = {t1, t2}
    InfoSize = 1
    DefaultInterval = 1
    Intervals = {0, 1}
    Forever = 3
    MaxRestarts = 2
INVARIANTS
    SessionInv
    ConnectionInv
    DbPoolInv
    
    ConfigInv
    DaemonInv
PROPERTIES
    WaitsEnd
    ShutdownEnds
    HungIsReplaced
CHECK_DEADLOCK FALSE
