SPECIFICATION Spec
CONSTANTS
    GroupBits = 2
    Size16 = 1
    Size32 = 2
    Size64 = 3
    BaseSize = 2
    MaxCapacity = 6
    MaxWrites = 2
    MaxIo = 2
    Fields <- MCFields
    Packets <- MCPackets
    Fills = {7}
    Inputs <- MCInputs
    MaxWords = 5
    Callers = {u1, u2}
    PoolConns = {c1, c2}
    m_maxSize = 1
    m_maxRequest = 3
    MaxAlive = 2
    Starts = {0, 5}
    Width = 6
    MaxWait = 2
    MaxAsks = 2
    p1 = p1
    p2 = p2
    g1 = g1
    g2 = g2
    g3 = g3
    Paths <- ThePaths
    Globs <- TheGlobs
    Matching <- TheMatching
    MaxChanges = 4
    Threads = {t1, t2}
    Fds = {31, 32, 48, 72}
    InitialSize = 32
    MaxObjects = 3
    Openers = {o1, o2, o3}
    Unhooked = {o3}
    FdLimit = 3
    TableSize = 2
    MaxFiles = 4
    ConfFiles = {f1, f2}
    MaxSecond = 3
    MaxVersion = 3
    LoggerNames = {l1}
    LogThreads = {e1}
    Definitions <- TheDefinitions
    Malformed = {"broken"}
    MaxEvents = 1
    MaxLoads = 2
INVARIANTS
    ArrayInv
    ReadBack
    UriIsRead
    MessageIsRead
    PoolInv
    AnswerIsMine
    DispatchFollowsHistory
    TableInv
    FdInv
    ChangeIsNotLost
    LoggingInv
PROPERTIES
    ImplementsFlat
CHECK_DEADLOCK FALSE
