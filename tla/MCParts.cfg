SPECIFICATION PartsSpec
CONSTANTS
    Clients = {c1, c2}
    PortClients = {c2}
    TcpLoops = 2
    MaxBuf = 2
    Servers = {1, 2, 3}
    MaxConn = 2
    LoopsNum = 3
    PoolThreads = {1, 2}
    BlkSize = 2
    MaxBlks = 2
    Bytes = {0, 1}
    UnitSize = 2
    MaxFill = 5
    MaxIo = 3
    Keys = {1, 2, 3, 4, 5, 6, 7, 8, 9, 10}
    SetKeys = {1, 2, 3, 4, 5, 6}
    MapKeys = {7}
    Vals = {0, 9}
    HeapTimers = {1, 2, 3, 4, 5, 6, 7}
    Stamp <- MCStamp
    InitEvtSize = 2
    ListVals = {0, 1}
    MaxNodes = 4
    SizeT = 256
    VecVals = {1, 2}
    MaxSize = 5
    InitCapacity = 2
    TypeSize = 4
    VecSizeT = 256
    VecInt = 16
    HeapVals = {1, 2, 3}
    MaxHeap = 7
INVARIANTS
    CountsOpen
    WatchersMatch
    FreedAfterLoops
    NoObjectTwice
    BufIsFifo
    TreeValid
    RbtIsDict
    HeapConsistent
    ListWellLinked
    ListIsSequence
    VecIsSequence
    HeapIsPrioQueue
PROPERTIES
    EofCloses
    AcceptResumes
    PoolDestroyCompletes
CHECK_DEADLOCK FALSE
