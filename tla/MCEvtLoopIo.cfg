SPECIFICATION Spec
CONSTANTS
    r1 = r1
    w1 = w1
    r2 = r2
    t1 = t1
    t2 = t2
    Io = {r1, w1, r2}
    Timers = {}
    Befores = {b1}
    Afters = {}
    Empty = empty
    Fds = {1, 2}
    FdOf <- IoFdOf
    EvOf <- IoEvOf
    AfterOf <- NoTimes
    RepeatOf <- NoTimes
    MaxTime = 0
INVARIANTS
    TypeOK
    PendingConsistent
    NoDanglingReference
    LinkedIffActive
    ChangesQueued
    WatchedUnlessReused
