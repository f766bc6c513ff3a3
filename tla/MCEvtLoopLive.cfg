SPECIFICATION FairSpec
CONSTANTS
    r1 = r1
    w1 = w1
    r2 = r2
    t1 = t1
    t2 = t2
    Io = {r1, w1}
    Timers = {}
    Befores = {b1}
    Afters = {}
    Empty = empty
    Fds = {1}
    FdOf <- LiveFdOf
    EvOf <- LiveEvOf
    AfterOf <- NoTimes
    RepeatOf <- NoTimes
    MaxTime = 0
PROPERTIES
    QueuedIsServed
