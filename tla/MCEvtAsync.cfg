SPECIFICATION Spec
CONSTANTS
    Threads = {c1, c2}
    Loop = loop
    Asyncs = {a1, a2, a3}
    Nil = nil
    MaxRuns = 2
    EarlyStart = FALSE
    LoopStart = FALSE
    EarlyQuit = FALSE
    CrossDestroy = FALSE
SYMMETRY Interchangeable
INVARIANTS
    TypeOK
    NoAsyncLost
    RunAtMostOnce
    FreeCleansAll
    WakeupPending
CHECK_DEADLOCK FALSE
