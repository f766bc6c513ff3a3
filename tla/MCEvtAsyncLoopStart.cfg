SPECIFICATION Spec
CONSTANTS
    Threads = {c1}
    Loop = loop
    Asyncs = {a1, a2}
    Nil = nil
    MaxRuns = 1
    EarlyStart = FALSE
    LoopStart = TRUE
    EarlyQuit = FALSE
    CrossDestroy = FALSE
INVARIANTS
    NoAsyncLost
CHECK_DEADLOCK FALSE
