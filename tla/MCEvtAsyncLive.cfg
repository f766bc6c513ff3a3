SPECIFICATION FairSpec
CONSTANTS
    Threads = {c1}
    Loop = loop
    Asyncs = {a1, a2}
    Nil = nil
    MaxRuns = 1
    EarlyStart = FALSE
    LoopStart = FALSE
    EarlyQuit = FALSE
    CrossDestroy = FALSE
PROPERTIES
    AsyncServed
    QuitHonoured
CHECK_DEADLOCK FALSE
