SPECIFICATION FairSpec
CONSTANTS
    Workers = {w1, w2}
    Pushers = {p1, p2}
    None = none
    Size = 2
    MaxPush = 3
    AwaitStart = TRUE
INVARIANTS
    TypeOK
    RingHoldsBacklog
    TakenOnce
    FreeAfterQueueUse
PROPERTIES
    AcceptedIsRun
    DestroyReturns
    ImplementsTaskQueue
