SPECIFICATION Spec
CONSTANTS
    Workers = {w1, w2}
    Pushers = {p1}
    None = none
    Size = 2
    MaxPush = 2
    AwaitStart = FALSE
INVARIANTS
    FreedAfterExit
