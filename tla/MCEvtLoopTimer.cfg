SPECIFICATION Spec
CONSTANTS
    r1 = r1
    w1 = w1
    r2 = r2
    t1 = t1
    t2 = t2
    Io = {}
    Timers = {t1, t2}
    Befores = {}
    Afters = {a1}
    Empty = empty
    Fds = {1}
    FdOf <- NoFdOf
    EvOf <- NoEvOf
    AfterOf <- TimerAfterOf
    RepeatOf <- TimerRepeatOf
    MaxTime = 5
INVARIANTS
    NoDanglingReference
    LinkedIffActive
    TimerNotEarly
    PeriodKept
