SPECIFICATION Spec
CONSTANTS
    Callers = {a, b}
    TimerThread = TimerThread
    Blocks = {t1, t2}
    NoBlock = NoBlock
    Intervals = {0}
    MaxId = 2
    MaxTime = 1
    MallocFails = FALSE
INVARIANTS
    CancelsItsOwn
CHECK_DEADLOCK FALSE
