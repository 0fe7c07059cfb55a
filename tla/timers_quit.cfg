SPECIFICATION FairSpec
CONSTANTS
    Callers = {a}
    TimerThread = TimerThread
    Blocks = {t1, t2}
    NoBlock = NoBlock
    Intervals = {0}
    MaxId = 1
    MaxTime = 1
    MallocFails = FALSE
PROPERTIES
    QuitEnds
CHECK_DEADLOCK FALSE
