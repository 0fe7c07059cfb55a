SPECIFICATION FairSpec
CONSTANTS
    Callers = {a}
    TimerThread = TimerThread
    Blocks = {t1, t2}
    NoBlock = NoBlock
    Intervals = {0, 1}
    MaxId = 2
    MaxTime = 1
    MallocFails = TRUE
INVARIANTS
    TypeOK
    OnePlace
    InDueOrder
PROPERTIES
    RemovedStaysQuiet
    TimersRun
    QuitFreesTheRest
CHECK_DEADLOCK FALSE
