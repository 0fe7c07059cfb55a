SPECIFICATION Spec
CONSTANTS
    Tasks = {k1}
    Threads = {h1}
    NoTask = NoTask
    NoThread = NoThread
    Starved = {}
INVARIANTS
    DetachTouchesLive
CHECK_DEADLOCK FALSE
