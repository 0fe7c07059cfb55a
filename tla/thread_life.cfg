SPECIFICATION FairSpec
CONSTANTS
    Tasks = {k1, k2}
    Threads = {h1, h2}
    NoTask = NoTask
    NoThread = NoThread
    Starved = {k2}
INVARIANTS
    TypeOK
    BlocksAreSafe
    JoinWaitsForEnd
    SignalsASleeper
PROPERTIES
    JoinReturns
CHECK_DEADLOCK FALSE
