SPECIFICATION FairSpec
CONSTANTS
    Waiters = {w1, w2}
    Posters = {w1, p1}
    Bits = {b1, b2}
    HeldBits = {b1, b2}
    NoBit = NoBit
    NoThread = NoThread
    InitialValue = 1
    MaxCount = 2
    Timeouts = {"zero", "finite", "forever"}
    MaxTimed = 1
    TimerCanFail = TRUE
INVARIANTS
    TypeOK
    QueueIsSound
    NoLostWakeup
PROPERTIES
    CountsUnits
    WaitsReturn
    NoStarvation
