SPECIFICATION Spec
CONSTANTS
    Waiters = {w1, w2}
    Posters = {p1, p2}
    Bits = {b1, b2}
    HeldBits = {}
    NoBit = NoBit
    NoThread = NoThread
    InitialValue = 0
    MaxCount = 1
    Timeouts = {"zero", "finite", "forever"}
    MaxTimed = 2
    TimerCanFail = FALSE
PROPERTIES
    CountsUnits
