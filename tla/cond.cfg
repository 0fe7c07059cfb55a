SPECIFICATION FairSpec
CONSTANTS
    Waiters = {w1, w2, w3}
    Signallers = {w1, s1}
    Nobody = Nobody
    Timeouts = {"finite"}
    Habits = {TRUE, FALSE}
INVARIANTS
    TypeOK
    HandshakesBalance
    UnitsCoverSignals
PROPERTIES
    NoStaleUnit
    SignallerReturns
    BroadcastWakesAll
