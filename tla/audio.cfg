SPECIFICATION FairSpec
CONSTANTS
    Callers = {m, a1, a2}
    Main = m
    MaxCallbacks = 1
    MaxOrphans = 1
INVARIANTS
    TypeOK
    RefsBalance
    OpenIsServed
    BuffersAlternate
PROPERTIES
    CallsReturn
    LossIsTold
CHECK_DEADLOCK FALSE
