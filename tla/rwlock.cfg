SPECIFICATION FairSpec
CONSTANTS
    Users = {t1, t2, t3}
    Nobody = Nobody
    MaxReads = 2
INVARIANTS
    TypeOK
    MutexMeansWriter
    NoForgottenWriter
PROPERTIES
    SharesOrExcludes
    CallsDrain
