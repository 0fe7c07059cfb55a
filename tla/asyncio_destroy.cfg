SPECIFICATION Spec
CONSTANTS
    Apps = {a1, a2}
    Workers = {k1, k2}
    Tasks = {t1, t2}
    Files = {f1}
    Queues = {q1, q2}
    Nothing = Nothing
    ForeignClose = TRUE
INVARIANTS
    QueuesOutliveTasks
CHECK_DEADLOCK FALSE
