SPECIFICATION FairSpec
CONSTANTS
    t1 = t1
    t2 = t2
    t3 = t3
    Tasks = {t1, t2, t3}
    MaxConcurrent = 2
    MaxAttempts = 3
CHECK_DEADLOCK FALSE
INVARIANTS
    PermitsBalance
PROPERTIES
    EveryTaskEnds
    ImplementsTaskQueue
