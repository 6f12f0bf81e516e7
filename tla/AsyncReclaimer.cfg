SPECIFICATION FairSpec
CONSTANTS
    Callers = {t1, t2}
    Objects = {o1, o2, o3}
    worker = worker
INVARIANTS
    DestructorDrains
PROPERTIES
    IdleMeansFreed
    EveryWaitEnds
CHECK_DEADLOCK FALSE
