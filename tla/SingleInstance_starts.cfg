SPECIFICATION Spec
CONSTANTS
    p1 = p1 p2 = p2 p3 = p3
    Procs = {p1, p2, p3}
    none = none
INVARIANTS TypeOK FileNamesServer NotAllRefused SemaphoreConserved
PROPERTY StartRecovers
CHECK_DEADLOCK FALSE
