SPECIFICATION Spec
CONSTANTS
    UserProc = {p1, p2, p3}
    initproc = initproc
    kswapd = kswapd
    NULL = NULL
SYMMETRY UserSymmetry
CHECK_DEADLOCK FALSE
INVARIANTS
    LinksConsistent
    ParentAlive
    NoZombieMissed
    InitChecks
    KsemUndisturbed
