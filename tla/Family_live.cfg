SPECIFICATION FairSpec
CONSTANTS
    UserProc = {p1, p2}
    initproc = initproc
    kswapd = kswapd
    NULL = NULL
CHECK_DEADLOCK FALSE
PROPERTIES
    OrphansReaped
    InitQuits
    KilledWaiterExits
