SPECIFICATION FairSpec
CONSTANTS
    Proc = {p1, p2, p3, p4}
    NoProc = none
    MaxContext = 3
    RecycleLast = FALSE
CHECK_DEADLOCK FALSE
INVARIANTS
    HolderAlive
PROPERTIES
    SleeperWakes
    ImplementsMutex
