SPECIFICATION Spec
CONSTANTS
    Proc = {p1, p2}
    NoProc = none
    MaxContext = 2
    RecycleLast = TRUE
CHECK_DEADLOCK FALSE
INVARIANTS
    HolderAlive
