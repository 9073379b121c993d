SPECIFICATION Spec
CONSTANTS
    Obj = {o1}
    Client = {c1, c2}
    File = {f1, f2}
    Handle = {h1}
    Worker = worker
    NoThread = none
    NoObj = noobj
    NoFile = nofile
    MaxMaps = 1
    ClientOps = {"mmap", "close"}
SYMMETRY Symmetry
CHECK_DEADLOCK FALSE
INVARIANTS
    NoUseAfterFree
