SPECIFICATION Spec
CONSTANTS
    Obj = {o1}
    Client = {c1, c2}
    File = {f1, f2}
    Handle = {h1, h2}
    Worker = worker
    NoThread = none
    NoObj = noobj
    NoFile = nofile
    MaxMaps = 2
    ClientOps = {"pread", "set_domain", "busy", "flink", "mmap", "open", "close", "exec", "exit"}
SYMMETRY Symmetry
CHECK_DEADLOCK FALSE
INVARIANTS
    RefsExact
    CountedLive
    FreedUnlisted
    LastRefNotHeld
