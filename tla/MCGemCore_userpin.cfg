SPECIFICATION Spec
CONSTANTS
    Obj = {o1}
    Client = {c1}
    Worker = worker
    NoThread = none
    GpuDomain = {"RENDER"}
    ClientOps = {"pin", "unpin"}
    Accesses <- RenderOnly
    MaxSeqno = 1
    MaxUserPin = 1
    AllocMayFail = FALSE
    BindMayFail = TRUE
    CanHang = FALSE
    HasReset = TRUE
SYMMETRY Symmetry
INVARIANTS
    UserPinIsPin
