SPECIFICATION Spec
CONSTANTS
    Obj = {o1}
    Client = {c1}
    Worker = worker
    NoThread = none
    GpuDomain = {"RENDER"}
    ClientOps = {"exec", "fault_r"}
    Accesses <- RenderOnly
    MaxSeqno = 1
    MaxUserPin = 1
    AllocMayFail = FALSE
    BindMayFail = FALSE
    CanHang = FALSE
    HasReset = TRUE
SYMMETRY Symmetry
INVARIANTS
    MappingCoherent
