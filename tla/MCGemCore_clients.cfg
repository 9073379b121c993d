SPECIFICATION Spec
CONSTANTS
    Obj = {o1}
    Client = {c1, c2}
    Worker = worker
    NoThread = none
    GpuDomain = {"RENDER"}
    ClientOps = {"exec", "pread", "pwrite", "fault_r", "fault_w", "set_domain_r", "set_domain_w", "unbind", "busy", "pin", "unpin"}
    Accesses <- RenderRead
    MaxSeqno = 1
    MaxUserPin = 1
    AllocMayFail = FALSE
    BindMayFail = FALSE
    CanHang = FALSE
    HasReset = TRUE
SYMMETRY Symmetry
INVARIANTS
    CpuAccessSafe
    DomainAsserts
    WriteMappingTracked
