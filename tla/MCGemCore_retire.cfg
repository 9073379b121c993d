SPECIFICATION FairSpec
CONSTANTS
    Obj = {o1, o2}
    Client = {c1}
    Worker = worker
    NoThread = none
    GpuDomain = {"RENDER"}
    ClientOps = {"exec", "set_domain_w", "unbind"}
    Accesses <- RenderOnly
    MaxSeqno = 2
    MaxUserPin = 1
    AllocMayFail = FALSE
    BindMayFail = TRUE
    CanHang = FALSE
    HasReset = TRUE
PROPERTIES
    RequestsRetired
    WaitersWake
