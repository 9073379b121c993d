SPECIFICATION Spec
CONSTANTS
    Obj = {o1, o2}
    Client = {c1}
    Worker = worker
    NoThread = none
    GpuDomain = {"RENDER", "SAMPLER"}
    ClientOps = {"exec", "set_domain_w"}
    Accesses <- RenderSample
    MaxSeqno = 2
    MaxUserPin = 1
    AllocMayFail = TRUE
    BindMayFail = FALSE
    CanHang = TRUE
    HasReset = TRUE
SYMMETRY Symmetry
INVARIANTS
    RetireSafe
    WritesTracked
    ListsConsistent
    NoneStranded
