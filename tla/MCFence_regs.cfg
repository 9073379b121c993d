SPECIFICATION Spec
CONSTANTS
    Obj = {o1, o2}
    Client = {c1, c2}
    Reg = {r1}
    NoThread = none
    NoObj = noobj
    NoReg = noreg
    Tiling = {"X"}
    ClientOps = {"exec", "fault_w", "set_domain_r", "set_tiling", "unbind"}
    Gen6 = FALSE
    MaxSeqno = 2
SYMMETRY Symmetry
INVARIANTS
    RegsConsistent
    LruExact
    FenceStable
    FencedHasReg
PROPERTIES
    FaultDetiled
