SPECIFICATION Spec
CONSTANTS
    x = x
    y = y
    z = z
    Obj = {x, y, z}
    Process = {p, q}
    Power = w
    None = none
    Size <- MCSize
    Pages = 3
    Batches <- MCBatches
    PinMayFail = FALSE
    MapMayChange = FALSE
    MaxCalls = 3
INVARIANTS
    FullIsRetried
