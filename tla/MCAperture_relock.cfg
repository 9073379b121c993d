SPECIFICATION FairSpec
CONSTANTS
    x = x
    y = y
    z = z
    Obj = {x, y, z}
    Process = {p, q}
    Power = w
    None = none
    Size <- MCSize
    Pages = 3
    Batches <- MCBatches
    PinMayFail = FALSE
    MapMayChange = TRUE
    MaxCalls = 3
CHECK_DEADLOCK FALSE
PROPERTIES
    CallsEnd
