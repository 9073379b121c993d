SPECIFICATION Spec
CONSTANTS
    Client = {c}
    Master = x
    Worker = w
    None = none
    Obj = {o}
    Pinned = {}
    Chips = {"g4x"}
    PageErrors = FALSE
    ErrorsShow = TRUE
    Hasty = FALSE
    Numbers = {2}
    SignalOps = {"sync", "irq_wait"}
    MaxSeqno = 1
    MaxHangs = 1
    MaxSwitches = 2
INVARIANTS
    AwayIrqOff
