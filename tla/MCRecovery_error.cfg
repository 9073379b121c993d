SPECIFICATION FairSpec
CONSTANTS
    Client = {c}
    Master = x
    Worker = w
    None = none
    Obj = {o}
    Pinned = {}
    Chips = {"965"}
    PageErrors = TRUE
    ErrorsShow = TRUE
    Hasty = FALSE
    Numbers = {2}
    SignalOps = {"sync", "irq_wait"}
    MaxSeqno = 1
    MaxHangs = 1
    MaxSwitches = 1
PROPERTIES
    ResetComes
