SPECIFICATION FairSpec
CONSTANTS
    Client = {c}
    Master = x
    Worker = w
    None = none
    Obj = {o}
    Pinned = {}
    Chips = {"965", "ironlake"}
    PageErrors = FALSE
    ErrorsShow = TRUE
    Hasty = FALSE
    Numbers = {2}
    SignalOps = {"sync", "irq_wait"}
    MaxSeqno = 1
    MaxHangs = 1
    MaxSwitches = 2
INVARIANTS
    PanicsNot
    AwayIsQuiet
PROPERTIES
    EveryoneTold
    ResetComes
    WaitersReturn
