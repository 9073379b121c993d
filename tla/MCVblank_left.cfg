SPECIFICATION Spec
CONSTANTS
    Asker = {a1}
    Reader = {r1}
    File = {f1}
    NoFile = nofile
    NumCrtc = 1
    Event = {e1}
    Request <- Requests
    CountMod = 3
    Window = 1
    EventSpace = 1
    MaxLost = 1
INVARIANTS
    NoneLeftOn
