SPECIFICATION FairSpec
CONSTANTS
    Size = 8
    Lengths = {2, 4}
    Ids = 3
INVARIANTS
    WritesFree
PROPERTIES
    ImplementsQueue
    PacketsEnd
