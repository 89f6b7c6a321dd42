SPECIFICATION FairSpec
CONSTANTS
    a = a
    b = b
    c = c
    Client = {a, b, c}
    NoClient = NoClient
    Gone = Gone
    MaxSeq <- OneNumbers
INVARIANTS
    MotionHasOwner
    OwnFeeding
    RoleTold
PROPERTIES
    OrderedCommands
    OldMotionEnds
