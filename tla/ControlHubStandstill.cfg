SPECIFICATION Spec
CONSTANTS
    a = a
    b = b
    c = c
    Client = {a, b}
    NoClient = NoClient
    Gone = Gone
    MaxSeq <- NoNumbers
INVARIANTS
    StartsFromStandstill
