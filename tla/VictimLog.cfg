SPECIFICATION Spec
SYMMETRY Symmetry
CONSTANTS
    Dash = {a, b}
    MaxAsk = 3
    MaxWire = 2
    MaxCut = 1
INVARIANTS MarksKept ListRight
