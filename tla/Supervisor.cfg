SPECIFICATION Spec
SYMMETRY Symmetry
CONSTANTS
    Child = {P1, P2}
    Poll = 1
    Period = 3
    Timeout = 1
    MissLimit = 3
    Cooldown = 3
    KillWait = 3
    StartMax = 3
INVARIANTS NoneLeft HangEnds ComesBack
PROPERTIES SparesTheWell
