SPECIFICATION SystemSpec
SYMMETRY Symmetry
CONSTANTS
    Session = {s}
    Host = {h}
    HostOf <- OneHost
    Kiosk = {k1, k2}
    Source = {camera}
    Text = {}
    Choice = {0}
    BadChoice = BadChoice
    None = None
    MaxQuestion = 2
    MaxWire = 3
INVARIANTS StateShown QuestionShown
