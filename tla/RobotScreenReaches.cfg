SPECIFICATION FairSystem
CONSTANTS
    Session = {s}
    Host = {h}
    HostOf <- OneHost
    Kiosk = {k1}
    Source = {}
    Text = {t}
    Choice = {0}
    BadChoice = BadChoice
    None = None
    MaxQuestion = 1
    MaxWire = 3
INVARIANTS TextShown
PROPERTIES QuestionReaches
