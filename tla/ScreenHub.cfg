SPECIFICATION FairSpec
CONSTANTS
    s1 = s1
    s2 = s2
    s3 = s3
    h1 = h1
    h2 = h2
    Session = {s1, s2, s3}
    Host = {h1, h2}
    HostOf <- HostsOfSessions
    Kiosk = {k1, k2}
    Source = {camera}
    Text = {t}
    Choice = {0, 1}
    BadChoice = BadChoice
    None = None
    MaxQuestion = 2
INVARIANTS FloorIsControllers NothingLeft StatusTold QuestionTold
PROPERTIES QuestionEnds
