SPECIFICATION FairSpec
CONSTANTS
    Host = {g, h}
    MaxFailures = 2
    Lockout = 3
    Nobody = Nobody
    Poll = 2
    Timeout = 3
    Viewer = {v1, v2}
    Retry = 2
    MaxLeak = 1
    Packet = 1
    Cushion = 2
    BufferMax = 4
    QueueMax = 3
    LateMax = 1
    ResumeAfter = 5
    Jitter = 1
    StallMax = 3
    Capacity = 3
    MaxTs = 7
    MaxWire = 3
    Place = {5}
    Grid = 2
    MaxLines = 2
    MaxCut = 1
    Deadman = 2
    Drive = 1
    MaxUp = 2
    MaxDown = 1
    Exported = {d}
    Importer = {p, q}
    Annotator = {x, y}
    MaxBox = 2
    MaxDrawn = 2
    MaxStart = 2
    FrameCount = 2
    Width = 2
    Height = 1
    MaxConf = 0
    Num = 1
    Den = 2
    MaxGts = 2
    MaxPreds = 2
    Scale = 2
INVARIANTS
    GuessBound HolderTalks OpenWhileUsed BatchWhole
    FixesRight MotionIsTrial RowsReal RecoveryReal Scored
    SameMatching
PROPERTIES SoundWhole FollowsSlot MicReturns SeenForward
