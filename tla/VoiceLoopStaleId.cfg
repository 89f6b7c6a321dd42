SPECIFICATION Spec
CONSTANTS
    a = a
    b = b
    ha = ha
    hb = hb
    Dash = {a, b}
    Host = {ha, hb}
    HostOf <- OwnHost
    None = None
    MaxRec = 1
    MaxLife = 2
    MaxUpload = 2
    MaxStatus = 1
    MaxCommand = 1
INVARIANT UploadedMeansHeld
