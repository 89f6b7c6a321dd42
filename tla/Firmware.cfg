\* The step does not divide every target, and a reversal takes two.  The silence
\* that is explored is past StopBound, so the bound never keeps the dead-man
\* from firing, and stays shorter than one turn of the clock: MaxSilence +
\* LoopMax < ClockMod.  The window is longer than an iteration of loop().
CONSTANTS
    PwmMax = 2
    RampStep = 2
    ServoMax = 1
    Deadman = 3
    ServicePeriod = 1
    LoopMax = 1
    ClockMod = 8
    MaxSilence = 6
SPECIFICATION FairSpec
INVARIANTS
    BoundedStop
PROPERTIES
    CoastsOnly
    ReachesTarget
    LineRecovers
