SPECIFICATION Spec
CONSTANTS
    Regions <- MCTwoRegions
    LastPID = 4
    PID_supported <- MCSupported
    Answer <- MCMulti
    MsgqSize = 2
    GnssLen = 20
    Cap <- MCCap
    Faults = {}
    NoiseFrames <- NoNoise
    MaxFix = 2
    MaxNoise = 0
    MaxInFlight = 2
INVARIANTS TypeOK SweepComplete MultiFrameWhole
CHECK_DEADLOCK FALSE
