SPECIFICATION FairSpec
CONSTANTS
    Regions <- MCTwoRegions
    LastPID = 1
    PID_supported <- MCOneBoth
    Answer <- MCThree
    MsgqSize = 1
    GnssLen = 20
    Cap = 100
    Faults = {"late", "refused", "unread"}
    NoiseFrames <- MCNoise
    MaxFix = 2
    MaxNoise = 1
    MaxInFlight = 1
INVARIANTS NoWakeLost FreshDatagram
PROPERTIES ImplementsUplink WakeServed
CHECK_DEADLOCK FALSE
