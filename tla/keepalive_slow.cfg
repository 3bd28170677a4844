CONSTANTS
    PongWait = 30
    PingPeriod = 27
    WriteWait = 5
    MaxDelay = 1
    MaxStall = 4
SPECIFICATION Spec
CHECK_DEADLOCK FALSE
INVARIANT LivePeerStays
