CONSTANTS
    PongWait = 30
    PingPeriod = 27
    WriteWait = 5
    MaxDelay = 1
    MaxStall = 1
SPECIFICATION FairSpec
CHECK_DEADLOCK FALSE
INVARIANTS
    TypeOK
    LivePeerStays
PROPERTY SilentPeerGoes
