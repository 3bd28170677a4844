CONSTANTS
    g1 = g1
    g2 = g2
    Goroutines = {g1, g2}
    MaxHooks = 3
    WebHooks <- HooksOf
SPECIFICATION FairSpec
CHECK_DEADLOCK FALSE
INVARIANT TypeOK
PROPERTIES
    NoLateRequest
    CallsReturn
    WorkersEndOrTimedOut
