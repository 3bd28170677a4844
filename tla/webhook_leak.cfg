CONSTANTS
    g1 = g1
    g2 = g2
    Goroutines = {g1}
    MaxHooks = 1
    WebHooks <- HooksOf
SPECIFICATION FairSpec
CHECK_DEADLOCK FALSE
PROPERTY WorkersTerminate
