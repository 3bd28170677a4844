CONSTANTS
    a = a
    b = b
    s1 = s1
    s2 = s2
    s3 = s3
    m1 = m1
    m2 = m2
    NoSocket = NoSocket
    Instances = {a, b}
    Sockets = {s1, s2}
    Messages = {m1}
    Home <- HomeOf
    At <- AtAOrB
    Ignore <- SenderOf
    MaxChannels = 2
    MaxListeners = 1
    MaxFailures = 0
    KeysExpire = FALSE
SPECIFICATION Spec
CHECK_DEADLOCK FALSE
INVARIANT ConfirmedReceive
