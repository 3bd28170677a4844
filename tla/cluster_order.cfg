CONSTANTS
    a = a
    b = b
    s1 = s1
    s2 = s2
    s3 = s3
    m1 = m1
    m2 = m2
    NoSocket = NoSocket
    Instances = {a, b}
    Sockets = {s1, s2}
    Messages = {m1, m2}
    Home <- HomeOf
    At <- AtA
    Ignore <- SenderOf
    MaxChannels = 1
    MaxListeners = 1
    MaxFailures = 1
    KeysExpire = FALSE
SPECIFICATION Spec
CHECK_DEADLOCK FALSE
INVARIANT
    InOrder
