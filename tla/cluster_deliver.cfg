CONSTANTS
    a = a
    b = b
    s1 = s1
    s2 = s2
    s3 = s3
    m1 = m1
    m2 = m2
    NoSocket = NoSocket
    Instances = {a, b}
    Sockets = {s1, s2}
    Messages = {m1}
    Home <- HomeOnB
    At <- AtAOrB
    Ignore <- SenderOf
    MaxChannels = 2
    MaxListeners = 2
    MaxFailures = 1
    KeysExpire = TRUE
SPECIFICATION Spec
CHECK_DEADLOCK FALSE
INVARIANTS
    TypeOK
    SenderNeverEchoed
    SubscribersReceive
    CopiesBounded
