CONSTANTS
    s1 = s1
    s2 = s2
    p1 = p1
    room = room
    hall = hall
    Sockets = {s1, s2}
    Posters = {p1}
    ChannelIDs = {room}
    Presence = {}
    MaxChannels = 3
    RedisReplies = {TRUE}
    Expiring = {"subscriptions"}
SPECIFICATION Spec
SYMMETRY Symmetry
INVARIANTS
    TypeOK
    DisconnectedUnreachable
    ListenerServes
    RegisteredSubscriberInRedis
CHECK_DEADLOCK FALSE
