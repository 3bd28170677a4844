CONSTANTS
    s1 = s1
    s2 = s2
    p1 = p1
    room = room
    hall = hall
    Sockets = {s1}
    Posters = {}
    ChannelIDs = {room}
    Presence = {}
    MaxChannels = 2
    RedisReplies = {TRUE}
    Expiring = {}
SPECIFICATION Spec
INVARIANT AtMostOneListener
CHECK_DEADLOCK FALSE
