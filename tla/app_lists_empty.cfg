CONSTANTS
    s1 = s1
    s2 = s2
    p1 = p1
    room = room
    hall = hall
    Sockets = {s1}
    Posters = {p1}
    ChannelIDs = {room}
    Presence = {}
    MaxChannels = 2
    RedisReplies = {TRUE}
    Expiring = {}
SPECIFICATION Spec
INVARIANT OnlyOccupiedListed
CHECK_DEADLOCK FALSE
