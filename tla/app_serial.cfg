CONSTANTS
    s1 = s1
    s2 = s2
    p1 = p1
    room = room
    hall = hall
    Sockets = {s1, s2}
    Posters = {p1}
    ChannelIDs = {room, hall}
    Presence = {hall}
    MaxChannels = 4
    RedisReplies = {TRUE}
    Expiring = {"connection", "subscriptions", "presence"}
SPECIFICATION SerialSpec
SYMMETRY Symmetry
INVARIANTS
    DisconnectUnsubscribesAll
    EmptyOnlyByPost
    TotalChannelsExact
PROPERTY OnlyEmptyChannelsRemoved
CHECK_DEADLOCK FALSE
