CONSTANTS
    room = room
    private = private
    presence = presence
    badName = badName
    Channels = {room, presence, badName}
    KindOf <- KindsOf
SPECIFICATION FairSpec
CHECK_DEADLOCK FALSE
INVARIANTS
    TypeOK
    NothingLeft
    SubscriptionsSigned
    ClientEventsProtected
PROPERTY ClosedSocketEnds
