CONSTANTS
    room = room
    private = private
    presence = presence
    badName = badName
    Channels = {private}
    KindOf <- KindsOf
SPECIFICATION FairSpec
CHECK_DEADLOCK FALSE
INVARIANT DisabledEventsRejected
