CONSTANTS
    s1 = s1
    s2 = s2
    s3 = s3
    p1 = p1
    alice = alice
    bob = bob
    carol = carol
    Blank = Blank
    NoSocket = NoSocket
    Sockets = {s1, s2}
    Publishers = {p1}
    Users = {alice, bob, carol}
    UserOf <- OwnUsers
    IsPresence = TRUE
SPECIFICATION Spec
INVARIANTS
    TypeOK
    RangeStable
    NoMissingMember
    LastHookVacated
PROPERTY
    RoomSpec
