CONSTANTS
    s1 = s1
    s2 = s2
    s3 = s3
    p1 = p1
    alice = alice
    bob = bob
    carol = carol
    Blank = Blank
    NoSocket = NoSocket
    Sockets = {s1, s2}
    Publishers = {}
    Users = {alice, bob, carol}
    UserOf <- OwnUsers
    IsPresence = TRUE
SPECIFICATION Spec
INVARIANT NoBlankMember
