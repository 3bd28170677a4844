CONSTANTS
    h1 = h1
    s1 = s1
    s2 = s2
    s3 = s3
    alice = alice
    bob = bob
    lobby = lobby
    room = room
    Blank = Blank
    NoSocket = NoSocket
    NoObject = NoObject
    l1 = l1
    l2 = l2
    r1 = r1
    r2 = r2
    Objects = {l1, l2, r1, r2}
    IdOf <- IdsOf
    Handlers = {h1}
    Sockets = {s1, s2, s3}
    Users = {alice, bob}
    UserOf <- UsersOf
    Channels = {lobby, room}
    KindOf <- KindsOf
    Joins <- Rooms
    Keys = {"auth_key", "info", "filter_by_prefix", "name", "Name"}
    Lower <- LowerOf
    Rank <- RankOf
    Requests <- AllRequests
SPECIFICATION Spec
INVARIANT AnyCaseIsAuthorized
