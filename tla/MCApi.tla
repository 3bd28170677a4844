--------------------------------- MODULE MCApi ---------------------------------
EXTENDS Api

CONSTANTS h1, s1, s2, s3, alice, bob, lobby, room, l1, l2, r1, r2

\* Two sockets of one user, one of another; only that one may also be in the room.
UsersOf == [s \in Sockets |-> IF s = s3 THEN bob ELSE alice]
KindsOf == [c \in Channels |-> IF c = lobby THEN "presence-" ELSE "public-"]
Rooms == ({lobby} \X {s1, s2}) \cup {<<room, s3>>}

\* An object for the map and another one that the handler holds or adds.
IdsOf == [o \in Objects |-> IF o \in {r1, r2} THEN room ELSE lobby]

LowerOf == [k \in Keys |-> IF k = "Name" THEN "name" ELSE k]
RankOf ==
    [k \in Keys |-> CASE k = "Name" -> 0 [] k = "auth_key" -> 1 [] k = "filter_by_prefix" -> 2
                      [] k = "info" -> 3 [] OTHER -> 4]

Query(info, filter) ==
    [k \in {"auth_key", "info", "filter_by_prefix"} |->
        CASE k = "info" -> <<info>> [] k = "filter_by_prefix" -> <<filter>> [] OTHER -> <<{"key"}>>]
Plain == [k \in {"auth_key"} |-> <<{"key"}>>]
Both == {"user_count", "subscription_count"}

Good == [kind |-> "channels", app |-> "enabled", body |-> "good", channels |-> <<>>,
         ignore |-> NoSocket, query |-> Plain, signed |-> TRUE]

Posts ==
    {[Good EXCEPT !.kind = "events", !.channels = <<room, lobby>>, !.ignore = s1, !.body = b] :
        b \in {"good", "overflow"}}
Reads ==
    {[Good EXCEPT !.query = Query({}, f)] : f \in {{}, {"public-"}}}
    \cup {[Good EXCEPT !.query = Query({"user_count"}, f)] : f \in {{}, {"presence-"}}}
    \cup {[Good EXCEPT !.kind = "channel", !.channels = <<c>>, !.query = Query(Both, {})] : c \in Channels}
    \cup {[Good EXCEPT !.kind = "channel", !.channels = <<room>>, !.query = Query({"subscription_count"}, {})]}
    \cup {[Good EXCEPT !.kind = "users", !.channels = <<c>>] : c \in Channels}
Bad ==
    {[Good EXCEPT !.kind = "events", !.channels = <<lobby>>, !.app = t[1], !.body = t[2], !.signed = t[3]] :
        t \in {<<"unknown", "good", TRUE>>, <<"disabled", "good", TRUE>>, <<"enabled", "garbage", FALSE>>,
               <<"enabled", "garbage", TRUE>>, <<"enabled", "large", TRUE>>}}

\* Queries that cannot be signed as documented: a key in upper case, a key with a second
\* value.
UpperCase == [Good EXCEPT !.query = [k \in {"auth_key", "Name"} |-> <<{k}>>]]
Repeated == [Good EXCEPT !.query = [k \in {"auth_key"} |-> <<{"key"}, {"info"}>>]]

AllRequests == Posts \cup Reads \cup Bad \cup {UpperCase, Repeated}
===============================================================================
