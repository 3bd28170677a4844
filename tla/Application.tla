------------------------------ MODULE Application ------------------------------
(***************************************************************************)
(* The channel registry of one application on one instance (app/app.go):   *)
(* the connections, the channels by id, the Pub/Sub listeners and the      *)
(* keys the instance keeps in Redis.                                       *)
(*                                                                         *)
(* Every websocket session is one goroutine that runs its own requests one *)
(* after the other (handleMessages), and every POST /events request is     *)
(* another; they interleave between the critical sections of app.go, which *)
(* are the actions of this module.  pc[t] names the section goroutine t    *)
(* enters next and cur[t] is the *channel.Channel pointer it holds.        *)
(*                                                                         *)
(* A channel is an object, not a name: two objects may carry the same id,  *)
(* and only the one in the map is found by a later request.  Objects are   *)
(* numbered in the order of their creation.                                *)
(***************************************************************************)
EXTENDS Integers, FiniteSets

CONSTANTS
    Sockets,        \* websocket sessions; an id is generated once and never reused
    Posters,        \* goroutines serving POST /events
    ChannelIDs,     \* names of channels
    Presence,       \* the names of presence channels among them
    MaxChannels,    \* bound: channel objects ever created
    RedisReplies,   \* outcomes of a Redis command: {TRUE}, {FALSE} or both
    Expiring        \* bound: the kinds of Redis keys whose 24 hours may run out

Channels == 1 .. MaxChannels
NoChannel == 0
Goroutines == Sockets \cup Posters

ASSUME GoroutineAssumption == Sockets \cap Posters = {}
ASSUME ChannelAssumption   == /\ ChannelIDs # {}
                              /\ Presence \subseteq ChannelIDs
                              /\ MaxChannels \in Nat
ASSUME RedisAssumption     == RedisReplies \in (SUBSET BOOLEAN) \ {{}}
ASSUME ExpiryAssumption    == Expiring \subseteq {"connection", "subscriptions", "presence"}

VARIABLES
    connections,        \* Application.connections
    channels,           \* Application.channels: id -> object, NoChannel when absent
    totalChannels,      \* Stats "TotalChannels"
    created,            \* how many channel objects exist
    name,               \* Channel.ID of each object
    subs,               \* keys of Channel.subscriptions of each object
    posted,             \* history: objects a POST made and no socket has entered
    channelSubscribers, \* keys of Application.channelSubscribers
    listeners,          \* how many listener goroutines an id has
    redisConns,         \* sockets with a connection key in Redis
    redisSubs,          \* members of the Redis subscription set of an id
    redisPresence,      \* fields of the Redis presence hash of an id
    expired,            \* history: members an id's set lost by expiry, not added since
    pc,                 \* where each goroutine is
    cur,                \* the channel object it holds
    ranging,            \* sockets inside the range loop of Disconnect
    todo,               \* ids that loop has still to produce
    fatal               \* the process died of a concurrent map iteration and write

registry == <<channels, totalChannels>>
objects  == <<created, name, subs, posted>>
pubsub   == <<channelSubscribers, listeners>>
redis    == <<redisConns, redisSubs, redisPresence, expired>>
control  == <<pc, cur>>
loop     == <<ranging, todo>>
vars     == <<connections, registry, objects, pubsub, redis, control, loop, fatal>>

SocketPCs == {"new", "open", "add", "subscribe", "redisSubscribe", "unsubscribe",
              "redisUnsubscribe", "checkOccupied", "removeSubscriber",
              "removeChannel", "range", "remove", "closed"}
PosterPCs == {"idle", "add", "publish"}

\* The sections that dereference the channel the goroutine carries there.
Holding == {"add", "subscribe", "publish", "redisSubscribe", "unsubscribe",
            "redisUnsubscribe", "checkOccupied", "removeSubscriber", "removeChannel"}

DataTypeOK ==
    /\ connections \subseteq Sockets
    /\ channels \in [ChannelIDs -> {NoChannel} \cup Channels]
    /\ totalChannels \in Int
    /\ created \in {NoChannel} \cup Channels
    /\ name \in [Channels -> ChannelIDs]
    /\ subs \in [Channels -> SUBSET Sockets]
    /\ posted \subseteq Channels
    /\ channelSubscribers \subseteq ChannelIDs
    /\ listeners \in [ChannelIDs -> Nat]
    /\ redisConns \subseteq Sockets
    /\ redisSubs \in [ChannelIDs -> SUBSET Sockets]
    /\ redisPresence \in [Presence -> SUBSET Sockets]
    /\ expired \in [ChannelIDs -> SUBSET Sockets]
    /\ ranging \subseteq Sockets
    /\ todo \in [Sockets -> SUBSET ChannelIDs]
    /\ fatal \in BOOLEAN

ControlTypeOK ==
    /\ pc \in [Goroutines -> SocketPCs \cup PosterPCs]
    /\ \A s \in Sockets : pc[s] \in SocketPCs
    /\ \A p \in Posters : pc[p] \in PosterPCs
    /\ cur \in [Goroutines -> {NoChannel} \cup Channels]

NoNilChannel == \A t \in Goroutines : pc[t] \in Holding => cur[t] # NoChannel

\* Every variable has its type, and no goroutine is about to use a nil channel.
TypeOK == DataTypeOK /\ ControlTypeOK /\ NoNilChannel

\* The name of an object not created yet; no action reads it.
AnyID == CHOOSE n \in ChannelIDs : TRUE

Init ==
    /\ connections = {}
    /\ channels = [n \in ChannelIDs |-> NoChannel]
    /\ totalChannels = 0
    /\ created = 0
    /\ name = [c \in Channels |-> AnyID]
    /\ subs = [c \in Channels |-> {}]
    /\ posted = {}
    /\ channelSubscribers = {}
    /\ listeners = [n \in ChannelIDs |-> 0]
    /\ redisConns = {}
    /\ redisSubs = [n \in ChannelIDs |-> {}]
    /\ redisPresence = [n \in Presence |-> {}]
    /\ expired = [n \in ChannelIDs |-> {}]
    /\ pc = [t \in Goroutines |-> IF t \in Sockets THEN "new" ELSE "idle"]
    /\ cur = [t \in Goroutines |-> NoChannel]
    /\ ranging = {}
    /\ todo = [s \in Sockets |-> {}]
    /\ fatal = FALSE

-------------------------------------------------------------------------------
(* Control: where a goroutine goes next and the pointer it carries there.   *)

Goto(t, label, c) ==
    /\ pc' = [pc EXCEPT ![t] = label]
    /\ cur' = [cur EXCEPT ![t] = c]

\* The end of Unsubscribe or Subscribe: back to the read loop, to the next
\* iteration of Disconnect's range, or, for a POST, to the HTTP server.
Return(t) ==
    Goto(t, IF t \in Posters THEN "idle" ELSE IF t \in ranging THEN "range" ELSE "open",
         NoChannel)

Registered == {n \in ChannelIDs : channels[n] # NoChannel}

\* Disconnect ranges over Application.channels without the lock.  The runtime
\* stops the process when it catches such an iteration during a write by another
\* goroutine, and need not catch it.
MapWrite(t) ==
    fatal' \in IF \E s \in Sockets \ {t} : pc[s] = "range" THEN BOOLEAN ELSE {FALSE}

\* A range over a Go map may or may not produce a key added behind its back,
\* and does not produce a key deleted before it is reached.
RangeMayProduce(n) ==
    \E late \in SUBSET (IF n \in Registered THEN {} ELSE ranging) :
        todo' = [s \in Sockets |-> IF s \in late THEN todo[s] \cup {n} ELSE todo[s]]

RangeForgets(n) == todo' = [s \in Sockets |-> todo[s] \ {n}]

-------------------------------------------------------------------------------
(* Connections.                                                             *)

\* onOpen -> Connect: the Redis key first, then the map.
Connect(s) ==
    /\ pc[s] = "new"
    /\ \E ok \in RedisReplies :
        redisConns' = IF ok THEN redisConns \cup {s} ELSE redisConns
    /\ connections' = connections \cup {s}
    /\ Goto(s, "open", NoChannel)
    /\ UNCHANGED <<registry, objects, pubsub, redisSubs, redisPresence, expired,
                   loop, fatal>>

\* Mutant: the connection is forgotten before its channels are left.
DisconnectForgetsFirst(s) ==
    /\ pc[s] = "open"
    /\ connections' = connections \ {s}
    /\ ranging' = ranging \cup {s}
    /\ todo' = [todo EXCEPT ![s] = Registered]
    /\ Goto(s, "range", NoChannel)
    /\ UNCHANGED <<registry, objects, pubsub, redis, fatal>>

\* onClose -> Disconnect, up to the start of the range over a.channels.
Disconnect(s) ==
    /\ pc[s] = "open"
    /\ ranging' = ranging \cup {s}
    /\ todo' = [todo EXCEPT ![s] = Registered]
    /\ Goto(s, "range", NoChannel)
    /\ UNCHANGED <<connections, registry, objects, pubsub, redis, fatal>>

\* Mutant: a channel the socket is not in is produced again and again.
DisconnectVisitAgain(s, n) ==
    /\ pc[s] = "range"
    /\ n \in todo[s]
    /\ IF s \in subs[channels[n]]
         THEN /\ Goto(s, "unsubscribe", channels[n])
              /\ todo' = [todo EXCEPT ![s] = @ \ {n}]
         ELSE UNCHANGED <<control, todo>>
    /\ UNCHANGED <<connections, registry, objects, pubsub, redis, ranging, fatal>>

\* One iteration: the map's current value for the key, Unsubscribe if subscribed.
DisconnectVisit(s, n) ==
    /\ pc[s] = "range"
    /\ n \in todo[s]
    /\ todo' = [todo EXCEPT ![s] = @ \ {n}]
    /\ IF s \in subs[channels[n]]
         THEN Goto(s, "unsubscribe", channels[n])
         ELSE UNCHANGED control
    /\ UNCHANGED <<connections, registry, objects, pubsub, redis, ranging, fatal>>

\* Mutant: the loop is left at the first channel instead of continued.
DisconnectUnregisterEarly(s) ==
    /\ pc[s] = "range"
    /\ ranging' = ranging \ {s}
    /\ \E ok \in RedisReplies :
        redisConns' = IF ok THEN redisConns \ {s} ELSE redisConns
    /\ Goto(s, "remove", NoChannel)
    /\ UNCHANGED <<connections, registry, objects, pubsub, redisSubs, redisPresence,
                   expired, todo, fatal>>

DisconnectUnregister(s) ==
    /\ pc[s] = "range"
    /\ todo[s] = {}
    /\ ranging' = ranging \ {s}
    /\ \E ok \in RedisReplies :
        redisConns' = IF ok THEN redisConns \ {s} ELSE redisConns
    /\ Goto(s, "remove", NoChannel)
    /\ UNCHANGED <<connections, registry, objects, pubsub, redisSubs, redisPresence,
                   expired, todo, fatal>>

DisconnectRemove(s) ==
    /\ pc[s] = "remove"
    /\ connections' = connections \ {s}
    /\ Goto(s, "closed", NoChannel)
    /\ UNCHANGED <<registry, objects, pubsub, redis, loop, fatal>>

-------------------------------------------------------------------------------
(* Channels.                                                                *)

\* FindOrCreateChannelByChannelID up to AddChannel.  The lookup takes the read
\* lock and releases it, so a missing channel may be created by several callers.
FindOrCreate(t, n, found) ==
    \/ /\ channels[n] # NoChannel
       /\ Goto(t, found, channels[n])
       /\ UNCHANGED objects
    \/ /\ channels[n] = NoChannel
       /\ created < MaxChannels
       /\ created' = created + 1
       /\ name' = [name EXCEPT ![created'] = n]
       /\ posted' = IF t \in Posters THEN posted \cup {created'} ELSE posted
       /\ Goto(t, "add", created')
       /\ UNCHANGED subs

\* handleSubscribe (after its checks) and one channel of POST /events.
SubscribeRequest(s, n) ==
    /\ pc[s] = "open"
    /\ FindOrCreate(s, n, "subscribe")
    /\ UNCHANGED <<connections, registry, pubsub, redis, loop, fatal>>

PostRequest(p, n) ==
    /\ pc[p] = "idle"
    /\ FindOrCreate(p, n, "publish")
    /\ UNCHANGED <<connections, registry, pubsub, redis, loop, fatal>>

\* The key is claimed only when SUBSCRIBE succeeded; the listener never ends.
SetupChannelPubSub(n) ==
    \/ /\ n \in channelSubscribers
       /\ UNCHANGED pubsub
    \/ /\ n \notin channelSubscribers
       /\ \E ok \in RedisReplies :
           IF ok THEN /\ channelSubscribers' = channelSubscribers \cup {n}
                      /\ listeners' = [listeners EXCEPT ![n] = @ + 1]
                 ELSE UNCHANGED pubsub

\* One critical section: the map entry, whatever was there, then the listener.
AddChannel(t) ==
    LET c == cur[t]
        n == name[c]
    IN  /\ pc[t] = "add"
        /\ channels' = [channels EXCEPT ![n] = c]
        /\ SetupChannelPubSub(n)
        /\ totalChannels' = totalChannels + 1
        /\ MapWrite(t)
        /\ RangeMayProduce(n)
        /\ Goto(t, IF t \in Posters THEN "publish" ELSE "subscribe", c)
        /\ UNCHANGED <<connections, objects, redis, ranging>>

\* Publish to the channel found; what it delivers is the subject of Channel.tla
\* and Cluster.tla.  No registry state changes.
PostPublish(p) ==
    /\ pc[p] = "publish"
    /\ Return(p)
    /\ UNCHANGED <<connections, registry, objects, pubsub, redis, loop, fatal>>

\* channel.Subscribe: the entry is made before the presence data is decoded, and
\* stays when that fails.
ChannelSubscribe(s) ==
    /\ pc[s] = "subscribe"
    /\ subs' = [subs EXCEPT ![cur[s]] = @ \cup {s}]
    /\ posted' = posted \ {cur[s]}
    /\ \/ Goto(s, "redisSubscribe", cur[s])
       \/ name[cur[s]] \in Presence /\ Return(s)
    /\ UNCHANGED <<connections, registry, created, name, pubsub, redis, loop, fatal>>

\* SubscribeToChannel, and StorePresenceData whether or not that succeeded.
RedisSubscribe(s) ==
    LET n == name[cur[s]]
    IN  /\ pc[s] = "redisSubscribe"
        /\ \E ok \in RedisReplies :
            /\ redisSubs' = IF ok THEN [redisSubs EXCEPT ![n] = @ \cup {s}] ELSE redisSubs
            /\ expired' = IF ok THEN [expired EXCEPT ![n] = @ \ {s}] ELSE expired
        /\ \E ok \in RedisReplies :
            redisPresence' = IF ok /\ n \in Presence
                               THEN [redisPresence EXCEPT ![n] = @ \cup {s}]
                               ELSE redisPresence
        /\ Return(s)
        /\ UNCHANGED <<connections, registry, objects, pubsub, redisConns, loop, fatal>>

\* What Redis holds for an id or a connection expires 24 hours after the command that
\* renewed it last, whoever is still subscribed then.
KeyExpires ==
    /\ \/ /\ "connection" \in Expiring
          /\ \E s \in redisConns : redisConns' = redisConns \ {s}
          /\ UNCHANGED <<redisSubs, redisPresence, expired>>
       \/ /\ "subscriptions" \in Expiring
          /\ \E n \in ChannelIDs :
                /\ redisSubs[n] # {}
                /\ redisSubs' = [redisSubs EXCEPT ![n] = {}]
                /\ expired' = [expired EXCEPT ![n] = @ \cup redisSubs[n]]
          /\ UNCHANGED <<redisConns, redisPresence>>
       \/ /\ "presence" \in Expiring
          /\ \E n \in Presence :
                /\ redisPresence[n] # {}
                /\ redisPresence' = [redisPresence EXCEPT ![n] = {}]
          /\ UNCHANGED <<redisConns, redisSubs, expired>>
    /\ UNCHANGED <<connections, registry, objects, pubsub, control, loop, fatal>>

\* Mutant: the error of the lookup is ignored, and a nil channel is left.
UnsubscribeUnchecked(s, n) ==
    /\ pc[s] = "open"
    /\ Goto(s, "unsubscribe", channels[n])
    /\ UNCHANGED <<connections, registry, objects, pubsub, redis, loop, fatal>>

\* handleUnsubscribe: the lookup; a missing channel is reported to the peer.
UnsubscribeRequest(s, n) ==
    /\ pc[s] = "open"
    /\ n \in Registered
    /\ Goto(s, "unsubscribe", channels[n])
    /\ UNCHANGED <<connections, registry, objects, pubsub, redis, loop, fatal>>

\* channel.Unsubscribe: an error, and nothing else, for a socket not in it.
ChannelUnsubscribe(s) ==
    /\ pc[s] = "unsubscribe"
    /\ subs' = [subs EXCEPT ![cur[s]] = @ \ {s}]
    /\ IF s \in subs[cur[s]] THEN Goto(s, "redisUnsubscribe", cur[s]) ELSE Return(s)
    /\ UNCHANGED <<connections, registry, created, name, posted, pubsub, redis, loop,
                   fatal>>

\* Mutant: the subscription set is deleted instead of one member of it.
RedisUnsubscribeAll(s) ==
    /\ pc[s] = "redisUnsubscribe"
    /\ redisSubs' = [redisSubs EXCEPT ![name[cur[s]]] = {}]
    /\ Goto(s, "checkOccupied", cur[s])
    /\ UNCHANGED <<connections, registry, objects, pubsub, redisConns, redisPresence,
                   expired, loop, fatal>>

\* UnsubscribeFromChannel, and RemovePresenceData whether or not that succeeded.
RedisUnsubscribe(s) ==
    LET n == name[cur[s]]
    IN  /\ pc[s] = "redisUnsubscribe"
        /\ \E ok \in RedisReplies :
            redisSubs' = IF ok THEN [redisSubs EXCEPT ![n] = @ \ {s}] ELSE redisSubs
        /\ \E ok \in RedisReplies :
            redisPresence' = IF ok /\ n \in Presence
                               THEN [redisPresence EXCEPT ![n] = @ \ {s}]
                               ELSE redisPresence
        /\ Goto(s, "checkOccupied", cur[s])
        /\ UNCHANGED <<connections, registry, objects, pubsub, redisConns, expired, loop,
                       fatal>>

\* Mutants of the test that decides on RemoveChannel: off by one, and never true.
VacantOffByOne(c) == Cardinality(subs[c]) <= 1
NeverVacant(c) == Cardinality(subs[c]) < 0

Vacant(c) == subs[c] = {}

CheckOccupied(s) ==
    /\ pc[s] = "checkOccupied"
    /\ IF Vacant(cur[s]) THEN Goto(s, "removeSubscriber", cur[s]) ELSE Return(s)
    /\ UNCHANGED <<connections, registry, objects, pubsub, redis, loop, fatal>>

\* Mutant: the listener is closed where its key is deleted.
RemoveSubscriberAndClose(s) ==
    /\ pc[s] = "removeSubscriber"
    /\ channelSubscribers' = channelSubscribers \ {name[cur[s]]}
    /\ listeners' = [listeners EXCEPT ![name[cur[s]]] = 0]
    /\ Goto(s, "removeChannel", cur[s])
    /\ UNCHANGED <<connections, registry, objects, redis, loop, fatal>>

\* RemoveChannel, first section: the key is forgotten, the listener lives on.
RemoveSubscriber(s) ==
    /\ pc[s] = "removeSubscriber"
    /\ channelSubscribers' = channelSubscribers \ {name[cur[s]]}
    /\ Goto(s, "removeChannel", cur[s])
    /\ UNCHANGED <<connections, registry, objects, listeners, redis, loop, fatal>>

\* Mutant: the statistics are not touched.
UncountNothing == UNCHANGED totalChannels

UncountChannel == totalChannels' = totalChannels - 1

\* RemoveChannel, second section: whatever object the id has now is deleted.
RemoveChannel(s) ==
    LET n == name[cur[s]]
    IN  /\ pc[s] = "removeChannel"
        /\ channels' = [channels EXCEPT ![n] = NoChannel]
        /\ UncountChannel
        /\ MapWrite(s)
        /\ RangeForgets(n)
        /\ Return(s)
        /\ UNCHANGED <<connections, objects, pubsub, redis, ranging>>

-------------------------------------------------------------------------------
\* What a peer may ask for, at any time it is served.
Request(t) ==
    \/ t \in Sockets /\ Connect(t)
    \/ t \in Sockets /\ Disconnect(t)
    \/ t \in Sockets /\ \E n \in ChannelIDs : SubscribeRequest(t, n)
    \/ t \in Sockets /\ \E n \in ChannelIDs : UnsubscribeRequest(t, n)
    \/ t \in Posters /\ \E n \in ChannelIDs : PostRequest(t, n)

\* What the goroutine does of itself once a request has been taken.
Serve(t) ==
    \/ AddChannel(t)
    \/ t \in Posters /\ PostPublish(t)
    \/ t \in Sockets /\ ChannelSubscribe(t)
    \/ t \in Sockets /\ RedisSubscribe(t)
    \/ t \in Sockets /\ ChannelUnsubscribe(t)
    \/ t \in Sockets /\ RedisUnsubscribe(t)
    \/ t \in Sockets /\ CheckOccupied(t)
    \/ t \in Sockets /\ RemoveSubscriber(t)
    \/ t \in Sockets /\ RemoveChannel(t)
    \/ t \in Sockets /\ \E n \in ChannelIDs : DisconnectVisit(t, n)
    \/ t \in Sockets /\ DisconnectUnregister(t)
    \/ t \in Sockets /\ DisconnectRemove(t)

Next == ~fatal /\ (KeyExpires \/ \E t \in Goroutines : Request(t) \/ Serve(t))

Spec == Init /\ [][Next]_vars

\* A goroutine that serves a request is scheduled; nobody has to send one.
FairSpec == Spec /\ \A t \in Goroutines : WF_vars(~fatal /\ Serve(t))

\* The same program when a request starts only after the last one has ended.
Quiet == \A t \in Goroutines : pc[t] \in {"new", "open", "closed", "idle"}

SerialNext ==
    ~fatal /\ (KeyExpires \/ \E t \in Goroutines : (Quiet /\ Request(t)) \/ Serve(t))

SerialSpec == Init /\ [][SerialNext]_vars

-------------------------------------------------------------------------------
(* Properties.                                                              *)

\* Disconnect ranges over a map that others change, and objects are replaced
\* behind its back; still no later event finds the socket it has disconnected.
DisconnectedUnreachable ==
    \A n \in Registered : subs[channels[n]] \subseteq connections

\* While Redis answers, a registered channel has a listener, although RemoveChannel
\* forgets the key of an id before, and apart from, the removal of its channel.
ListenerServes ==
    RedisReplies = {TRUE} => \A n \in Registered : listeners[n] >= 1

\* While Redis answers, the subscription set of Redis names every subscriber of a
\* registered channel but the one whose SADD is pending and those that were in the set
\* when it expired: Publish decides by that set whether other instances hear of an
\* event.  A presence subscriber whose data did not decode has an entry in the channel
\* and none in Redis.
RegisteredSubscriberInRedis ==
    RedisReplies = {TRUE} =>
        \A n \in Registered \ Presence : \A s \in subs[channels[n]] :
            \/ s \in redisSubs[n] \cup expired[n]
            \/ pc[s] = "redisSubscribe" /\ cur[s] = channels[n]

\* app.go:450: Unsubscribe removes "the channel from the application if it is empty".
OnlyEmptyChannelsRemoved ==
    [][\A n \in ChannelIDs :
        channels[n] # NoChannel /\ channels'[n] = NoChannel => subs[channels[n]] = {}]_vars

\* app_test.go:566, "Verify unsubscribed from all channels" after Disconnect.
DisconnectUnsubscribesAll ==
    \A s \in Sockets : pc[s] = "closed" => \A c \in Channels : s \notin subs[c]

\* app.go:228 and 289: the subscriber of a removed channel is cleaned up and an id
\* already subscribed is not subscribed again, so an id has at most one listener.
AtMostOneListener == \A n \in ChannelIDs : listeners[n] <= 1

\* The map of channels is never iterated while it is written.
NeverFatal == ~fatal

\* The channels of the map are those GET /channels lists.  Between requests, one without
\* subscribers is the work of a POST: the last to leave a channel took it out of the map.
EmptyOnlyByPost ==
    Quiet => \A n \in Registered : subs[channels[n]] = {} => channels[n] \in posted

\* handlers.go:214, GET /channels fetches "a hash of occupied channels".
OnlyOccupiedListed == Quiet => \A n \in Registered : subs[channels[n]] # {}

\* TotalChannels counts the channels of the map whenever no request is running.
TotalChannelsExact == Quiet => totalChannels = Cardinality(Registered)

\* Disconnect ends, whatever the others do to the map it ranges over.
DisconnectCompletes ==
    \A s \in Sockets : pc[s] = "range" ~> (pc[s] = "closed" \/ fatal)

\* The sockets an event on an id is delivered to.
Reached == [n \in ChannelIDs |-> IF n \in Registered THEN subs[channels[n]] ELSE {}]

\* Whatever the interleaving, the registry implements Membership.
Abstract == INSTANCE Membership WITH open <- connections, members <- Reached

MembershipSpec == Abstract!Spec
===============================================================================
