-------------------------------- MODULE Cluster --------------------------------
(***************************************************************************)
(* One channel of one application on several instances that share a Redis  *)
(* (Application.Publish, the listener of setupChannelPubSub, and the keys  *)
(* of redis/redis.go they decide by).                                      *)
(*                                                                         *)
(* Every Redis command is one step, and the steps of all goroutines of all *)
(* instances interleave.  Instances crash and come back, a command fails,  *)
(* Pub/Sub loses events, keys expire.  A command that is executed but      *)
(* whose reply is lost counts as executed: no caller tells them apart.     *)
(* go-redis keeps the order of a Pub/Sub connection.                       *)
(*                                                                         *)
(* On each instance the channel is an object, as in Application.tla: a     *)
(* goroutine carries the pointer it has found (cur) from one section to    *)
(* the next, while others replace the object in the map or remove it.      *)
(***************************************************************************)
EXTENDS Integers, Sequences, FiniteSets

CONSTANTS
    Instances,
    Sockets,
    Home,           \* the instance each socket is connected to
    Messages,       \* the events published, each once
    At,             \* the instances an event may be published at
    Ignore,         \* the socket an event names as its sender, or NoSocket
    NoSocket,
    MaxChannels,    \* bound: channel objects an instance ever creates
    MaxListeners,   \* bound: listener goroutines an instance ever starts
    MaxFailures,    \* bound: failures of instances, failed commands and lost events
    KeysExpire      \* whether 24 hours may pass

NoInstance == "none"
Channels == 1 .. MaxChannels
NoChannel == 0
Slots == 1 .. MaxListeners

ASSUME ClusterAssumption ==
    /\ Home \in [Sockets -> Instances]
    /\ At \in [Messages -> SUBSET Instances]
    /\ Ignore \in [Messages -> Sockets \cup {NoSocket}]
    /\ NoSocket \notin Sockets /\ NoInstance \notin Instances
    /\ Sockets \cap Messages = {}
    /\ MaxChannels \in Nat
    /\ MaxListeners \in Nat
    /\ MaxFailures \in Nat
    /\ KeysExpire \in BOOLEAN

VARIABLES
    pc,             \* where each socket and each event is
    at,             \* at[m]: the instance m is published at
    channel,        \* channel[i]: the object in the channel map of i, or NoChannel
    subs,           \* subs[i][c]: keys of Channel.subscriptions of object c of i
    created,        \* created[i]: how many objects i has made since it started
    cur,            \* the object a socket's or an event's goroutine holds
    claimed,        \* instances with the channel in channelSubscribers
    started,        \* started[i]: how many listeners instance i has
    queue,          \* queue[i][k]: events sent to the k-th listener, in order
    taken,          \* taken[i][k]: the event it handles, the object it has found for
                    \* it and the socket it leaves out
    redisSubs,      \* the Redis subscription set of the channel
    redisConn,      \* redisConn[s]: the instance in the connection key of s
    asked,          \* asked[m]: members of that set Publish has still to look up
    failures,       \* how many failures, failed commands and lost events there were
    received,       \* received[s][m]: how often s was sent m
    confirmed,      \* confirmed[m]: who has been a subscriber since before m
    recorded,       \* recorded[m]: those of them whom Redis had then, and whose object
                    \* has been in the map of their instance since
    earlier,        \* earlier[m]: events whose Publish had returned before m
    keyless,        \* sockets whose connection key has expired or was never written
    struck          \* events one of whose commands failed, or lost in Pub/Sub

objects == <<channel, subs, created>>
listeners == <<claimed, started>>
pubsub  == <<queue, taken>>
redis   == <<redisSubs, redisConn>>
history == <<received, confirmed, recorded, earlier, keyless, struck>>
vars    == <<pc, at, cur, objects, listeners, pubsub, redis, asked, failures, history>>

Nothing == [msg |-> "none"]
Handled == [msg : Messages, channel : Channels, ignore : Sockets \cup {NoSocket}]

SocketPCs  == {"offline", "up", "add", "subscribe", "redisSubscribe", "subscribed",
               "unsubscribe", "redisUnsubscribe", "checkOccupied", "removeSubscriber",
               "removeChannel", "gone"}
MessagePCs == {"new", "add", "deliver", "members", "lookup", "publish", "done", "lost"}

\* The sections that use the object a goroutine holds.
Holding == {"add", "deliver", "subscribe", "redisSubscribe", "unsubscribe",
            "redisUnsubscribe", "checkOccupied", "removeSubscriber", "removeChannel"}

TypeOK ==
    /\ pc \in [Sockets \cup Messages -> SocketPCs \cup MessagePCs]
    /\ at \in [Messages -> Instances \cup {NoInstance}]
    /\ channel \in [Instances -> {NoChannel} \cup Channels]
    /\ subs \in [Instances -> [Channels -> SUBSET Sockets]]
    /\ \A i \in Instances, c \in Channels : \A s \in subs[i][c] : Home[s] = i
    /\ created \in [Instances -> {NoChannel} \cup Channels]
    /\ cur \in [Sockets \cup Messages -> {NoChannel} \cup Channels]
    /\ \A t \in Sockets \cup Messages : pc[t] \in Holding => cur[t] # NoChannel
    /\ claimed \subseteq Instances
    /\ started \in [Instances -> 0 .. MaxListeners]
    /\ queue \in [Instances -> [Slots -> Seq(Messages)]]
    /\ taken \in [Instances -> [Slots -> Handled \cup {Nothing}]]
    /\ redisSubs \subseteq Sockets
    /\ redisConn \in [Sockets -> Instances \cup {NoInstance}]
    /\ asked \in [Messages -> SUBSET Sockets]
    /\ failures \in 0 .. MaxFailures
    /\ received \in [Sockets -> [Messages -> Nat]]
    /\ confirmed \in [Messages -> SUBSET Sockets]
    /\ recorded \in [Messages -> SUBSET Sockets]
    /\ earlier \in [Messages -> SUBSET Messages]
    /\ keyless \subseteq Sockets
    /\ struck \subseteq Messages

Init ==
    /\ pc = [t \in Sockets \cup Messages |-> IF t \in Sockets THEN "offline" ELSE "new"]
    /\ at = [m \in Messages |-> NoInstance]
    /\ channel = [i \in Instances |-> NoChannel]
    /\ subs = [i \in Instances |-> [c \in Channels |-> {}]]
    /\ created = [i \in Instances |-> NoChannel]
    /\ cur = [t \in Sockets \cup Messages |-> NoChannel]
    /\ claimed = {}
    /\ started = [i \in Instances |-> 0]
    /\ queue = [i \in Instances |-> [k \in Slots |-> <<>>]]
    /\ taken = [i \in Instances |-> [k \in Slots |-> Nothing]]
    /\ redisSubs = {}
    /\ redisConn = [s \in Sockets |-> NoInstance]
    /\ asked = [m \in Messages |-> {}]
    /\ received = [s \in Sockets |-> [m \in Messages |-> 0]]
    /\ failures = 0
    /\ confirmed = [m \in Messages |-> {}]
    /\ recorded = [m \in Messages |-> {}]
    /\ earlier = [m \in Messages |-> {}]
    /\ keyless = {}
    /\ struck = {}

\* Where a goroutine goes, and the object it carries there.
Goto(t, label, c) ==
    /\ pc' = [pc EXCEPT ![t] = label]
    /\ cur' = [cur EXCEPT ![t] = c]

\* Whether the command of a step succeeds.
Command(ok) ==
    IF ok THEN UNCHANGED failures
          ELSE failures < MaxFailures /\ failures' = failures + 1

Registered(i) == channel[i] # NoChannel

\* Who is in the object that the map of i has for the channel.
Local(i) == IF Registered(i) THEN subs[i][channel[i]] ELSE {}

\* FindOrCreateChannelByChannelID up to AddChannel: several callers may find nothing.
FindOrCreate(t, i, found) ==
    \/ /\ Registered(i)
       /\ Goto(t, found, channel[i])
       /\ UNCHANGED created
    \/ /\ ~Registered(i)
       /\ created[i] < MaxChannels
       /\ created' = [created EXCEPT ![i] = @ + 1]
       /\ Goto(t, "add", created'[i])

\* A listener is started unless the channel is claimed.  When SUBSCRIBE fails the
\* channel is in the map all the same.
SetupChannelPubSub(i) ==
    IF i \in claimed
      THEN UNCHANGED <<listeners, failures>>
      ELSE \E ok \in BOOLEAN :
             /\ Command(ok)
             /\ IF ok THEN /\ started[i] < MaxListeners
                          /\ claimed' = claimed \cup {i}
                          /\ started' = [started EXCEPT ![i] = @ + 1]
                      ELSE UNCHANGED listeners

\* Those in the object i has had in its map so far are not looked for there any more.
NoLongerFound(i) == recorded' = [m \in Messages |-> recorded[m] \ Local(i)]

\* The map entry, whatever was there.
AddChannel(t, i, next) ==
    /\ pc[t] = "add"
    /\ channel' = [channel EXCEPT ![i] = cur[t]]
    /\ SetupChannelPubSub(i)
    /\ NoLongerFound(i)
    /\ Goto(t, next, cur[t])
    /\ UNCHANGED <<at, subs, created, pubsub, redis, asked, received, confirmed, earlier,
                   keyless, struck>>

\* Channel.Publish.  A closed connection is sent nothing.
Deliver(i, c, ignore, m) ==
    received' = [s \in Sockets |->
                    IF s \in subs[i][c] \ {ignore} /\ pc[s] # "gone"
                      THEN [received[s] EXCEPT ![m] = @ + 1] ELSE received[s]]

NoLongerDue(leaving) ==
    /\ confirmed' = [m \in Messages |-> confirmed[m] \ leaving]
    /\ recorded' = [m \in Messages |-> recorded[m] \ leaving]

-------------------------------------------------------------------------------
(* Sockets.                                                                 *)

Connect(s) ==
    /\ pc[s] = "offline"
    /\ \E ok \in BOOLEAN :
        /\ Command(ok)
        /\ redisConn' = [redisConn EXCEPT ![s] = IF ok THEN Home[s] ELSE @]
        /\ keyless' = IF ok THEN keyless ELSE keyless \cup {s}
    /\ Goto(s, "up", NoChannel)
    /\ UNCHANGED <<at, objects, listeners, pubsub, redisSubs, asked, received, confirmed,
                   recorded, earlier, struck>>

SubscribeRequest(s) ==
    /\ pc[s] = "up"
    /\ FindOrCreate(s, Home[s], "subscribe")
    /\ UNCHANGED <<at, channel, subs, listeners, pubsub, redis, asked, failures, history>>

\* The local subscription, confirmed to the client, in the object found before.
ChannelSubscribe(s) ==
    /\ pc[s] = "subscribe"
    /\ subs' = [subs EXCEPT ![Home[s]][cur[s]] = @ \cup {s}]
    /\ Goto(s, "redisSubscribe", cur[s])
    /\ UNCHANGED <<at, channel, created, listeners, pubsub, redis, asked, failures, history>>

RedisSubscribe(s) ==
    /\ pc[s] = "redisSubscribe"
    /\ \E ok \in BOOLEAN :
        /\ Command(ok)
        /\ redisSubs' = IF ok THEN redisSubs \cup {s} ELSE redisSubs
    /\ Goto(s, "subscribed", NoChannel)
    /\ UNCHANGED <<at, objects, listeners, pubsub, redisConn, asked, history>>

\* handleUnsubscribe, or the visit of Disconnect: only a socket that is in the object
\* the map has leaves it.
UnsubscribeRequest(s) ==
    /\ pc[s] = "subscribed"
    /\ s \in Local(Home[s])
    /\ Goto(s, "unsubscribe", channel[Home[s]])
    /\ UNCHANGED <<at, objects, listeners, pubsub, redis, asked, failures, history>>

ChannelUnsubscribe(s) ==
    /\ pc[s] = "unsubscribe"
    /\ subs' = [subs EXCEPT ![Home[s]][cur[s]] = @ \ {s}]
    /\ NoLongerDue({s})
    /\ Goto(s, "redisUnsubscribe", cur[s])
    /\ UNCHANGED <<at, channel, created, listeners, pubsub, redis, asked, failures, received,
                   earlier, keyless, struck>>

RedisUnsubscribe(s) ==
    /\ pc[s] = "redisUnsubscribe"
    /\ \E ok \in BOOLEAN :
        /\ Command(ok)
        /\ redisSubs' = IF ok THEN redisSubs \ {s} ELSE redisSubs
    /\ Goto(s, "checkOccupied", cur[s])
    /\ UNCHANGED <<at, objects, listeners, pubsub, redisConn, asked, history>>

CheckOccupied(s) ==
    /\ pc[s] = "checkOccupied"
    /\ IF subs[Home[s]][cur[s]] = {} THEN Goto(s, "removeSubscriber", cur[s])
                                     ELSE Goto(s, "up", NoChannel)
    /\ UNCHANGED <<at, objects, listeners, pubsub, redis, asked, failures, history>>

\* RemoveChannel, first section: the claim goes, the listener stays.
RemoveSubscriber(s) ==
    /\ pc[s] = "removeSubscriber"
    /\ claimed' = claimed \ {Home[s]}
    /\ Goto(s, "removeChannel", cur[s])
    /\ UNCHANGED <<at, objects, started, pubsub, redis, asked, failures, history>>

\* RemoveChannel, second section: whatever object the map has by now is deleted.
RemoveChannel(s) ==
    /\ pc[s] = "removeChannel"
    /\ channel' = [channel EXCEPT ![Home[s]] = NoChannel]
    /\ NoLongerFound(Home[s])
    /\ Goto(s, "up", NoChannel)
    /\ UNCHANGED <<at, subs, created, listeners, pubsub, redis, asked, failures, received,
                   confirmed, earlier, keyless, struck>>

\* The end of Disconnect, when the object in the map does not have the socket.  One
\* that has left the map keeps it, and so does the set in Redis.
Unregister(s) ==
    /\ pc[s] \in {"up", "subscribed"}
    /\ s \notin Local(Home[s])
    /\ \E ok \in BOOLEAN :
        /\ Command(ok)
        /\ redisConn' = [redisConn EXCEPT ![s] = IF ok THEN NoInstance ELSE @]
    /\ Goto(s, "gone", NoChannel)
    /\ UNCHANGED <<at, objects, listeners, pubsub, redisSubs, asked, history>>

\* The connection key is written once, by Connect, to live for 24 hours.
Expire(s) ==
    /\ KeysExpire
    /\ redisConn[s] # NoInstance
    /\ redisConn' = [redisConn EXCEPT ![s] = NoInstance]
    /\ keyless' = keyless \cup {s}
    /\ UNCHANGED <<pc, at, cur, objects, listeners, pubsub, redisSubs, asked, failures,
                   received, confirmed, recorded, earlier, struck>>

\* The subscription set lives for 24 hours from the last SADD, so all in it are as old.
ExpireSubscriptions ==
    /\ KeysExpire
    /\ redisSubs # {}
    /\ redisSubs' = {}
    /\ NoLongerDue(redisSubs)
    /\ UNCHANGED <<pc, at, cur, objects, listeners, pubsub, redisConn, asked, failures,
                   received, earlier, keyless, struck>>

-------------------------------------------------------------------------------
(* Publish.                                                                 *)

\* By a client event or a POST: a POST may name any socket id that has been given
\* out, and creates the channel; for a client event it exists already.
PublishRequest(m, i) ==
    /\ pc[m] = "new"
    /\ Ignore[m] # NoSocket => pc[Ignore[m]] # "offline"
    /\ at' = [at EXCEPT ![m] = i]
    /\ FindOrCreate(m, i, "deliver")
    /\ confirmed' = [confirmed EXCEPT
            ![m] = {s \in Sockets \ {Ignore[m]} : pc[s] \in {"redisSubscribe", "subscribed"}}]
    /\ recorded' = [recorded EXCEPT
            ![m] = {s \in redisSubs \ {Ignore[m]} :
                        pc[s] = "subscribed" /\ s \in Local(Home[s])}]
    /\ earlier' = [earlier EXCEPT ![m] = {n \in Messages : pc[n] = "done"}]
    /\ UNCHANGED <<channel, subs, listeners, pubsub, redis, asked, failures, received, keyless,
                   struck>>

\* To the local subscribers first, those of the object found.
PublishLocal(m) ==
    /\ pc[m] = "deliver"
    /\ Deliver(at[m], cur[m], Ignore[m], m)
    /\ Goto(m, "members", NoChannel)
    /\ UNCHANGED <<at, objects, listeners, pubsub, redis, asked, failures, confirmed, recorded,
                   earlier, keyless, struck>>

Strike(ok, m) == struck' = IF ok THEN struck ELSE struck \cup {m}

\* SMEMBERS, after which no other instance is reached when it fails.
GetChannelSubscriptions(m) ==
    /\ pc[m] = "members"
    /\ \E ok \in BOOLEAN :
        /\ Command(ok)
        /\ Strike(ok, m)
        /\ asked' = [asked EXCEPT ![m] = IF ok THEN redisSubs ELSE {}]
        /\ Goto(m, IF ok THEN "lookup" ELSE "done", NoChannel)
    /\ UNCHANGED <<at, objects, listeners, pubsub, redis, received, confirmed, recorded,
                   earlier, keyless>>

Remote(m, s) == redisConn[s] \notin {NoInstance, at[m]}

\* Mutant: only the first member is looked up.
LookUpFirst(m, s) ==
    /\ pc[m] = "lookup"
    /\ s \in asked[m]
    /\ asked' = [asked EXCEPT ![m] = {}]
    /\ IF Remote(m, s) THEN Goto(m, "publish", NoChannel)
                         ELSE UNCHANGED <<pc, cur>>
    /\ UNCHANGED <<at, objects, listeners, pubsub, redis, failures, history>>

\* PUBLISH reaches every listener of the channel, the publisher's own included.
SendToListeners(m) ==
    queue' = [i \in Instances |-> [k \in Slots |->
                 IF k <= started[i] THEN Append(queue[i][k], m) ELSE queue[i][k]]]

\* Mutant: the event is published for every remote subscriber.
PublishForEach(m, s) ==
    /\ pc[m] = "lookup"
    /\ s \in asked[m]
    /\ asked' = [asked EXCEPT ![m] = @ \ {s}]
    /\ IF Remote(m, s) THEN SendToListeners(m) ELSE UNCHANGED queue
    /\ UNCHANGED <<pc, at, cur, objects, listeners, taken, redis, failures, history>>

\* One socket after the other, until the first that is connected elsewhere; one whose
\* GET fails is passed over.
GetConnectionInstance(m, s) ==
    /\ pc[m] = "lookup"
    /\ s \in asked[m]
    /\ \E ok \in BOOLEAN :
        /\ Command(ok)
        /\ Strike(ok, m)
        /\ asked' = [asked EXCEPT ![m] = IF ok /\ Remote(m, s) THEN {} ELSE @ \ {s}]
        /\ IF ok /\ Remote(m, s) THEN Goto(m, "publish", NoChannel)
                                ELSE UNCHANGED <<pc, cur>>
    /\ UNCHANGED <<at, objects, listeners, pubsub, redis, received, confirmed, recorded,
                   earlier, keyless>>

NoRemoteSubscriber(m) ==
    /\ pc[m] = "lookup"
    /\ asked[m] = {}
    /\ Goto(m, "done", NoChannel)
    /\ UNCHANGED <<at, objects, listeners, pubsub, redis, asked, failures, history>>

PublishEvent(m) ==
    /\ pc[m] = "publish"
    /\ \E ok \in BOOLEAN :
        /\ Command(ok)
        /\ Strike(ok, m)
        /\ IF ok THEN SendToListeners(m) ELSE UNCHANGED queue
    /\ Goto(m, "done", NoChannel)
    /\ UNCHANGED <<at, objects, listeners, taken, redis, asked, received, confirmed,
                   recorded, earlier, keyless>>

-------------------------------------------------------------------------------
(* The listener goroutine.                                                  *)

\* Mutants: the comparison of the instances is inverted; the instance is taken for
\* the socket.
IgnoreOnOthers(i, m) ==
    IF Ignore[m] # NoSocket /\ redisConn[Ignore[m]] # i THEN Ignore[m] ELSE NoSocket
IgnoreInstance(i, m) ==
    IF Ignore[m] # NoSocket /\ redisConn[Ignore[m]] = i THEN redisConn[Ignore[m]] ELSE NoSocket

\* The socket left out of a delivery: the sender, if its key names this instance.
IgnoreOn(i, m) ==
    IF Ignore[m] # NoSocket /\ redisConn[Ignore[m]] = i THEN Ignore[m] ELSE NoSocket

\* Mutant: the newest event first.
TakeNewest(i, k) ==
    /\ taken[i][k] = Nothing
    /\ queue[i][k] # <<>>
    /\ queue' = [queue EXCEPT ![i][k] = SubSeq(@, 1, Len(@) - 1)]
    /\ LET m == queue[i][k][Len(queue[i][k])]
       IN  taken' = [taken EXCEPT ![i][k] =
                IF Registered(i)
                  THEN [msg |-> m, channel |-> channel[i], ignore |-> IgnoreOn(i, m)]
                  ELSE Nothing]
    /\ UNCHANGED <<pc, at, cur, objects, listeners, redis, asked, failures, history>>

\* The event is dropped when the channel is not in the map, and the sender left in when
\* the GET of its key fails.
Take(i, k) ==
    /\ taken[i][k] = Nothing
    /\ queue[i][k] # <<>>
    /\ queue' = [queue EXCEPT ![i][k] = Tail(@)]
    /\ LET m == Head(queue[i][k])
       IN  \E ok \in BOOLEAN :
            /\ ok \/ (Registered(i) /\ Ignore[m] # NoSocket)
            /\ Command(ok)
            /\ Strike(ok, m)
            /\ taken' = [taken EXCEPT ![i][k] =
                 IF ~Registered(i) THEN Nothing
                 ELSE [msg |-> m, channel |-> channel[i],
                       ignore |-> IF ok THEN IgnoreOn(i, m) ELSE NoSocket]]
    /\ UNCHANGED <<pc, at, cur, objects, listeners, redis, asked, received, confirmed, recorded,
                   earlier, keyless>>

\* The connection of a listener breaks, or its buffer of 100 events has been full for a
\* minute, and go-redis drops an event that was sent to it.
Lose(i, k) ==
    /\ Command(FALSE)
    /\ \E x \in 1 .. Len(queue[i][k]) :
        /\ queue' = [queue EXCEPT ![i][k] = SubSeq(@, 1, x - 1) \o SubSeq(@, x + 1, Len(@))]
        /\ Strike(FALSE, queue[i][k][x])
    /\ UNCHANGED <<pc, at, cur, objects, listeners, taken, redis, asked, received, confirmed,
                   recorded, earlier, keyless>>

DeliverTaken(i, k) ==
    /\ taken[i][k] # Nothing
    /\ Deliver(i, taken[i][k].channel, taken[i][k].ignore, taken[i][k].msg)
    /\ taken' = [taken EXCEPT ![i][k] = Nothing]
    /\ UNCHANGED <<pc, at, cur, objects, listeners, queue, redis, asked, failures, confirmed,
                   recorded, earlier, keyless, struck>>

-------------------------------------------------------------------------------
\* The process of an instance dies and starts again under the same instance id, all
\* it had in memory lost.  Its sockets are cut, the events it was publishing end
\* where they are, and what it wrote into Redis stays.
Crash(i) ==
    LET cut == {s \in Sockets : Home[s] = i /\ pc[s] # "offline"}
        interrupted == {m \in Messages : at[m] = i /\ pc[m] \notin {"new", "done"}}
    IN  /\ Command(FALSE)
        /\ pc' = [t \in Sockets \cup Messages |->
                    IF t \in cut THEN "gone" ELSE IF t \in interrupted THEN "lost" ELSE pc[t]]
        /\ cur' = [t \in Sockets \cup Messages |->
                    IF t \in cut \cup interrupted THEN NoChannel ELSE cur[t]]
        /\ channel' = [channel EXCEPT ![i] = NoChannel]
        /\ subs' = [subs EXCEPT ![i] = [c \in Channels |-> {}]]
        /\ created' = [created EXCEPT ![i] = NoChannel]
        /\ claimed' = claimed \ {i}
        /\ started' = [started EXCEPT ![i] = 0]
        /\ queue' = [queue EXCEPT ![i] = [k \in Slots |-> <<>>]]
        /\ taken' = [taken EXCEPT ![i] = [k \in Slots |-> Nothing]]
        /\ asked' = [m \in Messages |-> IF m \in interrupted THEN {} ELSE asked[m]]
        /\ NoLongerDue(cut)
        /\ UNCHANGED <<at, redis, received, earlier, keyless, struck>>

-------------------------------------------------------------------------------
SocketStep(s) ==
    \/ Connect(s) \/ Unregister(s)
    \/ SubscribeRequest(s) \/ AddChannel(s, Home[s], "subscribe")
    \/ ChannelSubscribe(s) \/ RedisSubscribe(s)
    \/ UnsubscribeRequest(s) \/ ChannelUnsubscribe(s) \/ RedisUnsubscribe(s)
    \/ CheckOccupied(s) \/ RemoveSubscriber(s) \/ RemoveChannel(s)

\* What a POST or a client event does once it has looked the channel up.
PublishStep(m) ==
    \/ AddChannel(m, at[m], "deliver")
    \/ PublishLocal(m)
    \/ GetChannelSubscriptions(m)
    \/ \E s \in Sockets : GetConnectionInstance(m, s)
    \/ NoRemoteSubscriber(m)
    \/ PublishEvent(m)

ListenerStep(i, k) == Take(i, k) \/ DeliverTaken(i, k) \/ Lose(i, k)

Next ==
    \/ \E s \in Sockets : SocketStep(s) \/ Expire(s)
    \/ \E m \in Messages : PublishStep(m) \/ \E i \in At[m] : PublishRequest(m, i)
    \/ \E i \in Instances, k \in Slots : ListenerStep(i, k)
    \/ ExpireSubscriptions
    \/ \E i \in Instances : Crash(i)

Spec == Init /\ [][Next]_vars

-------------------------------------------------------------------------------
(* Properties.                                                              *)

\* No more copy of m is on its way.
Settled(m) ==
    /\ pc[m] = "done"
    /\ \A i \in Instances, k \in Slots :
        /\ \A x \in 1 .. Len(queue[i][k]) : queue[i][k][x] # m
        /\ taken[i][k] = Nothing \/ taken[i][k].msg # m

\* A sender is never sent its own event, by the instance it is published at or by any
\* listener, also while it leaves the channel or disconnects, or an instance crashes,
\* as long as its connection key is there and no command about the event has failed.
SenderNeverEchoed ==
    \A m \in Messages : Ignore[m] \in Sockets \ keyless =>
        received[Ignore[m]][m] = 0 \/ m \in struck

\* A failed SUBSCRIBE has left the channel of i without any listener.
Deaf(i) == Registered(i) /\ started[i] = 0

\* All connected clients receive messages regardless of the instance they are
\* connected to: whom Redis had as a subscriber before an event was published, and
\* whose channel stays in the map of its instance, has the event when no copy is on its
\* way any more, whoever holds an object that has left the map, and whatever crashes,
\* failed commands and expired keys of others have left in Redis.
\* A failure costs the event it strikes its way to other instances, a failed SUBSCRIBE
\* costs an instance the events of others, and nothing costs the clients of the
\* instance where it is published.
SubscribersReceive ==
    \A m \in Messages : Settled(m) => \A s \in recorded[m] \ keyless :
        \/ received[s][m] >= 1
        \/ Home[s] # at[m] /\ (m \in struck \/ Deaf(Home[s]))

\* An event never overtakes, on its way to a client, one whose Publish had returned
\* on the same instance before, unless a failure has struck that one.
InOrder ==
    \A m \in Messages : \A n \in earlier[m] \ struck : at[n] = at[m] =>
        \A s \in recorded[n] \ keyless : received[s][m] >= 1 => received[s][n] >= 1

\* An event reaches a client at most once from its publisher and once from each
\* listener its instance has started, also while keys expire.
CopiesBounded ==
    \A s \in Sockets, m \in Messages :
        received[s][m] <= MaxListeners + (IF Home[s] = at[m] THEN 1 ELSE 0)

\* README.md:34: "all connected clients receive messages", once their subscription is
\* confirmed to them.
ConfirmedReceive ==
    \A m \in Messages : Settled(m) => \A s \in confirmed[m] : received[s][m] >= 1

\* app.go:333: the listener leaves a socket out "to avoid duplicate".
AtMostOnce == \A s \in Sockets, m \in Messages : received[s][m] <= 1
===============================================================================
