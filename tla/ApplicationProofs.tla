--------------------------- MODULE ApplicationProofs ---------------------------
(***************************************************************************)
(* Proofs about Application.tla, for every set of sockets, posters and     *)
(* channel ids, every bound on channel objects and every outcome of Redis. *)
(*                                                                         *)
(* None of the properties is inductive.  IndInv adds what each relies on:  *)
(* objects carry the id they are registered under (Naming), an object on   *)
(* its way to AddChannel is known to its creator only and is empty         *)
(* (FreshObjects), where a session may be relative to the connections and  *)
(* to the range loop (Sessions), and what that loop still has to visit     *)
(* (Leaving).                                                              *)
(***************************************************************************)
EXTENDS Application, TLAPS

Unsubscribing == {"unsubscribe", "redisUnsubscribe", "checkOccupied",
                  "removeSubscriber", "removeChannel"}

Naming ==
    /\ \A n \in Registered : channels[n] <= created /\ name[channels[n]] = n
    /\ \A c \in Channels : c > created => subs[c] = {}
    /\ \A t \in Goroutines : cur[t] <= created /\ (pc[t] \in Holding => cur[t] # NoChannel)

FreshObjects ==
    \A t \in Goroutines : pc[t] = "add" =>
        /\ subs[cur[t]] = {}
        /\ \A n \in ChannelIDs : channels[n] # cur[t]
        /\ \A u \in Goroutines \ {t} : cur[u] # cur[t]

Sessions ==
    /\ \A s \in Sockets : s \in connections <=> pc[s] \notin {"new", "closed"}
    /\ \A s \in Sockets : pc[s] = "range" => s \in ranging
    /\ \A s \in ranging : pc[s] \in {"range"} \cup Unsubscribing
    /\ \A s \in ranging : todo[s] \subseteq Registered

Leaving ==
    \A s \in Sockets : s \in ranging \/ pc[s] \in {"new", "remove", "closed"} =>
        \A n \in Registered : s \in subs[channels[n]] =>
            /\ s \in ranging
            /\ n \in todo[s] \/ (pc[s] = "unsubscribe" /\ cur[s] = channels[n])

IndInv == TypeOK /\ Naming /\ FreshObjects /\ Sessions /\ Leaving

\* What RedisUnsubscribe relies on: the object registered under the id does not
\* list the socket, unless it is the one the socket is about to leave.
Doomed(s) ==
    /\ pc[s] \in {"unsubscribe", "redisUnsubscribe"}
    /\ channels[name[cur[s]]] # NoChannel
    /\ s \in subs[channels[name[cur[s]]]]

LeavingRedis ==
    \A s \in Sockets : Doomed(s) => pc[s] = "unsubscribe" /\ cur[s] = channels[name[cur[s]]]

\* The key of a listener is claimed only when a listener was started.
Listening ==
    /\ \A n \in channelSubscribers : listeners[n] >= 1
    /\ ListenerServes

\* The transitions of Next as one flat list of cases.
LEMMA NextCases ==
    ASSUME [Next]_vars
    PROVE  \/ \E s \in Sockets : \/ Connect(s) \/ Disconnect(s) \/ ChannelSubscribe(s)
                                 \/ RedisSubscribe(s) \/ ChannelUnsubscribe(s)
                                 \/ RedisUnsubscribe(s) \/ CheckOccupied(s)
                                 \/ RemoveSubscriber(s) \/ RemoveChannel(s)
                                 \/ DisconnectUnregister(s) \/ DisconnectRemove(s)
           \/ \E s \in Sockets, n \in ChannelIDs :
                \/ SubscribeRequest(s, n) \/ UnsubscribeRequest(s, n)
                \/ DisconnectVisit(s, n)
           \/ \E p \in Posters : PostPublish(p) \/ \E n \in ChannelIDs : PostRequest(p, n)
           \/ \E t \in Goroutines : AddChannel(t)
           \/ KeyExpires
           \/ UNCHANGED vars
  BY Zenon DEF Next, Request, Serve

-------------------------------------------------------------------------------
\* The initial states satisfy the inductive invariant.
LEMMA InitInv == Init => IndInv
  <1> USE GoroutineAssumption, ChannelAssumption
  <1> SUFFICES ASSUME Init PROVE IndInv
    OBVIOUS
  <1>1. DataTypeOK
    <2>1. AnyID \in ChannelIDs
      BY DEF AnyID
    <2>2. connections \subseteq Sockets /\ redisConns \subseteq Sockets /\ ranging \subseteq Sockets
      BY DEF Init
    <2>3. channels \in [ChannelIDs -> {NoChannel} \cup Channels] /\ created \in {NoChannel} \cup Channels
      BY DEF Init, NoChannel
    <2>4. fatal \in BOOLEAN
      BY Zenon DEF Init
    <2>5. name \in [Channels -> ChannelIDs]
      BY <2>1 DEF Init
    <2>6. subs \in [Channels -> SUBSET Sockets] /\ posted \subseteq Channels
      BY DEF Init
    <2>7. channelSubscribers \subseteq ChannelIDs /\ listeners \in [ChannelIDs -> Nat]
      BY DEF Init
    <2>8. redisSubs \in [ChannelIDs -> SUBSET Sockets] /\ expired \in [ChannelIDs -> SUBSET Sockets]
      BY DEF Init
    <2>9. redisPresence \in [Presence -> SUBSET Sockets]
      BY DEF Init
    <2>10. todo \in [Sockets -> SUBSET ChannelIDs] /\ totalChannels \in Int
      BY DEF Init
    <2> QED
      BY <2>2, <2>3, <2>4, <2>5, <2>6, <2>7, <2>8, <2>9, <2>10 DEF DataTypeOK
  <1>2. ControlTypeOK /\ NoNilChannel
    BY DEF Init, ControlTypeOK, NoNilChannel, Holding, SocketPCs, PosterPCs, Goroutines
  <1>3. Naming
    BY DEF Init, Naming, Registered, Holding, Goroutines, Channels, NoChannel
  <1>4. FreshObjects
    BY DEF Init, FreshObjects, Goroutines
  <1>5. Sessions /\ Leaving
    BY DEF Init, Sessions, Leaving, Registered, Goroutines
  <1> QED
    BY <1>1, <1>2, <1>3, <1>4, <1>5 DEF IndInv, TypeOK

\* Adding or removing a member of one set leaves a function to sets of sockets one.
LEMMA UpdateType ==
    ASSUME NEW D, NEW S, NEW f \in [D -> SUBSET S], NEW d, NEW x \in S
    PROVE  /\ [f EXCEPT ![d] = @ \cup {x}] \in [D -> SUBSET S]
           /\ [f EXCEPT ![d] = @ \ {x}] \in [D -> SUBSET S]
  OBVIOUS

\* No step gives a variable of the registry or of Redis a value of another type.
LEMMA DataStep ==
    ASSUME IndInv, [Next]_vars
    PROVE  DataTypeOK'
  <1> USE GoroutineAssumption, ChannelAssumption, RedisAssumption DEF Goroutines, Channels, NoChannel,
              registry, objects, pubsub, redis, control, loop
  <1>1. ASSUME NEW s \in Sockets, Connect(s)  PROVE DataTypeOK'
    BY <1>1 DEF IndInv, TypeOK, DataTypeOK, ControlTypeOK, Connect, Goto
  <1>2. ASSUME NEW s \in Sockets, Disconnect(s)  PROVE DataTypeOK'
    BY <1>2 DEF IndInv, TypeOK, DataTypeOK, ControlTypeOK, Disconnect, Goto, Registered
  <1>3. ASSUME NEW s \in Sockets, NEW n \in ChannelIDs, SubscribeRequest(s, n)  PROVE DataTypeOK'
    <2>1. CASE channels[n] # NoChannel
      BY <1>3, <2>1 DEF IndInv, TypeOK, DataTypeOK, ControlTypeOK, SubscribeRequest,
         FindOrCreate, Goto
    <2>2. CASE channels[n] = NoChannel
      <3>1. created + 1 \in Channels
        BY <1>3, <2>2 DEF IndInv, TypeOK, DataTypeOK, ControlTypeOK, SubscribeRequest,
           FindOrCreate
      <3>2. name' = [name EXCEPT ![created + 1] = n] /\ created' = created + 1
        BY <1>3, <2>2 DEF SubscribeRequest, FindOrCreate
      <3>3. name' \in [Channels -> ChannelIDs]
        BY <3>1, <3>2 DEF IndInv, TypeOK, DataTypeOK, ControlTypeOK
      <3> QED
        BY <1>3, <2>2, <3>1, <3>2, <3>3 DEF IndInv, TypeOK, DataTypeOK, ControlTypeOK,
           SubscribeRequest, FindOrCreate
    <2> QED
      BY <2>1, <2>2
  <1>4. ASSUME NEW s \in Sockets, NEW n \in ChannelIDs, UnsubscribeRequest(s, n)  PROVE DataTypeOK'
    BY <1>4 DEF IndInv, TypeOK, DataTypeOK, ControlTypeOK, UnsubscribeRequest, Goto,
       Registered
  <1>5. ASSUME NEW p \in Posters, NEW n \in ChannelIDs, PostRequest(p, n)  PROVE DataTypeOK'
    <2>1. CASE channels[n] # NoChannel
      BY <1>5, <2>1 DEF IndInv, TypeOK, DataTypeOK, ControlTypeOK, PostRequest,
         FindOrCreate, Goto
    <2>2. CASE channels[n] = NoChannel
      <3>1. created + 1 \in Channels
        BY <1>5, <2>2 DEF IndInv, TypeOK, DataTypeOK, ControlTypeOK, PostRequest,
           FindOrCreate
      <3>2. name' = [name EXCEPT ![created + 1] = n] /\ created' = created + 1
        BY <1>5, <2>2 DEF PostRequest, FindOrCreate
      <3>3. name' \in [Channels -> ChannelIDs]
        BY <3>1, <3>2 DEF IndInv, TypeOK, DataTypeOK, ControlTypeOK
      <3> QED
        BY <1>5, <2>2, <3>1, <3>2, <3>3 DEF IndInv, TypeOK, DataTypeOK, ControlTypeOK,
           PostRequest, FindOrCreate
    <2> QED
      BY <2>1, <2>2
  <1>6. ASSUME NEW t \in Goroutines, AddChannel(t)  PROVE DataTypeOK'
    <2> DEFINE n == name[cur[t]]
    <2>0. cur[t] \in Channels /\ n \in ChannelIDs
      BY <1>6 DEF IndInv, TypeOK, DataTypeOK, ControlTypeOK, AddChannel, Naming, Holding
    <2>1. channels' = [channels EXCEPT ![n] = cur[t]]
      BY <1>6 DEF AddChannel
    <2>2. channels' \in [ChannelIDs -> {NoChannel} \cup Channels]
      BY <2>0, <2>1 DEF IndInv, TypeOK, DataTypeOK, ControlTypeOK
    <2>3. todo' \in [Sockets -> SUBSET ChannelIDs]
      <3>1. PICK late \in SUBSET ranging : todo' = [s \in Sockets |-> IF s \in late THEN todo[s] \cup {n} ELSE todo[s]]
        BY <1>6 DEF IndInv, TypeOK, DataTypeOK, ControlTypeOK, AddChannel, RangeMayProduce,
           Registered
      <3> QED
        BY <2>0, <3>1 DEF IndInv, TypeOK, DataTypeOK, ControlTypeOK
    <2>4. listeners' \in [ChannelIDs -> Nat] /\ channelSubscribers' \subseteq ChannelIDs
      <3>1. CASE UNCHANGED pubsub
        BY <3>1 DEF IndInv, TypeOK, DataTypeOK, ControlTypeOK
      <3>2. CASE /\ channelSubscribers' = channelSubscribers \cup {n}
               /\ listeners' = [listeners EXCEPT ![n] = @ + 1]
        BY <2>0, <3>2 DEF IndInv, TypeOK, DataTypeOK, ControlTypeOK
      <3> QED
        BY <1>6, <3>1, <3>2 DEF AddChannel, SetupChannelPubSub
    <2>5. fatal' \in BOOLEAN
      BY <1>6 DEF AddChannel, MapWrite
    <2> QED
      BY <1>6, <2>2, <2>3, <2>4, <2>5 DEF IndInv, TypeOK, DataTypeOK, ControlTypeOK,
         AddChannel
  <1>7. ASSUME NEW p \in Posters, PostPublish(p)  PROVE DataTypeOK'
    BY <1>7 DEF IndInv, TypeOK, DataTypeOK, ControlTypeOK, PostPublish, Goto, Return
  <1>8. ASSUME NEW s \in Sockets, ChannelSubscribe(s)  PROVE DataTypeOK'
    <2>1. subs' = [subs EXCEPT ![cur[s]] = @ \cup {s}]
      BY <1>8 DEF ChannelSubscribe
    <2>2. cur[s] \in Channels
      BY <1>8 DEF IndInv, TypeOK, DataTypeOK, ControlTypeOK, ChannelSubscribe, Naming,
         Holding
    <2>3. subs' \in [Channels -> SUBSET Sockets]
      BY <2>1, <2>2 DEF IndInv, TypeOK, DataTypeOK, ControlTypeOK
    <2> QED
      BY <1>8, <2>3 DEF IndInv, TypeOK, DataTypeOK, ControlTypeOK, ChannelSubscribe
  <1>9. ASSUME NEW s \in Sockets, RedisSubscribe(s)  PROVE DataTypeOK'
    <2> DEFINE n == name[cur[s]]
    <2>0. cur[s] \in Channels /\ n \in ChannelIDs
      BY <1>9 DEF IndInv, TypeOK, DataTypeOK, ControlTypeOK, RedisSubscribe, Naming, Holding
    <2> HIDE DEF n
    <2>1. redisSubs' \in [ChannelIDs -> SUBSET Sockets]
      <3>1. redisSubs' = [redisSubs EXCEPT ![n] = @ \cup {s}] \/ redisSubs' = redisSubs
        BY <1>9 DEF RedisSubscribe, n
      <3>2. redisSubs \in [ChannelIDs -> SUBSET Sockets]
        BY DEF IndInv, TypeOK, DataTypeOK, ControlTypeOK
      <3>3. [redisSubs EXCEPT ![n] = @ \cup {s}] \in [ChannelIDs -> SUBSET Sockets]
        BY <3>2, UpdateType, Zenon
      <3> QED
        BY <3>1, <3>2, <3>3, Zenon
    <2>2. redisPresence' \in [Presence -> SUBSET Sockets]
      <3>1. redisPresence' = [redisPresence EXCEPT ![n] = @ \cup {s}] \/ redisPresence' = redisPresence
        BY <1>9 DEF RedisSubscribe, n
      <3>2. redisPresence \in [Presence -> SUBSET Sockets]
        BY DEF IndInv, TypeOK, DataTypeOK, ControlTypeOK
      <3>3. [redisPresence EXCEPT ![n] = @ \cup {s}] \in [Presence -> SUBSET Sockets]
        BY <3>2, UpdateType, Zenon
      <3> QED
        BY <3>1, <3>2, <3>3, Zenon
    <2> QED
      BY <1>9, <2>1, <2>2 DEF IndInv, TypeOK, DataTypeOK, ControlTypeOK, RedisSubscribe
  <1>10. ASSUME NEW s \in Sockets, ChannelUnsubscribe(s)  PROVE DataTypeOK'
    BY <1>10 DEF IndInv, TypeOK, DataTypeOK, ControlTypeOK, ChannelUnsubscribe, Goto, Return
  <1>11. ASSUME NEW s \in Sockets, RedisUnsubscribe(s)  PROVE DataTypeOK'
    <2> DEFINE n == name[cur[s]]
    <2>0. cur[s] \in Channels /\ n \in ChannelIDs
      BY <1>11 DEF IndInv, TypeOK, DataTypeOK, ControlTypeOK, RedisUnsubscribe, Naming,
         Holding
    <2> HIDE DEF n
    <2>1. redisSubs' \in [ChannelIDs -> SUBSET Sockets]
      <3>1. redisSubs' = [redisSubs EXCEPT ![n] = @ \ {s}] \/ redisSubs' = redisSubs
        BY <1>11 DEF RedisUnsubscribe, n
      <3>2. redisSubs \in [ChannelIDs -> SUBSET Sockets]
        BY DEF IndInv, TypeOK, DataTypeOK, ControlTypeOK
      <3>3. [redisSubs EXCEPT ![n] = @ \ {s}] \in [ChannelIDs -> SUBSET Sockets]
        BY <3>2, UpdateType, Zenon
      <3> QED
        BY <3>1, <3>2, <3>3, Zenon
    <2>2. redisPresence' \in [Presence -> SUBSET Sockets]
      <3>1. redisPresence' = [redisPresence EXCEPT ![n] = @ \ {s}] \/ redisPresence' = redisPresence
        BY <1>11 DEF RedisUnsubscribe, n
      <3>2. redisPresence \in [Presence -> SUBSET Sockets]
        BY DEF IndInv, TypeOK, DataTypeOK, ControlTypeOK
      <3>3. [redisPresence EXCEPT ![n] = @ \ {s}] \in [Presence -> SUBSET Sockets]
        BY <3>2, UpdateType, Zenon
      <3> QED
        BY <3>1, <3>2, <3>3, Zenon
    <2> QED
      BY <1>11, <2>1, <2>2 DEF IndInv, TypeOK, DataTypeOK, ControlTypeOK, RedisUnsubscribe
  <1>12. ASSUME NEW s \in Sockets, CheckOccupied(s)  PROVE DataTypeOK'
    BY <1>12 DEF IndInv, TypeOK, DataTypeOK, ControlTypeOK, CheckOccupied, Goto, Return,
       Vacant
  <1>13. ASSUME NEW s \in Sockets, RemoveSubscriber(s)  PROVE DataTypeOK'
    BY <1>13 DEF IndInv, TypeOK, DataTypeOK, ControlTypeOK, RemoveSubscriber, Goto
  <1>14. ASSUME NEW s \in Sockets, RemoveChannel(s)  PROVE DataTypeOK'
    <2>1. channels' \in [ChannelIDs -> {NoChannel} \cup Channels]
      BY <1>14 DEF IndInv, TypeOK, DataTypeOK, ControlTypeOK, RemoveChannel
    <2>2. todo' \in [Sockets -> SUBSET ChannelIDs]
      BY <1>14 DEF IndInv, TypeOK, DataTypeOK, ControlTypeOK, RemoveChannel, RangeForgets
    <2>3. fatal' \in BOOLEAN
      BY <1>14 DEF RemoveChannel, MapWrite
    <2> QED
      BY <1>14, <2>1, <2>2, <2>3 DEF IndInv, TypeOK, DataTypeOK, ControlTypeOK,
         RemoveChannel, UncountChannel
  <1>15. ASSUME NEW s \in Sockets, NEW n \in ChannelIDs, DisconnectVisit(s, n)  PROVE DataTypeOK'
    BY <1>15 DEF IndInv, TypeOK, DataTypeOK, ControlTypeOK, DisconnectVisit, Goto
  <1>16. ASSUME NEW s \in Sockets, DisconnectUnregister(s)  PROVE DataTypeOK'
    BY <1>16 DEF IndInv, TypeOK, DataTypeOK, ControlTypeOK, DisconnectUnregister, Goto
  <1>17. ASSUME NEW s \in Sockets, DisconnectRemove(s)  PROVE DataTypeOK'
    BY <1>17 DEF IndInv, TypeOK, DataTypeOK, ControlTypeOK, DisconnectRemove, Goto
  <1>18. CASE UNCHANGED vars
    BY <1>18 DEF IndInv, TypeOK, DataTypeOK, ControlTypeOK, vars
  <1>19. CASE KeyExpires
    <2>1. redisConns' \subseteq Sockets
      BY <1>19 DEF IndInv, TypeOK, DataTypeOK, KeyExpires
    <2>2. redisSubs' \in [ChannelIDs -> SUBSET Sockets] /\ expired' \in [ChannelIDs -> SUBSET Sockets]
      <3>1. CASE UNCHANGED <<redisSubs, expired>>
        BY <3>1 DEF IndInv, TypeOK, DataTypeOK
      <3>2. ASSUME NEW n \in ChannelIDs,
                   redisSubs' = [redisSubs EXCEPT ![n] = {}],
                   expired' = [expired EXCEPT ![n] = @ \cup redisSubs[n]]
            PROVE  /\ redisSubs' \in [ChannelIDs -> SUBSET Sockets]
                   /\ expired' \in [ChannelIDs -> SUBSET Sockets]
        BY <3>2 DEF IndInv, TypeOK, DataTypeOK
      <3> QED
        BY <1>19, <3>1, <3>2 DEF KeyExpires
    <2>3. redisPresence' \in [Presence -> SUBSET Sockets]
      BY <1>19 DEF IndInv, TypeOK, DataTypeOK, KeyExpires
    <2>4. UNCHANGED <<connections, registry, objects, pubsub, control, loop, fatal>>
      BY <1>19 DEF KeyExpires
    <2> QED
      BY <2>1, <2>2, <2>3, <2>4 DEF IndInv, TypeOK, DataTypeOK
  <1> QED
    BY <1>1, <1>2, <1>3, <1>4, <1>5, <1>6, <1>7, <1>8, <1>9, <1>10, <1>11, <1>12, <1>13,
       <1>14, <1>15, <1>16, <1>17, <1>18, <1>19, NextCases

\* No step sends a goroutine to a section that is not one of its kind.
LEMMA ControlStep ==
    ASSUME IndInv, [Next]_vars
    PROVE  ControlTypeOK'
  <1> USE GoroutineAssumption, ChannelAssumption, RedisAssumption DEF Goroutines, Channels, NoChannel,
              registry, objects, pubsub, redis, control, loop
  <1>1. ASSUME NEW s \in Sockets, Connect(s)  PROVE ControlTypeOK'
    BY <1>1 DEF IndInv, TypeOK, DataTypeOK, ControlTypeOK, SocketPCs, PosterPCs, Connect,
       Goto
  <1>2. ASSUME NEW s \in Sockets, Disconnect(s)  PROVE ControlTypeOK'
    BY <1>2 DEF IndInv, TypeOK, DataTypeOK, ControlTypeOK, SocketPCs, PosterPCs, Disconnect,
       Goto, Registered
  <1>3. ASSUME NEW s \in Sockets, NEW n \in ChannelIDs, SubscribeRequest(s, n)  PROVE ControlTypeOK'
    <2>1. PICK label \in {"subscribe", "add"}, c \in {NoChannel} \cup Channels : Goto(s, label, c)
      <3>1. CASE channels[n] # NoChannel
        BY <1>3, <3>1 DEF IndInv, TypeOK, DataTypeOK, ControlTypeOK, SubscribeRequest,
           FindOrCreate
      <3>2. CASE channels[n] = NoChannel
        BY <1>3, <3>2 DEF IndInv, TypeOK, DataTypeOK, ControlTypeOK, SubscribeRequest,
           FindOrCreate
      <3> QED
        BY <3>1, <3>2
    <2> QED
      BY <2>1 DEF IndInv, TypeOK, DataTypeOK, ControlTypeOK, SocketPCs, PosterPCs, Goto
  <1>4. ASSUME NEW s \in Sockets, NEW n \in ChannelIDs, UnsubscribeRequest(s, n)  PROVE ControlTypeOK'
    BY <1>4 DEF IndInv, TypeOK, DataTypeOK, ControlTypeOK, SocketPCs, PosterPCs,
       UnsubscribeRequest, Goto, Registered
  <1>5. ASSUME NEW p \in Posters, NEW n \in ChannelIDs, PostRequest(p, n)  PROVE ControlTypeOK'
    <2>1. PICK label \in {"publish", "add"}, c \in {NoChannel} \cup Channels : Goto(p, label, c)
      <3>1. CASE channels[n] # NoChannel
        BY <1>5, <3>1 DEF IndInv, TypeOK, DataTypeOK, ControlTypeOK, PostRequest,
           FindOrCreate
      <3>2. CASE channels[n] = NoChannel
        BY <1>5, <3>2 DEF IndInv, TypeOK, DataTypeOK, ControlTypeOK, PostRequest,
           FindOrCreate
      <3> QED
        BY <3>1, <3>2
    <2> QED
      BY <2>1 DEF IndInv, TypeOK, DataTypeOK, ControlTypeOK, SocketPCs, PosterPCs, Goto
  <1>6. ASSUME NEW t \in Goroutines, AddChannel(t)  PROVE ControlTypeOK'
    BY <1>6 DEF IndInv, TypeOK, DataTypeOK, ControlTypeOK, SocketPCs, PosterPCs, AddChannel,
       Goto, SetupChannelPubSub, MapWrite, RangeMayProduce, Registered
  <1>7. ASSUME NEW p \in Posters, PostPublish(p)  PROVE ControlTypeOK'
    BY <1>7 DEF IndInv, TypeOK, DataTypeOK, ControlTypeOK, SocketPCs, PosterPCs,
       PostPublish, Goto, Return
  <1>8. ASSUME NEW s \in Sockets, ChannelSubscribe(s)  PROVE ControlTypeOK'
    <2>1. PICK label \in {"redisSubscribe", "range", "open"}, c \in {NoChannel} \cup Channels : Goto(s, label, c)
      BY <1>8 DEF IndInv, TypeOK, DataTypeOK, ControlTypeOK, ChannelSubscribe, Return
    <2> QED
      BY <2>1 DEF IndInv, TypeOK, DataTypeOK, ControlTypeOK, SocketPCs, PosterPCs, Goto
  <1>9. ASSUME NEW s \in Sockets, RedisSubscribe(s)  PROVE ControlTypeOK'
    BY <1>9 DEF IndInv, TypeOK, DataTypeOK, ControlTypeOK, SocketPCs, PosterPCs,
       RedisSubscribe, Goto, Return
  <1>10. ASSUME NEW s \in Sockets, ChannelUnsubscribe(s)  PROVE ControlTypeOK'
    BY <1>10 DEF IndInv, TypeOK, DataTypeOK, ControlTypeOK, SocketPCs, PosterPCs,
       ChannelUnsubscribe, Goto, Return
  <1>11. ASSUME NEW s \in Sockets, RedisUnsubscribe(s)  PROVE ControlTypeOK'
    BY <1>11 DEF IndInv, TypeOK, DataTypeOK, ControlTypeOK, SocketPCs, PosterPCs,
       RedisUnsubscribe, Goto
  <1>12. ASSUME NEW s \in Sockets, CheckOccupied(s)  PROVE ControlTypeOK'
    <2>1. PICK label \in {"removeSubscriber", "range", "open"}, c \in {NoChannel} \cup Channels : Goto(s, label, c)
      BY <1>12 DEF IndInv, TypeOK, DataTypeOK, ControlTypeOK, CheckOccupied, Return
    <2> QED
      BY <2>1 DEF IndInv, TypeOK, DataTypeOK, ControlTypeOK, SocketPCs, PosterPCs, Goto
  <1>13. ASSUME NEW s \in Sockets, RemoveSubscriber(s)  PROVE ControlTypeOK'
    BY <1>13 DEF IndInv, TypeOK, DataTypeOK, ControlTypeOK, SocketPCs, PosterPCs,
       RemoveSubscriber, Goto
  <1>14. ASSUME NEW s \in Sockets, RemoveChannel(s)  PROVE ControlTypeOK'
    BY <1>14 DEF IndInv, TypeOK, DataTypeOK, ControlTypeOK, SocketPCs, PosterPCs,
       RemoveChannel, Goto, MapWrite, RangeForgets, Return, Registered
  <1>15. ASSUME NEW s \in Sockets, NEW n \in ChannelIDs, DisconnectVisit(s, n)  PROVE ControlTypeOK'
    <2>1. CASE s \in subs[channels[n]]
      <3>1. channels[n] \in {NoChannel} \cup Channels
        BY DEF IndInv, TypeOK, DataTypeOK, ControlTypeOK
      <3>2. Goto(s, "unsubscribe", channels[n])
        BY <1>15, <2>1 DEF DisconnectVisit
      <3> QED
        BY <3>1, <3>2 DEF IndInv, TypeOK, DataTypeOK, ControlTypeOK, SocketPCs, PosterPCs,
           Goto
    <2>2. CASE s \notin subs[channels[n]]
      BY <1>15, <2>2 DEF IndInv, TypeOK, DataTypeOK, ControlTypeOK, DisconnectVisit
    <2> QED
      BY <2>1, <2>2
  <1>16. ASSUME NEW s \in Sockets, DisconnectUnregister(s)  PROVE ControlTypeOK'
    BY <1>16 DEF IndInv, TypeOK, DataTypeOK, ControlTypeOK, SocketPCs, PosterPCs,
       DisconnectUnregister, Goto
  <1>17. ASSUME NEW s \in Sockets, DisconnectRemove(s)  PROVE ControlTypeOK'
    BY <1>17 DEF IndInv, TypeOK, DataTypeOK, ControlTypeOK, SocketPCs, PosterPCs,
       DisconnectRemove, Goto
  <1>18. CASE UNCHANGED vars
    BY <1>18 DEF IndInv, TypeOK, DataTypeOK, ControlTypeOK, SocketPCs, PosterPCs, vars
  <1>19. CASE KeyExpires
    BY <1>19 DEF IndInv, TypeOK, DataTypeOK, ControlTypeOK, SocketPCs, PosterPCs, KeyExpires
  <1> QED
    BY <1>1, <1>2, <1>3, <1>4, <1>5, <1>6, <1>7, <1>8, <1>9, <1>10, <1>11, <1>12, <1>13,
       <1>14, <1>15, <1>16, <1>17, <1>18, <1>19, NextCases

-------------------------------------------------------------------------------
\* The parts of the inductive invariant, each preserved by every step.
\* Objects stay registered under their own id, and held pointers stay valid.
LEMMA NamingStep ==
    ASSUME IndInv, [Next]_vars
    PROVE  Naming'
  <1> USE GoroutineAssumption, ChannelAssumption, RedisAssumption DEF Goroutines, Channels, NoChannel,
              registry, objects, pubsub, redis, control, loop
  <1>1. ASSUME NEW s \in Sockets, Connect(s)  PROVE Naming'
    BY <1>1 DEF IndInv, TypeOK, DataTypeOK, ControlTypeOK, Naming, FreshObjects, Holding,
       Registered, Connect, Goto
  <1>2. ASSUME NEW s \in Sockets, Disconnect(s)  PROVE Naming'
    BY <1>2 DEF IndInv, TypeOK, DataTypeOK, ControlTypeOK, Naming, FreshObjects, Holding,
       Registered, Disconnect, Goto
  <1>3. ASSUME NEW s \in Sockets, NEW n \in ChannelIDs, SubscribeRequest(s, n)  PROVE Naming'
    <2>1. CASE channels[n] # NoChannel
      <3>1. Goto(s, "subscribe", channels[n]) /\ UNCHANGED objects
        BY <1>3, <2>1 DEF SubscribeRequest, FindOrCreate
      <3> QED
        BY <1>3, <2>1, <3>1 DEF IndInv, TypeOK, DataTypeOK, ControlTypeOK, Naming, Holding,
           Registered, SubscribeRequest, Goto
    <2>2. CASE channels[n] = NoChannel
      <3> DEFINE c == created + 1
      <3>1. /\ c \in Channels /\ created' = c /\ name' = [name EXCEPT ![c] = n] 
            /\ Goto(s, "add", c) /\ subs' = subs /\ channels' = channels
        BY <1>3, <2>2 DEF IndInv, TypeOK, DataTypeOK, ControlTypeOK, SubscribeRequest,
           FindOrCreate
      <3>2. \A m \in Registered' : channels'[m] <= created' /\ name'[channels'[m]] = m
        BY <3>1 DEF IndInv, TypeOK, DataTypeOK, ControlTypeOK, Naming, Holding, Registered
      <3>3. \A u \in Goroutines : cur'[u] <= created' /\ (pc'[u] \in Holding => cur'[u] # NoChannel)
        BY <3>1 DEF IndInv, TypeOK, DataTypeOK, ControlTypeOK, Naming, Holding, Registered,
           Goto
      <3>4. \A d \in Channels : d > created' => subs'[d] = {}
        BY <3>1 DEF IndInv, TypeOK, DataTypeOK, ControlTypeOK, Naming, Holding, Registered
      <3> QED
        BY <3>2, <3>3, <3>4 DEF Naming
    <2> QED
      BY <2>1, <2>2
  <1>4. ASSUME NEW s \in Sockets, NEW n \in ChannelIDs, UnsubscribeRequest(s, n)  PROVE Naming'
    BY <1>4 DEF IndInv, TypeOK, DataTypeOK, ControlTypeOK, Naming, FreshObjects, Holding,
       Registered, UnsubscribeRequest, Goto
  <1>5. ASSUME NEW p \in Posters, NEW n \in ChannelIDs, PostRequest(p, n)  PROVE Naming'
    <2>1. CASE channels[n] # NoChannel
      <3>1. Goto(p, "publish", channels[n]) /\ UNCHANGED objects
        BY <1>5, <2>1 DEF PostRequest, FindOrCreate
      <3> QED
        BY <1>5, <2>1, <3>1 DEF IndInv, TypeOK, DataTypeOK, ControlTypeOK, Naming, Holding,
           Registered, PostRequest, Goto
    <2>2. CASE channels[n] = NoChannel
      <3> DEFINE c == created + 1
      <3>1. /\ c \in Channels /\ created' = c /\ name' = [name EXCEPT ![c] = n] 
            /\ Goto(p, "add", c) /\ subs' = subs /\ channels' = channels
        BY <1>5, <2>2 DEF IndInv, TypeOK, DataTypeOK, ControlTypeOK, PostRequest,
           FindOrCreate
      <3>2. \A m \in Registered' : channels'[m] <= created' /\ name'[channels'[m]] = m
        BY <3>1 DEF IndInv, TypeOK, DataTypeOK, ControlTypeOK, Naming, Holding, Registered
      <3>3. \A u \in Goroutines : cur'[u] <= created' /\ (pc'[u] \in Holding => cur'[u] # NoChannel)
        BY <3>1 DEF IndInv, TypeOK, DataTypeOK, ControlTypeOK, Naming, Holding, Registered,
           Goto
      <3>4. \A d \in Channels : d > created' => subs'[d] = {}
        BY <3>1 DEF IndInv, TypeOK, DataTypeOK, ControlTypeOK, Naming, Holding, Registered
      <3> QED
        BY <3>2, <3>3, <3>4 DEF Naming
    <2> QED
      BY <2>1, <2>2
  <1>6. ASSUME NEW t \in Goroutines, AddChannel(t)  PROVE Naming'
    BY <1>6 DEF IndInv, TypeOK, DataTypeOK, ControlTypeOK, Naming, FreshObjects, Holding,
       Registered, AddChannel, Goto, SetupChannelPubSub, MapWrite, RangeMayProduce
  <1>7. ASSUME NEW p \in Posters, PostPublish(p)  PROVE Naming'
    BY <1>7 DEF IndInv, TypeOK, DataTypeOK, ControlTypeOK, Naming, FreshObjects, Holding,
       Registered, PostPublish, Goto, Return
  <1>8. ASSUME NEW s \in Sockets, ChannelSubscribe(s)  PROVE Naming'
    <2>1. cur[s] \in Channels /\ cur[s] <= created
      BY <1>8 DEF IndInv, TypeOK, DataTypeOK, ControlTypeOK, Naming, Holding, Registered,
         ChannelSubscribe
    <2>2. \A c \in Channels : c > created => subs'[c] = {}
      BY <1>8, <2>1 DEF IndInv, TypeOK, DataTypeOK, ControlTypeOK, Naming, Holding,
         Registered, ChannelSubscribe
    <2>3. PICK label \in {"redisSubscribe", "range", "open"}, c \in {NoChannel, cur[s]} :
            Goto(s, label, c) /\ (label \in Holding => c = cur[s])
      BY <1>8 DEF ChannelSubscribe, Return, Holding
    <2>4. \A u \in Goroutines : cur'[u] <= created /\ (pc'[u] \in Holding => cur'[u] # NoChannel)
      BY <2>1, <2>3 DEF IndInv, TypeOK, DataTypeOK, ControlTypeOK, Naming, Holding,
         Registered, Goto
    <2> QED
      BY <1>8, <2>2, <2>4 DEF IndInv, TypeOK, DataTypeOK, ControlTypeOK, Naming, Holding,
         Registered, ChannelSubscribe
  <1>9. ASSUME NEW s \in Sockets, RedisSubscribe(s)  PROVE Naming'
    BY <1>9 DEF IndInv, TypeOK, DataTypeOK, ControlTypeOK, Naming, FreshObjects, Holding,
       Registered, RedisSubscribe, Goto, Return
  <1>10. ASSUME NEW s \in Sockets, ChannelUnsubscribe(s)  PROVE Naming'
    <2>1. cur[s] \in Channels /\ cur[s] <= created
      BY <1>10 DEF IndInv, TypeOK, DataTypeOK, ControlTypeOK, Naming, Holding, Registered,
         ChannelUnsubscribe
    <2>2. \A c \in Channels : c > created => subs'[c] = {}
      BY <1>10, <2>1 DEF IndInv, TypeOK, DataTypeOK, ControlTypeOK, Naming, Holding,
         Registered, ChannelUnsubscribe
    <2>3. PICK label \in {"redisUnsubscribe", "range", "open"}, c \in {NoChannel, cur[s]} :
            Goto(s, label, c) /\ (label \in Holding => c = cur[s])
      BY <1>10 DEF ChannelUnsubscribe, Return, Holding
    <2>4. \A u \in Goroutines : cur'[u] <= created /\ (pc'[u] \in Holding => cur'[u] # NoChannel)
      BY <2>1, <2>3 DEF IndInv, TypeOK, DataTypeOK, ControlTypeOK, Naming, Holding,
         Registered, Goto
    <2> QED
      BY <1>10, <2>2, <2>4 DEF IndInv, TypeOK, DataTypeOK, ControlTypeOK, Naming, Holding,
         Registered, ChannelUnsubscribe
  <1>11. ASSUME NEW s \in Sockets, RedisUnsubscribe(s)  PROVE Naming'
    BY <1>11 DEF IndInv, TypeOK, DataTypeOK, ControlTypeOK, Naming, FreshObjects, Holding,
       Registered, RedisUnsubscribe, Goto
  <1>12. ASSUME NEW s \in Sockets, CheckOccupied(s)  PROVE Naming'
    <2>1. cur[s] \in Channels /\ cur[s] <= created
      BY <1>12 DEF IndInv, TypeOK, DataTypeOK, ControlTypeOK, Naming, Holding, Registered,
         CheckOccupied
    <2>2. \A c \in Channels : c > created => subs'[c] = {}
      BY <1>12, <2>1 DEF IndInv, TypeOK, DataTypeOK, ControlTypeOK, Naming, Holding,
         Registered, CheckOccupied
    <2>3. PICK label \in {"removeSubscriber", "range", "open"}, c \in {NoChannel, cur[s]} :
            Goto(s, label, c) /\ (label \in Holding => c = cur[s])
      BY <1>12 DEF CheckOccupied, Return, Holding
    <2>4. \A u \in Goroutines : cur'[u] <= created /\ (pc'[u] \in Holding => cur'[u] # NoChannel)
      BY <2>1, <2>3 DEF IndInv, TypeOK, DataTypeOK, ControlTypeOK, Naming, Holding,
         Registered, Goto
    <2> QED
      BY <1>12, <2>2, <2>4 DEF IndInv, TypeOK, DataTypeOK, ControlTypeOK, Naming, Holding,
         Registered, CheckOccupied
  <1>13. ASSUME NEW s \in Sockets, RemoveSubscriber(s)  PROVE Naming'
    BY <1>13 DEF IndInv, TypeOK, DataTypeOK, ControlTypeOK, Naming, FreshObjects, Holding,
       Registered, RemoveSubscriber, Goto
  <1>14. ASSUME NEW s \in Sockets, RemoveChannel(s)  PROVE Naming'
    BY <1>14 DEF IndInv, TypeOK, DataTypeOK, ControlTypeOK, Naming, FreshObjects, Holding,
       Registered, RemoveChannel, Goto, MapWrite, RangeForgets, Return
  <1>15. ASSUME NEW s \in Sockets, NEW n \in ChannelIDs, DisconnectVisit(s, n)  PROVE Naming'
    <2>1. channels[n] # NoChannel /\ channels[n] <= created
      BY <1>15 DEF IndInv, TypeOK, DataTypeOK, ControlTypeOK, Naming, Holding, Registered,
         Sessions, DisconnectVisit
    <2>2. CASE s \in subs[channels[n]]
      <3>1. Goto(s, "unsubscribe", channels[n])
        BY <1>15, <2>2 DEF DisconnectVisit
      <3> QED
        BY <1>15, <2>1, <3>1 DEF IndInv, TypeOK, DataTypeOK, ControlTypeOK, Naming, Holding,
           Registered, DisconnectVisit, Goto
    <2>3. CASE s \notin subs[channels[n]]
      BY <1>15, <2>3 DEF IndInv, TypeOK, DataTypeOK, ControlTypeOK, Naming, Holding,
         Registered, DisconnectVisit
    <2> QED
      BY <2>2, <2>3
  <1>16. ASSUME NEW s \in Sockets, DisconnectUnregister(s)  PROVE Naming'
    BY <1>16 DEF IndInv, TypeOK, DataTypeOK, ControlTypeOK, Naming, FreshObjects, Holding,
       Registered, DisconnectUnregister, Goto
  <1>17. ASSUME NEW s \in Sockets, DisconnectRemove(s)  PROVE Naming'
    BY <1>17 DEF IndInv, TypeOK, DataTypeOK, ControlTypeOK, Naming, FreshObjects, Holding,
       Registered, DisconnectRemove, Goto
  <1>18. CASE UNCHANGED vars
    BY <1>18 DEF IndInv, TypeOK, DataTypeOK, ControlTypeOK, Naming, FreshObjects, Holding,
       Registered, vars
  <1>19. CASE KeyExpires
    BY <1>19 DEF IndInv, TypeOK, DataTypeOK, ControlTypeOK, Naming, FreshObjects, Holding,
       Registered, KeyExpires
  <1> QED
    BY <1>1, <1>2, <1>3, <1>4, <1>5, <1>6, <1>7, <1>8, <1>9, <1>10, <1>11, <1>12, <1>13,
       <1>14, <1>15, <1>16, <1>17, <1>18, <1>19, NextCases

\* Until AddChannel, a new object is empty and known to its creator alone.
LEMMA FreshStep ==
    ASSUME IndInv, [Next]_vars
    PROVE  FreshObjects'
  <1> USE GoroutineAssumption, ChannelAssumption, RedisAssumption DEF Goroutines, Channels, NoChannel,
              registry, objects, pubsub, redis, control, loop
  <1>1. ASSUME NEW s \in Sockets, Connect(s)  PROVE FreshObjects'
    BY <1>1 DEF IndInv, TypeOK, DataTypeOK, ControlTypeOK, Naming, FreshObjects, Holding,
       Registered, Connect, Goto
  <1>2. ASSUME NEW s \in Sockets, Disconnect(s)  PROVE FreshObjects'
    BY <1>2 DEF IndInv, TypeOK, DataTypeOK, ControlTypeOK, Naming, FreshObjects, Holding,
       Registered, Disconnect, Goto
  <1>3. ASSUME NEW s \in Sockets, NEW n \in ChannelIDs, SubscribeRequest(s, n)  PROVE FreshObjects'
    <2>1. CASE channels[n] # NoChannel
      <3>1. Goto(s, "subscribe", channels[n]) /\ UNCHANGED objects
        BY <1>3, <2>1 DEF SubscribeRequest, FindOrCreate
      <3> QED
        BY <1>3, <2>1, <3>1 DEF IndInv, TypeOK, DataTypeOK, ControlTypeOK, Naming,
           FreshObjects, Holding, SubscribeRequest, Goto
    <2>2. CASE channels[n] = NoChannel
      <3> DEFINE c == created + 1
      <3>1. /\ c \in Channels /\ Goto(s, "add", c) /\ subs' = subs /\ channels' = channels
        BY <1>3, <2>2 DEF IndInv, TypeOK, DataTypeOK, ControlTypeOK, SubscribeRequest,
           FindOrCreate
      <3>2. subs[c] = {} /\ (\A m \in ChannelIDs : channels[m] # c) /\ \A u \in Goroutines : cur[u] # c
        <4>1. subs[c] = {}
          <5>1. created \in Nat /\ c > created
            BY DEF IndInv, TypeOK, DataTypeOK
          <5>2. \A d \in Channels : d > created => subs[d] = {}
            BY DEF IndInv, Naming
          <5> QED
            BY <3>1, <5>1, <5>2
        <4>2. \A m \in ChannelIDs : channels[m] # c
          <5> TAKE m \in ChannelIDs
          <5>1. channels[m] \in {NoChannel} \cup Channels
            BY DEF IndInv, TypeOK, DataTypeOK
          <5>2. channels[m] # NoChannel => channels[m] <= created
            BY DEF IndInv, Naming, Registered
          <5>3. created \in Nat /\ c = created + 1
            BY DEF IndInv, TypeOK, DataTypeOK
          <5> QED
            BY <5>1, <5>2, <5>3
        <4>3. \A u \in Goroutines : cur[u] # c
          BY <3>1 DEF IndInv, TypeOK, DataTypeOK, ControlTypeOK, Naming
        <4> QED
          BY <4>1, <4>2, <4>3
      <3> HIDE DEF c
      <3> QED
        BY <3>1, <3>2 DEF IndInv, TypeOK, DataTypeOK, ControlTypeOK, Naming, FreshObjects,
           Holding, Goto
    <2> QED
      BY <2>1, <2>2
  <1>4. ASSUME NEW s \in Sockets, NEW n \in ChannelIDs, UnsubscribeRequest(s, n)  PROVE FreshObjects'
    BY <1>4 DEF IndInv, TypeOK, DataTypeOK, ControlTypeOK, Naming, FreshObjects, Holding,
       Registered, UnsubscribeRequest, Goto
  <1>5. ASSUME NEW p \in Posters, NEW n \in ChannelIDs, PostRequest(p, n)  PROVE FreshObjects'
    <2>1. CASE channels[n] # NoChannel
      <3>1. Goto(p, "publish", channels[n]) /\ UNCHANGED objects
        BY <1>5, <2>1 DEF PostRequest, FindOrCreate
      <3> QED
        BY <1>5, <2>1, <3>1 DEF IndInv, TypeOK, DataTypeOK, ControlTypeOK, Naming,
           FreshObjects, Holding, PostRequest, Goto
    <2>2. CASE channels[n] = NoChannel
      <3> DEFINE c == created + 1
      <3>1. /\ c \in Channels /\ Goto(p, "add", c) /\ subs' = subs /\ channels' = channels
        BY <1>5, <2>2 DEF IndInv, TypeOK, DataTypeOK, ControlTypeOK, PostRequest,
           FindOrCreate
      <3>2. subs[c] = {} /\ (\A m \in ChannelIDs : channels[m] # c) /\ \A u \in Goroutines : cur[u] # c
        <4>1. subs[c] = {}
          <5>1. created \in Nat /\ c > created
            BY DEF IndInv, TypeOK, DataTypeOK
          <5>2. \A d \in Channels : d > created => subs[d] = {}
            BY DEF IndInv, Naming
          <5> QED
            BY <3>1, <5>1, <5>2
        <4>2. \A m \in ChannelIDs : channels[m] # c
          <5> TAKE m \in ChannelIDs
          <5>1. channels[m] \in {NoChannel} \cup Channels
            BY DEF IndInv, TypeOK, DataTypeOK
          <5>2. channels[m] # NoChannel => channels[m] <= created
            BY DEF IndInv, Naming, Registered
          <5>3. created \in Nat /\ c = created + 1
            BY DEF IndInv, TypeOK, DataTypeOK
          <5> QED
            BY <5>1, <5>2, <5>3
        <4>3. \A u \in Goroutines : cur[u] # c
          BY <3>1 DEF IndInv, TypeOK, DataTypeOK, ControlTypeOK, Naming
        <4> QED
          BY <4>1, <4>2, <4>3
      <3> HIDE DEF c
      <3> QED
        BY <3>1, <3>2 DEF IndInv, TypeOK, DataTypeOK, ControlTypeOK, Naming, FreshObjects,
           Holding, Goto
    <2> QED
      BY <2>1, <2>2
  <1>6. ASSUME NEW t \in Goroutines, AddChannel(t)  PROVE FreshObjects'
    BY <1>6 DEF IndInv, TypeOK, DataTypeOK, ControlTypeOK, Naming, FreshObjects, Holding,
       Registered, AddChannel, Goto, SetupChannelPubSub, MapWrite, RangeMayProduce
  <1>7. ASSUME NEW p \in Posters, PostPublish(p)  PROVE FreshObjects'
    BY <1>7 DEF IndInv, TypeOK, DataTypeOK, ControlTypeOK, Naming, FreshObjects, Holding,
       Registered, PostPublish, Goto, Return
  <1>8. ASSUME NEW s \in Sockets, ChannelSubscribe(s)  PROVE FreshObjects'
    <2>1. \A u \in Goroutines \ {s} : pc[u] = "add" => cur[u] # cur[s]
      BY <1>8 DEF FreshObjects, IndInv
    <2>2. \A u \in Goroutines \ {s} : pc[u] = "add" => subs'[cur[u]] = subs[cur[u]]
      BY <1>8, <2>1 DEF IndInv, TypeOK, DataTypeOK, ControlTypeOK, Naming, FreshObjects,
         Holding, ChannelSubscribe
    <2>3. PICK label \in {"redisSubscribe", "range", "open"}, c \in {NoChannel, cur[s]} : Goto(s, label, c)
      BY <1>8 DEF ChannelSubscribe, Return
    <2> QED
      BY <1>8, <2>1, <2>2, <2>3 DEF IndInv, TypeOK, DataTypeOK, ControlTypeOK, Naming,
         FreshObjects, Holding, ChannelSubscribe, Goto
  <1>9. ASSUME NEW s \in Sockets, RedisSubscribe(s)  PROVE FreshObjects'
    BY <1>9 DEF IndInv, TypeOK, DataTypeOK, ControlTypeOK, Naming, FreshObjects, Holding,
       Registered, RedisSubscribe, Goto, Return
  <1>10. ASSUME NEW s \in Sockets, ChannelUnsubscribe(s)  PROVE FreshObjects'
    <2>1. \A u \in Goroutines \ {s} : pc[u] = "add" => cur[u] # cur[s]
      BY <1>10 DEF FreshObjects, IndInv
    <2>2. \A u \in Goroutines \ {s} : pc[u] = "add" => subs'[cur[u]] = subs[cur[u]]
      BY <1>10, <2>1 DEF IndInv, TypeOK, DataTypeOK, ControlTypeOK, Naming, FreshObjects,
         Holding, ChannelUnsubscribe
    <2>3. PICK label \in {"redisUnsubscribe", "range", "open"}, c \in {NoChannel, cur[s]} : Goto(s, label, c)
      BY <1>10 DEF ChannelUnsubscribe, Return
    <2> QED
      BY <1>10, <2>1, <2>2, <2>3 DEF IndInv, TypeOK, DataTypeOK, ControlTypeOK, Naming,
         FreshObjects, Holding, ChannelUnsubscribe, Goto
  <1>11. ASSUME NEW s \in Sockets, RedisUnsubscribe(s)  PROVE FreshObjects'
    BY <1>11 DEF IndInv, TypeOK, DataTypeOK, ControlTypeOK, Naming, FreshObjects, Holding,
       Registered, RedisUnsubscribe, Goto
  <1>12. ASSUME NEW s \in Sockets, CheckOccupied(s)  PROVE FreshObjects'
    <2>1. UNCHANGED <<channels, subs>>
      BY <1>12 DEF CheckOccupied
    <2>2. PICK label \in {"removeSubscriber", "range", "open"}, c \in {NoChannel, cur[s]} : Goto(s, label, c)
      BY <1>12 DEF CheckOccupied, Return
    <2>3. pc[s] # "add" /\ cur[s] # NoChannel /\ pc'[s] # "add" /\ cur'[s] = c
          /\ \A u \in Goroutines \ {s} : pc'[u] = pc[u] /\ cur'[u] = cur[u]
      BY <1>12, <2>2 DEF CheckOccupied, IndInv, TypeOK, ControlTypeOK, Naming, Holding, Goto
    <2>4. \A u \in Goroutines : pc[u] = "add" => cur[u] # NoChannel
      BY DEF IndInv, Naming, Holding
    <2> QED
      BY <2>1, <2>2, <2>3, <2>4 DEF IndInv, FreshObjects
  <1>13. ASSUME NEW s \in Sockets, RemoveSubscriber(s)  PROVE FreshObjects'
    BY <1>13 DEF IndInv, TypeOK, DataTypeOK, ControlTypeOK, Naming, FreshObjects, Holding,
       Registered, RemoveSubscriber, Goto
  <1>14. ASSUME NEW s \in Sockets, RemoveChannel(s)  PROVE FreshObjects'
    BY <1>14 DEF IndInv, TypeOK, DataTypeOK, ControlTypeOK, Naming, FreshObjects, Holding,
       Registered, RemoveChannel, Goto, MapWrite, RangeForgets, Return
  <1>15. ASSUME NEW s \in Sockets, NEW n \in ChannelIDs, DisconnectVisit(s, n)  PROVE FreshObjects'
    <2>1. channels[n] \in Channels
      BY <1>15 DEF IndInv, TypeOK, DataTypeOK, ControlTypeOK, Sessions, Registered,
         DisconnectVisit
    <2>2. CASE s \in subs[channels[n]]
      <3>1. Goto(s, "unsubscribe", channels[n])
        BY <1>15, <2>2 DEF DisconnectVisit
      <3> QED
        BY <1>15, <2>1, <3>1 DEF IndInv, TypeOK, DataTypeOK, ControlTypeOK, Naming,
           FreshObjects, Holding, DisconnectVisit, Goto
    <2>3. CASE s \notin subs[channels[n]]
      BY <1>15, <2>3 DEF IndInv, TypeOK, DataTypeOK, ControlTypeOK, Naming, FreshObjects,
         Holding, DisconnectVisit
    <2> QED
      BY <2>2, <2>3
  <1>16. ASSUME NEW s \in Sockets, DisconnectUnregister(s)  PROVE FreshObjects'
    BY <1>16 DEF IndInv, TypeOK, DataTypeOK, ControlTypeOK, Naming, FreshObjects, Holding,
       Registered, DisconnectUnregister, Goto
  <1>17. ASSUME NEW s \in Sockets, DisconnectRemove(s)  PROVE FreshObjects'
    BY <1>17 DEF IndInv, TypeOK, DataTypeOK, ControlTypeOK, Naming, FreshObjects, Holding,
       Registered, DisconnectRemove, Goto
  <1>18. CASE UNCHANGED vars
    BY <1>18 DEF IndInv, TypeOK, DataTypeOK, ControlTypeOK, Naming, FreshObjects, Holding,
       Registered, vars
  <1>19. CASE KeyExpires
    BY <1>19 DEF IndInv, TypeOK, DataTypeOK, ControlTypeOK, Naming, FreshObjects, Holding,
       Registered, KeyExpires
  <1> QED
    BY <1>1, <1>2, <1>3, <1>4, <1>5, <1>6, <1>7, <1>8, <1>9, <1>10, <1>11, <1>12, <1>13,
       <1>14, <1>15, <1>16, <1>17, <1>18, <1>19, NextCases

\* A session is where its connection and its range loop say it is.
LEMMA SessionsStep ==
    ASSUME IndInv, [Next]_vars
    PROVE  Sessions'
  <1> USE GoroutineAssumption, ChannelAssumption, RedisAssumption DEF Goroutines, Channels, NoChannel,
              registry, objects, pubsub, redis, control, loop
  <1>1. ASSUME NEW s \in Sockets, Connect(s)  PROVE Sessions'
    BY <1>1 DEF IndInv, TypeOK, DataTypeOK, ControlTypeOK, Sessions, Unsubscribing,
       Registered, Connect, Goto
  <1>2. ASSUME NEW s \in Sockets, Disconnect(s)  PROVE Sessions'
    BY <1>2 DEF IndInv, TypeOK, DataTypeOK, ControlTypeOK, Sessions, Unsubscribing,
       Registered, Disconnect, Goto
  <1>3. ASSUME NEW s \in Sockets, NEW n \in ChannelIDs, SubscribeRequest(s, n)  PROVE Sessions'
    BY <1>3 DEF IndInv, TypeOK, DataTypeOK, ControlTypeOK, Sessions, Unsubscribing,
       Registered, SubscribeRequest, Goto, FindOrCreate
  <1>4. ASSUME NEW s \in Sockets, NEW n \in ChannelIDs, UnsubscribeRequest(s, n)  PROVE Sessions'
    BY <1>4 DEF IndInv, TypeOK, DataTypeOK, ControlTypeOK, Sessions, Unsubscribing,
       Registered, UnsubscribeRequest, Goto
  <1>5. ASSUME NEW p \in Posters, NEW n \in ChannelIDs, PostRequest(p, n)  PROVE Sessions'
    BY <1>5 DEF IndInv, TypeOK, DataTypeOK, ControlTypeOK, Sessions, Unsubscribing,
       Registered, PostRequest, Goto, FindOrCreate
  <1>6. ASSUME NEW t \in Goroutines, AddChannel(t)  PROVE Sessions'
    <2>1. cur[t] \in Channels
      BY <1>6 DEF IndInv, TypeOK, DataTypeOK, ControlTypeOK, AddChannel, Naming, Holding
    <2>2. Registered' = Registered \cup {name[cur[t]]}
      BY <1>6, <2>1 DEF IndInv, TypeOK, DataTypeOK, ControlTypeOK, AddChannel, Registered
    <2>3. \A s \in ranging : todo'[s] \subseteq todo[s] \cup {name[cur[t]]}
      BY <1>6 DEF IndInv, TypeOK, DataTypeOK, ControlTypeOK, AddChannel, RangeMayProduce
    <2>4. \A s \in ranging : todo'[s] \subseteq Registered'
      BY <2>2, <2>3 DEF IndInv, TypeOK, DataTypeOK, ControlTypeOK, Sessions, Unsubscribing
    <2>5. t \notin ranging
      BY <1>6 DEF IndInv, TypeOK, DataTypeOK, ControlTypeOK, Sessions, Unsubscribing,
         AddChannel
    <2>6. PICK label \in {"subscribe", "publish"} : Goto(t, label, cur[t])
      BY <1>6 DEF AddChannel
    <2> QED
      BY <1>6, <2>4, <2>5, <2>6 DEF IndInv, TypeOK, DataTypeOK, ControlTypeOK, Sessions,
         Unsubscribing, AddChannel, Goto
  <1>7. ASSUME NEW p \in Posters, PostPublish(p)  PROVE Sessions'
    BY <1>7 DEF IndInv, TypeOK, DataTypeOK, ControlTypeOK, Sessions, Unsubscribing,
       Registered, PostPublish, Goto, Return
  <1>8. ASSUME NEW s \in Sockets, ChannelSubscribe(s)  PROVE Sessions'
    BY <1>8 DEF IndInv, TypeOK, DataTypeOK, ControlTypeOK, Sessions, Unsubscribing,
       Registered, ChannelSubscribe, Goto, Return
  <1>9. ASSUME NEW s \in Sockets, RedisSubscribe(s)  PROVE Sessions'
    BY <1>9 DEF IndInv, TypeOK, DataTypeOK, ControlTypeOK, Sessions, Unsubscribing,
       Registered, RedisSubscribe, Goto, Return
  <1>10. ASSUME NEW s \in Sockets, ChannelUnsubscribe(s)  PROVE Sessions'
    BY <1>10 DEF IndInv, TypeOK, DataTypeOK, ControlTypeOK, Sessions, Unsubscribing,
       Registered, ChannelUnsubscribe, Goto, Return
  <1>11. ASSUME NEW s \in Sockets, RedisUnsubscribe(s)  PROVE Sessions'
    BY <1>11 DEF IndInv, TypeOK, DataTypeOK, ControlTypeOK, Sessions, Unsubscribing,
       Registered, RedisUnsubscribe, Goto
  <1>12. ASSUME NEW s \in Sockets, CheckOccupied(s)  PROVE Sessions'
    <2>1. PICK label \in {"removeSubscriber", "range", "open"}, c \in {NoChannel, cur[s]} :
            /\ Goto(s, label, c)
            /\ label = "open" => s \notin ranging
            /\ label = "range" => s \in ranging
      BY <1>12 DEF CheckOccupied, Return, Unsubscribing
    <2> QED
      BY <1>12, <2>1 DEF IndInv, TypeOK, DataTypeOK, ControlTypeOK, Sessions, Unsubscribing,
         CheckOccupied, Goto, Registered
  <1>13. ASSUME NEW s \in Sockets, RemoveSubscriber(s)  PROVE Sessions'
    BY <1>13 DEF IndInv, TypeOK, DataTypeOK, ControlTypeOK, Sessions, Unsubscribing,
       Registered, RemoveSubscriber, Goto
  <1>14. ASSUME NEW s \in Sockets, RemoveChannel(s)  PROVE Sessions'
    BY <1>14 DEF IndInv, TypeOK, DataTypeOK, ControlTypeOK, Sessions, Unsubscribing,
       Registered, RemoveChannel, Goto, MapWrite, RangeForgets, Return
  <1>15. ASSUME NEW s \in Sockets, NEW n \in ChannelIDs, DisconnectVisit(s, n)  PROVE Sessions'
    BY <1>15 DEF IndInv, TypeOK, DataTypeOK, ControlTypeOK, Sessions, Unsubscribing,
       Registered, DisconnectVisit, Goto
  <1>16. ASSUME NEW s \in Sockets, DisconnectUnregister(s)  PROVE Sessions'
    BY <1>16 DEF IndInv, TypeOK, DataTypeOK, ControlTypeOK, Sessions, Unsubscribing,
       Registered, DisconnectUnregister, Goto
  <1>17. ASSUME NEW s \in Sockets, DisconnectRemove(s)  PROVE Sessions'
    BY <1>17 DEF IndInv, TypeOK, DataTypeOK, ControlTypeOK, Sessions, Unsubscribing,
       Registered, DisconnectRemove, Goto
  <1>18. CASE UNCHANGED vars
    BY <1>18 DEF IndInv, TypeOK, DataTypeOK, ControlTypeOK, Sessions, Unsubscribing,
       Registered, vars
  <1>19. CASE KeyExpires
    BY <1>19 DEF IndInv, TypeOK, DataTypeOK, ControlTypeOK, Sessions, Unsubscribing,
       Registered, KeyExpires
  <1> QED
    BY <1>1, <1>2, <1>3, <1>4, <1>5, <1>6, <1>7, <1>8, <1>9, <1>10, <1>11, <1>12, <1>13,
       <1>14, <1>15, <1>16, <1>17, <1>18, <1>19, NextCases

\* What a closing socket is still in, its range loop has still to reach.
LEMMA LeavingStep ==
    ASSUME IndInv, [Next]_vars
    PROVE  Leaving'
  <1> USE GoroutineAssumption, ChannelAssumption, RedisAssumption DEF Goroutines, Channels, NoChannel,
              registry, objects, pubsub, redis, control, loop
  <1>1. ASSUME NEW s \in Sockets, Connect(s)  PROVE Leaving'
    BY <1>1 DEF IndInv, TypeOK, DataTypeOK, ControlTypeOK, Naming, FreshObjects, Holding,
       Sessions, Unsubscribing, Leaving, Registered, Connect, Goto
  <1>2. ASSUME NEW s \in Sockets, Disconnect(s)  PROVE Leaving'
    BY <1>2 DEF IndInv, TypeOK, DataTypeOK, ControlTypeOK, Naming, FreshObjects, Holding,
       Sessions, Unsubscribing, Leaving, Registered, Disconnect, Goto
  <1>3. ASSUME NEW s \in Sockets, NEW n \in ChannelIDs, SubscribeRequest(s, n)  PROVE Leaving'
    BY <1>3 DEF IndInv, TypeOK, DataTypeOK, ControlTypeOK, Naming, FreshObjects, Holding,
       Sessions, Unsubscribing, Leaving, Registered, SubscribeRequest, Goto, FindOrCreate
  <1>4. ASSUME NEW s \in Sockets, NEW n \in ChannelIDs, UnsubscribeRequest(s, n)  PROVE Leaving'
    BY <1>4 DEF IndInv, TypeOK, DataTypeOK, ControlTypeOK, Naming, FreshObjects, Holding,
       Sessions, Unsubscribing, Leaving, Registered, UnsubscribeRequest, Goto
  <1>5. ASSUME NEW p \in Posters, NEW n \in ChannelIDs, PostRequest(p, n)  PROVE Leaving'
    BY <1>5 DEF IndInv, TypeOK, DataTypeOK, ControlTypeOK, Naming, FreshObjects, Holding,
       Sessions, Unsubscribing, Leaving, Registered, PostRequest, Goto, FindOrCreate
  <1>6. ASSUME NEW t \in Goroutines, AddChannel(t)  PROVE Leaving'
    BY <1>6 DEF IndInv, TypeOK, DataTypeOK, ControlTypeOK, Naming, FreshObjects, Holding,
       Sessions, Unsubscribing, Leaving, Registered, AddChannel, Goto, SetupChannelPubSub,
       MapWrite, RangeMayProduce
  <1>7. ASSUME NEW p \in Posters, PostPublish(p)  PROVE Leaving'
    BY <1>7 DEF IndInv, TypeOK, DataTypeOK, ControlTypeOK, Naming, FreshObjects, Holding,
       Sessions, Unsubscribing, Leaving, Registered, PostPublish, Goto, Return
  <1>8. ASSUME NEW s \in Sockets, ChannelSubscribe(s)  PROVE Leaving'
    <2>1. s \notin ranging /\ cur[s] \in Channels
      BY <1>8 DEF IndInv, TypeOK, DataTypeOK, ControlTypeOK, Sessions, Unsubscribing,
         Naming, Holding, ChannelSubscribe
    <2>2. PICK label \in {"redisSubscribe", "open"}, held \in {NoChannel, cur[s]} : Goto(s, label, held)
      BY <1>8, <2>1 DEF ChannelSubscribe, Return
    <2>3. \A u \in Sockets \ {s} : \A c \in Channels : u \in subs'[c] => u \in subs[c]
      BY <1>8, <2>1 DEF IndInv, TypeOK, DataTypeOK, ControlTypeOK, ChannelSubscribe
    <2>4. \A u \in Sockets \ {s} : pc'[u] = pc[u] /\ cur'[u] = cur[u]
      BY <2>2 DEF IndInv, TypeOK, DataTypeOK, ControlTypeOK, Goto
    <2>5. channels' = channels /\ ranging' = ranging /\ todo' = todo /\ pc'[s] \in {"redisSubscribe", "open"}
      BY <1>8, <2>2 DEF IndInv, TypeOK, DataTypeOK, ControlTypeOK, ChannelSubscribe, Goto
    <2> QED
      BY <2>1, <2>3, <2>4, <2>5 DEF IndInv, TypeOK, DataTypeOK, ControlTypeOK, Leaving,
         Registered
  <1>9. ASSUME NEW s \in Sockets, RedisSubscribe(s)  PROVE Leaving'
    BY <1>9 DEF IndInv, TypeOK, DataTypeOK, ControlTypeOK, Naming, FreshObjects, Holding,
       Sessions, Unsubscribing, Leaving, Registered, RedisSubscribe, Goto, Return
  <1>10. ASSUME NEW s \in Sockets, ChannelUnsubscribe(s)  PROVE Leaving'
    BY <1>10 DEF IndInv, TypeOK, DataTypeOK, ControlTypeOK, Naming, FreshObjects, Holding,
       Sessions, Unsubscribing, Leaving, Registered, ChannelUnsubscribe, Goto, Return
  <1>11. ASSUME NEW s \in Sockets, RedisUnsubscribe(s)  PROVE Leaving'
    BY <1>11 DEF IndInv, TypeOK, DataTypeOK, ControlTypeOK, Naming, FreshObjects, Holding,
       Sessions, Unsubscribing, Leaving, Registered, RedisUnsubscribe, Goto
  <1>12. ASSUME NEW s \in Sockets, CheckOccupied(s)  PROVE Leaving'
    BY <1>12 DEF IndInv, TypeOK, DataTypeOK, ControlTypeOK, Naming, FreshObjects, Holding,
       Sessions, Unsubscribing, Leaving, Registered, CheckOccupied, Goto, Return, Vacant
  <1>13. ASSUME NEW s \in Sockets, RemoveSubscriber(s)  PROVE Leaving'
    BY <1>13 DEF IndInv, TypeOK, DataTypeOK, ControlTypeOK, Naming, FreshObjects, Holding,
       Sessions, Unsubscribing, Leaving, Registered, RemoveSubscriber, Goto
  <1>14. ASSUME NEW s \in Sockets, RemoveChannel(s)  PROVE Leaving'
    BY <1>14 DEF IndInv, TypeOK, DataTypeOK, ControlTypeOK, Naming, FreshObjects, Holding,
       Sessions, Unsubscribing, Leaving, Registered, RemoveChannel, Goto, MapWrite,
       RangeForgets, Return
  <1>15. ASSUME NEW s \in Sockets, NEW n \in ChannelIDs, DisconnectVisit(s, n)  PROVE Leaving'
    BY <1>15 DEF IndInv, TypeOK, DataTypeOK, ControlTypeOK, Naming, FreshObjects, Holding,
       Sessions, Unsubscribing, Leaving, Registered, DisconnectVisit, Goto
  <1>16. ASSUME NEW s \in Sockets, DisconnectUnregister(s)  PROVE Leaving'
    BY <1>16 DEF IndInv, TypeOK, DataTypeOK, ControlTypeOK, Naming, FreshObjects, Holding,
       Sessions, Unsubscribing, Leaving, Registered, DisconnectUnregister, Goto
  <1>17. ASSUME NEW s \in Sockets, DisconnectRemove(s)  PROVE Leaving'
    BY <1>17 DEF IndInv, TypeOK, DataTypeOK, ControlTypeOK, Naming, FreshObjects, Holding,
       Sessions, Unsubscribing, Leaving, Registered, DisconnectRemove, Goto
  <1>18. CASE UNCHANGED vars
    BY <1>18 DEF IndInv, TypeOK, DataTypeOK, ControlTypeOK, Naming, FreshObjects, Holding,
       Sessions, Unsubscribing, Leaving, Registered, vars
  <1>19. CASE KeyExpires
    BY <1>19 DEF IndInv, TypeOK, DataTypeOK, ControlTypeOK, Naming, FreshObjects, Holding,
       Sessions, Unsubscribing, Leaving, Registered, KeyExpires
  <1> QED
    BY <1>1, <1>2, <1>3, <1>4, <1>5, <1>6, <1>7, <1>8, <1>9, <1>10, <1>11, <1>12, <1>13,
       <1>14, <1>15, <1>16, <1>17, <1>18, <1>19, NextCases

\* Every step preserves the inductive invariant.
LEMMA InvStep == IndInv /\ [Next]_vars => IndInv'
  <1>1. Naming => NoNilChannel
    BY DEF Naming, NoNilChannel
  <1>2. IndInv /\ [Next]_vars => Naming'
    BY NamingStep
  <1> QED
    BY DataStep, ControlStep, <1>1, <1>2, FreshStep, SessionsStep, LeavingStep, PTL
       DEF IndInv, TypeOK

\* The inductive invariant holds in every reachable state.
LEMMA Invariance == Spec => []IndInv
  BY InitInv, InvStep, PTL DEF Spec

\* Every variable keeps its type, and no section is ever entered with the nil channel
\* that a lookup returns beside its error.
THEOREM TypeCorrect == Spec => []TypeOK
  BY Invariance, PTL DEF IndInv

\* A socket that Disconnect has removed is reached by no later event, although
\* Disconnect ranges over a map others write and objects are replaced meanwhile.
THEOREM DisconnectedIsUnreachable == Spec => []DisconnectedUnreachable
  <1>1. IndInv => DisconnectedUnreachable
    <2> SUFFICES ASSUME IndInv, NEW n \in Registered, NEW s \in subs[channels[n]], s \notin connections
                 PROVE  FALSE
      BY DEF DisconnectedUnreachable
    <2>1. s \in Sockets
      BY DEF IndInv, TypeOK, DataTypeOK, Registered, Channels, NoChannel
    <2>2. pc[s] \in {"new", "closed"} /\ s \notin ranging
      BY <2>1 DEF IndInv, Sessions, Unsubscribing
    <2> QED
      BY <2>1, <2>2 DEF IndInv, Leaving
  <1> QED
    BY Invariance, <1>1, PTL

-------------------------------------------------------------------------------
\* What the properties about Redis need besides.
\* A key of channelSubscribers, and a registered channel, has its listener.
LEMMA ListeningStep ==
    ASSUME IndInv, Listening, [Next]_vars
    PROVE  Listening'
  <1> USE GoroutineAssumption, ChannelAssumption, RedisAssumption DEF Goroutines, Channels, NoChannel,
              registry, objects, pubsub, redis, control, loop
  <1>1. ASSUME NEW s \in Sockets, Connect(s)  PROVE Listening'
    BY <1>1 DEF Listening, ListenerServes, IndInv, TypeOK, DataTypeOK, Registered, Connect,
       Goto
  <1>2. ASSUME NEW s \in Sockets, Disconnect(s)  PROVE Listening'
    BY <1>2 DEF Listening, ListenerServes, IndInv, TypeOK, DataTypeOK, Registered,
       Disconnect, Goto
  <1>3. ASSUME NEW s \in Sockets, NEW n \in ChannelIDs, SubscribeRequest(s, n)  PROVE Listening'
    BY <1>3 DEF Listening, ListenerServes, IndInv, TypeOK, DataTypeOK, Registered,
       SubscribeRequest, Goto, FindOrCreate
  <1>4. ASSUME NEW s \in Sockets, NEW n \in ChannelIDs, UnsubscribeRequest(s, n)  PROVE Listening'
    BY <1>4 DEF Listening, ListenerServes, IndInv, TypeOK, DataTypeOK, Registered,
       UnsubscribeRequest, Goto
  <1>5. ASSUME NEW p \in Posters, NEW n \in ChannelIDs, PostRequest(p, n)  PROVE Listening'
    BY <1>5 DEF Listening, ListenerServes, IndInv, TypeOK, DataTypeOK, Registered,
       PostRequest, Goto, FindOrCreate
  <1>6. ASSUME NEW t \in Goroutines, AddChannel(t)  PROVE Listening'
    <2> DEFINE n == name[cur[t]]
    <2>1. n \in ChannelIDs
      BY <1>6 DEF IndInv, TypeOK, DataTypeOK, ControlTypeOK, Naming, Holding, AddChannel
    <2>2. channels' = [channels EXCEPT ![n] = cur[t]]
      BY <1>6 DEF AddChannel
    <2>3. Registered' \subseteq Registered \cup {n}
      BY <2>1, <2>2 DEF IndInv, TypeOK, DataTypeOK, Registered
    <2>4. SetupChannelPubSub(n)
      BY <1>6 DEF AddChannel
    <2> HIDE DEF n
    <2>5. CASE UNCHANGED pubsub /\ (n \in channelSubscribers \/ RedisReplies # {TRUE})
      BY <2>3, <2>5 DEF Listening, ListenerServes
    <2>6. CASE channelSubscribers' = channelSubscribers \cup {n} /\ listeners' = [listeners EXCEPT ![n] = @ + 1]
      <3>1. \A m \in ChannelIDs : listeners'[m] >= listeners[m]
        BY <2>1, <2>6 DEF IndInv, TypeOK, DataTypeOK
      <3>2. listeners'[n] >= 1
        BY <2>1, <2>6 DEF IndInv, TypeOK, DataTypeOK
      <3>3. \A m \in ChannelIDs : listeners[m] >= 1 => listeners'[m] >= 1
        BY <2>1, <2>6 DEF IndInv, TypeOK, DataTypeOK
      <3>4. channelSubscribers \subseteq ChannelIDs /\ Registered \subseteq ChannelIDs
        BY DEF IndInv, TypeOK, DataTypeOK, Registered
      <3> QED
        BY <2>3, <2>6, <3>2, <3>3, <3>4 DEF Listening, ListenerServes
    <2> QED
      BY <2>4, <2>5, <2>6 DEF SetupChannelPubSub
  <1>7. ASSUME NEW p \in Posters, PostPublish(p)  PROVE Listening'
    BY <1>7 DEF Listening, ListenerServes, IndInv, TypeOK, DataTypeOK, Registered,
       PostPublish, Goto, Return
  <1>8. ASSUME NEW s \in Sockets, ChannelSubscribe(s)  PROVE Listening'
    BY <1>8 DEF Listening, ListenerServes, IndInv, TypeOK, DataTypeOK, Registered,
       ChannelSubscribe, Goto, Return
  <1>9. ASSUME NEW s \in Sockets, RedisSubscribe(s)  PROVE Listening'
    BY <1>9 DEF Listening, ListenerServes, IndInv, TypeOK, DataTypeOK, Registered,
       RedisSubscribe, Goto, Return
  <1>10. ASSUME NEW s \in Sockets, ChannelUnsubscribe(s)  PROVE Listening'
    BY <1>10 DEF Listening, ListenerServes, IndInv, TypeOK, DataTypeOK, Registered,
       ChannelUnsubscribe, Goto, Return
  <1>11. ASSUME NEW s \in Sockets, RedisUnsubscribe(s)  PROVE Listening'
    BY <1>11 DEF Listening, ListenerServes, IndInv, TypeOK, DataTypeOK, Registered,
       RedisUnsubscribe, Goto
  <1>12. ASSUME NEW s \in Sockets, CheckOccupied(s)  PROVE Listening'
    BY <1>12 DEF Listening, ListenerServes, IndInv, TypeOK, DataTypeOK, Registered,
       CheckOccupied, Goto, Return, Vacant
  <1>13. ASSUME NEW s \in Sockets, RemoveSubscriber(s)  PROVE Listening'
    BY <1>13 DEF Listening, ListenerServes, IndInv, TypeOK, DataTypeOK, Registered,
       RemoveSubscriber, Goto
  <1>14. ASSUME NEW s \in Sockets, RemoveChannel(s)  PROVE Listening'
    BY <1>14 DEF Listening, ListenerServes, IndInv, TypeOK, DataTypeOK, Registered,
       RemoveChannel, Goto, MapWrite, RangeForgets, Return
  <1>15. ASSUME NEW s \in Sockets, NEW n \in ChannelIDs, DisconnectVisit(s, n)  PROVE Listening'
    BY <1>15 DEF Listening, ListenerServes, IndInv, TypeOK, DataTypeOK, Registered,
       DisconnectVisit, Goto
  <1>16. ASSUME NEW s \in Sockets, DisconnectUnregister(s)  PROVE Listening'
    BY <1>16 DEF Listening, ListenerServes, IndInv, TypeOK, DataTypeOK, Registered,
       DisconnectUnregister, Goto
  <1>17. ASSUME NEW s \in Sockets, DisconnectRemove(s)  PROVE Listening'
    BY <1>17 DEF Listening, ListenerServes, IndInv, TypeOK, DataTypeOK, Registered,
       DisconnectRemove, Goto
  <1>18. CASE UNCHANGED vars
    BY <1>18 DEF Listening, ListenerServes, IndInv, TypeOK, DataTypeOK, Registered, vars
  <1>19. CASE KeyExpires
    BY <1>19 DEF Listening, ListenerServes, IndInv, TypeOK, DataTypeOK, Registered, KeyExpires
  <1> QED
    BY <1>1, <1>2, <1>3, <1>4, <1>5, <1>6, <1>7, <1>8, <1>9, <1>10, <1>11, <1>12, <1>13,
       <1>14, <1>15, <1>16, <1>17, <1>18, <1>19, NextCases

\* Between leaving a channel and SREM, no newer object of the id lists the socket.
LEMMA LeavingRedisStep ==
    ASSUME IndInv, LeavingRedis, [Next]_vars
    PROVE  LeavingRedis'
  <1> USE GoroutineAssumption, ChannelAssumption, RedisAssumption DEF Goroutines, Channels, NoChannel,
              registry, objects, pubsub, redis, control, loop
  <1>1. ASSUME NEW s \in Sockets, Connect(s)  PROVE LeavingRedis'
    <2> SUFFICES ASSUME NEW u \in Sockets, Doomed(u)'
                 PROVE  pc'[u] = "unsubscribe" /\ cur'[u] = channels'[name'[cur'[u]]]
      BY DEF LeavingRedis
    <2> QED
      BY <1>1 DEF IndInv, TypeOK, DataTypeOK, ControlTypeOK, Naming, FreshObjects, Holding,
         LeavingRedis, Doomed, Connect, Goto
  <1>2. ASSUME NEW s \in Sockets, Disconnect(s)  PROVE LeavingRedis'
    <2> SUFFICES ASSUME NEW u \in Sockets, Doomed(u)'
                 PROVE  pc'[u] = "unsubscribe" /\ cur'[u] = channels'[name'[cur'[u]]]
      BY DEF LeavingRedis
    <2> QED
      BY <1>2 DEF IndInv, TypeOK, DataTypeOK, ControlTypeOK, Naming, FreshObjects, Holding,
         LeavingRedis, Doomed, Disconnect, Goto, Registered
  <1>3. ASSUME NEW s \in Sockets, NEW n \in ChannelIDs, SubscribeRequest(s, n)  PROVE LeavingRedis'
    <2> SUFFICES ASSUME NEW u \in Sockets, Doomed(u)'
                 PROVE  pc'[u] = "unsubscribe" /\ cur'[u] = channels'[name'[cur'[u]]]
      BY DEF LeavingRedis
    <2>1. CASE channels[n] # NoChannel
      <3>1. Goto(s, "subscribe", channels[n]) /\ UNCHANGED <<objects, registry>>
        BY <1>3, <2>1 DEF SubscribeRequest, FindOrCreate
      <3> QED
        BY <3>1 DEF IndInv, TypeOK, DataTypeOK, ControlTypeOK, LeavingRedis, Doomed, Goto
    <2>2. CASE channels[n] = NoChannel
      <3> DEFINE c == created + 1
      <3>1. /\ c \in Channels /\ name' = [name EXCEPT ![c] = n]
            /\ Goto(s, "add", c) /\ subs' = subs /\ channels' = channels
        BY <1>3, <2>2 DEF IndInv, TypeOK, DataTypeOK, ControlTypeOK, SubscribeRequest,
           FindOrCreate
      <3>2. u # s /\ pc'[u] = pc[u] /\ cur'[u] = cur[u]
        BY <3>1 DEF IndInv, TypeOK, DataTypeOK, ControlTypeOK, Goto, Doomed
      <3>3. cur[u] \in Channels /\ cur[u] # c
        BY <3>2 DEF IndInv, TypeOK, DataTypeOK, ControlTypeOK, Naming, Holding, Doomed
      <3>4. name'[cur[u]] = name[cur[u]]
        BY <3>1, <3>3 DEF IndInv, TypeOK, DataTypeOK, ControlTypeOK
      <3> QED
        BY <3>1, <3>2, <3>4 DEF LeavingRedis, Doomed
    <2> QED
      BY <2>1, <2>2
  <1>4. ASSUME NEW s \in Sockets, NEW n \in ChannelIDs, UnsubscribeRequest(s, n)  PROVE LeavingRedis'
    <2> SUFFICES ASSUME NEW u \in Sockets, Doomed(u)'
                 PROVE  pc'[u] = "unsubscribe" /\ cur'[u] = channels'[name'[cur'[u]]]
      BY DEF LeavingRedis
    <2> QED
      BY <1>4 DEF IndInv, TypeOK, DataTypeOK, ControlTypeOK, Naming, FreshObjects, Holding,
         LeavingRedis, Doomed, UnsubscribeRequest, Goto, Registered
  <1>5. ASSUME NEW p \in Posters, NEW n \in ChannelIDs, PostRequest(p, n)  PROVE LeavingRedis'
    <2> SUFFICES ASSUME NEW u \in Sockets, Doomed(u)'
                 PROVE  pc'[u] = "unsubscribe" /\ cur'[u] = channels'[name'[cur'[u]]]
      BY DEF LeavingRedis
    <2>1. CASE channels[n] # NoChannel
      <3>1. Goto(p, "publish", channels[n]) /\ UNCHANGED <<objects, registry>>
        BY <1>5, <2>1 DEF PostRequest, FindOrCreate
      <3> QED
        BY <3>1 DEF IndInv, TypeOK, DataTypeOK, ControlTypeOK, LeavingRedis, Doomed, Goto
    <2>2. CASE channels[n] = NoChannel
      <3> DEFINE c == created + 1
      <3>1. /\ c \in Channels /\ name' = [name EXCEPT ![c] = n]
            /\ Goto(p, "add", c) /\ subs' = subs /\ channels' = channels
        BY <1>5, <2>2 DEF IndInv, TypeOK, DataTypeOK, ControlTypeOK, PostRequest,
           FindOrCreate
      <3>2. u # p /\ pc'[u] = pc[u] /\ cur'[u] = cur[u]
        BY <3>1 DEF IndInv, TypeOK, DataTypeOK, ControlTypeOK, Goto, Doomed
      <3>3. cur[u] \in Channels /\ cur[u] # c
        BY <3>2 DEF IndInv, TypeOK, DataTypeOK, ControlTypeOK, Naming, Holding, Doomed
      <3>4. name'[cur[u]] = name[cur[u]]
        BY <3>1, <3>3 DEF IndInv, TypeOK, DataTypeOK, ControlTypeOK
      <3> QED
        BY <3>1, <3>2, <3>4 DEF LeavingRedis, Doomed
    <2> QED
      BY <2>1, <2>2
  <1>6. ASSUME NEW t \in Goroutines, AddChannel(t)  PROVE LeavingRedis'
    <2> SUFFICES ASSUME NEW u \in Sockets, Doomed(u)'
                 PROVE  pc'[u] = "unsubscribe" /\ cur'[u] = channels'[name'[cur'[u]]]
      BY DEF LeavingRedis
    <2> QED
      BY <1>6 DEF IndInv, TypeOK, DataTypeOK, ControlTypeOK, Naming, FreshObjects, Holding,
         LeavingRedis, Doomed, AddChannel, Goto, SetupChannelPubSub, MapWrite, RangeMayProduce,
         Registered
  <1>7. ASSUME NEW p \in Posters, PostPublish(p)  PROVE LeavingRedis'
    <2> SUFFICES ASSUME NEW u \in Sockets, Doomed(u)'
                 PROVE  pc'[u] = "unsubscribe" /\ cur'[u] = channels'[name'[cur'[u]]]
      BY DEF LeavingRedis
    <2> QED
      BY <1>7 DEF IndInv, TypeOK, DataTypeOK, ControlTypeOK, Naming, FreshObjects, Holding,
         LeavingRedis, Doomed, PostPublish, Goto, Return
  <1>8. ASSUME NEW s \in Sockets, ChannelSubscribe(s)  PROVE LeavingRedis'
    <2> SUFFICES ASSUME NEW u \in Sockets, Doomed(u)'
                 PROVE  pc'[u] = "unsubscribe" /\ cur'[u] = channels'[name'[cur'[u]]]
      BY DEF LeavingRedis
    <2> QED
      BY <1>8 DEF IndInv, TypeOK, DataTypeOK, ControlTypeOK, Naming, FreshObjects, Holding,
         LeavingRedis, Doomed, ChannelSubscribe, Goto, Return
  <1>9. ASSUME NEW s \in Sockets, RedisSubscribe(s)  PROVE LeavingRedis'
    <2> SUFFICES ASSUME NEW u \in Sockets, Doomed(u)'
                 PROVE  pc'[u] = "unsubscribe" /\ cur'[u] = channels'[name'[cur'[u]]]
      BY DEF LeavingRedis
    <2> QED
      BY <1>9 DEF IndInv, TypeOK, DataTypeOK, ControlTypeOK, Naming, FreshObjects, Holding,
         LeavingRedis, Doomed, RedisSubscribe, Goto, Return
  <1>10. ASSUME NEW s \in Sockets, ChannelUnsubscribe(s)  PROVE LeavingRedis'
    <2> SUFFICES ASSUME NEW u \in Sockets, Doomed(u)'
                 PROVE  pc'[u] = "unsubscribe" /\ cur'[u] = channels'[name'[cur'[u]]]
      BY DEF LeavingRedis
    <2> QED
      BY <1>10 DEF IndInv, TypeOK, DataTypeOK, ControlTypeOK, Naming, FreshObjects, Holding,
         LeavingRedis, Doomed, ChannelUnsubscribe, Goto, Return
  <1>11. ASSUME NEW s \in Sockets, RedisUnsubscribe(s)  PROVE LeavingRedis'
    <2> SUFFICES ASSUME NEW u \in Sockets, Doomed(u)'
                 PROVE  pc'[u] = "unsubscribe" /\ cur'[u] = channels'[name'[cur'[u]]]
      BY DEF LeavingRedis
    <2> QED
      BY <1>11 DEF IndInv, TypeOK, DataTypeOK, ControlTypeOK, Naming, FreshObjects, Holding,
         LeavingRedis, Doomed, RedisUnsubscribe, Goto
  <1>12. ASSUME NEW s \in Sockets, CheckOccupied(s)  PROVE LeavingRedis'
    <2> SUFFICES ASSUME NEW u \in Sockets, Doomed(u)'
                 PROVE  pc'[u] = "unsubscribe" /\ cur'[u] = channels'[name'[cur'[u]]]
      BY DEF LeavingRedis
    <2>1. UNCHANGED <<objects, registry>>
      BY <1>12 DEF CheckOccupied
    <2>2. PICK label \in {"removeSubscriber", "range", "open"}, c \in {NoChannel, cur[s]} : Goto(s, label, c)
      BY <1>12 DEF CheckOccupied, Return
    <2>3. u # s /\ pc'[u] = pc[u] /\ cur'[u] = cur[u]
      BY <2>2 DEF IndInv, TypeOK, DataTypeOK, ControlTypeOK, Goto, Doomed
    <2> QED
      BY <2>1, <2>3 DEF LeavingRedis, Doomed
  <1>13. ASSUME NEW s \in Sockets, RemoveSubscriber(s)  PROVE LeavingRedis'
    <2> SUFFICES ASSUME NEW u \in Sockets, Doomed(u)'
                 PROVE  pc'[u] = "unsubscribe" /\ cur'[u] = channels'[name'[cur'[u]]]
      BY DEF LeavingRedis
    <2> QED
      BY <1>13 DEF IndInv, TypeOK, DataTypeOK, ControlTypeOK, Naming, FreshObjects, Holding,
         LeavingRedis, Doomed, RemoveSubscriber, Goto
  <1>14. ASSUME NEW s \in Sockets, RemoveChannel(s)  PROVE LeavingRedis'
    <2> SUFFICES ASSUME NEW u \in Sockets, Doomed(u)'
                 PROVE  pc'[u] = "unsubscribe" /\ cur'[u] = channels'[name'[cur'[u]]]
      BY DEF LeavingRedis
    <2> QED
      BY <1>14 DEF IndInv, TypeOK, DataTypeOK, ControlTypeOK, Naming, FreshObjects, Holding,
         LeavingRedis, Doomed, RemoveChannel, Goto, MapWrite, RangeForgets, Return, Registered
  <1>15. ASSUME NEW s \in Sockets, NEW n \in ChannelIDs, DisconnectVisit(s, n)  PROVE LeavingRedis'
    <2> SUFFICES ASSUME NEW u \in Sockets, Doomed(u)'
                 PROVE  pc'[u] = "unsubscribe" /\ cur'[u] = channels'[name'[cur'[u]]]
      BY DEF LeavingRedis
    <2>1. UNCHANGED <<objects, registry>>
      BY <1>15 DEF DisconnectVisit
    <2>2. channels[n] \in Channels /\ name[channels[n]] = n
      BY <1>15 DEF IndInv, TypeOK, DataTypeOK, ControlTypeOK, Sessions, Naming, Registered,
         DisconnectVisit
    <2>3. CASE UNCHANGED control
      BY <2>1, <2>3 DEF LeavingRedis, Doomed
    <2>4. CASE Goto(s, "unsubscribe", channels[n])
      BY <2>1, <2>2, <2>4 DEF IndInv, TypeOK, DataTypeOK, ControlTypeOK, LeavingRedis,
         Doomed, Goto
    <2> QED
      BY <1>15, <2>3, <2>4 DEF DisconnectVisit
  <1>16. ASSUME NEW s \in Sockets, DisconnectUnregister(s)  PROVE LeavingRedis'
    <2> SUFFICES ASSUME NEW u \in Sockets, Doomed(u)'
                 PROVE  pc'[u] = "unsubscribe" /\ cur'[u] = channels'[name'[cur'[u]]]
      BY DEF LeavingRedis
    <2> QED
      BY <1>16 DEF IndInv, TypeOK, DataTypeOK, ControlTypeOK, Naming, FreshObjects, Holding,
         LeavingRedis, Doomed, DisconnectUnregister, Goto
  <1>17. ASSUME NEW s \in Sockets, DisconnectRemove(s)  PROVE LeavingRedis'
    <2> SUFFICES ASSUME NEW u \in Sockets, Doomed(u)'
                 PROVE  pc'[u] = "unsubscribe" /\ cur'[u] = channels'[name'[cur'[u]]]
      BY DEF LeavingRedis
    <2> QED
      BY <1>17 DEF IndInv, TypeOK, DataTypeOK, ControlTypeOK, Naming, FreshObjects, Holding,
         LeavingRedis, Doomed, DisconnectRemove, Goto
  <1>18. CASE UNCHANGED vars
    BY <1>18 DEF LeavingRedis, Doomed, vars
  <1>19. CASE KeyExpires
    BY <1>19 DEF LeavingRedis, Doomed, KeyExpires
  <1> QED
    BY <1>1, <1>2, <1>3, <1>4, <1>5, <1>6, <1>7, <1>8, <1>9, <1>10, <1>11, <1>12, <1>13,
       <1>14, <1>15, <1>16, <1>17, <1>18, <1>19, NextCases

\* SADD and SREM keep the subscription set of Redis above the registered subscribers.
LEMMA InRedisStep ==
    ASSUME IndInv, LeavingRedis, RegisteredSubscriberInRedis, [Next]_vars
    PROVE  RegisteredSubscriberInRedis'
  <1> USE GoroutineAssumption, ChannelAssumption, RedisAssumption DEF Goroutines, Channels, NoChannel,
              registry, objects, pubsub, redis, control, loop
  <1>1. ASSUME NEW s \in Sockets, Connect(s)  PROVE RegisteredSubscriberInRedis'
    BY <1>1 DEF IndInv, TypeOK, DataTypeOK, ControlTypeOK, Naming, FreshObjects, Holding,
       LeavingRedis, Doomed, RegisteredSubscriberInRedis, Registered, Connect, Goto
  <1>2. ASSUME NEW s \in Sockets, Disconnect(s)  PROVE RegisteredSubscriberInRedis'
    BY <1>2 DEF IndInv, TypeOK, DataTypeOK, ControlTypeOK, Naming, FreshObjects, Holding,
       LeavingRedis, Doomed, RegisteredSubscriberInRedis, Registered, Disconnect, Goto
  <1>3. ASSUME NEW s \in Sockets, NEW n \in ChannelIDs, SubscribeRequest(s, n)  PROVE RegisteredSubscriberInRedis'
    BY <1>3 DEF IndInv, TypeOK, DataTypeOK, ControlTypeOK, Naming, FreshObjects, Holding,
       LeavingRedis, Doomed, RegisteredSubscriberInRedis, Registered, SubscribeRequest, Goto,
       FindOrCreate
  <1>4. ASSUME NEW s \in Sockets, NEW n \in ChannelIDs, UnsubscribeRequest(s, n)  PROVE RegisteredSubscriberInRedis'
    BY <1>4 DEF IndInv, TypeOK, DataTypeOK, ControlTypeOK, Naming, FreshObjects, Holding,
       LeavingRedis, Doomed, RegisteredSubscriberInRedis, Registered, UnsubscribeRequest, Goto
  <1>5. ASSUME NEW p \in Posters, NEW n \in ChannelIDs, PostRequest(p, n)  PROVE RegisteredSubscriberInRedis'
    BY <1>5 DEF IndInv, TypeOK, DataTypeOK, ControlTypeOK, Naming, FreshObjects, Holding,
       LeavingRedis, Doomed, RegisteredSubscriberInRedis, Registered, PostRequest, Goto,
       FindOrCreate
  <1>6. ASSUME NEW t \in Goroutines, AddChannel(t)  PROVE RegisteredSubscriberInRedis'
    BY <1>6 DEF IndInv, TypeOK, DataTypeOK, ControlTypeOK, Naming, FreshObjects, Holding,
       LeavingRedis, Doomed, RegisteredSubscriberInRedis, Registered, AddChannel, Goto,
       SetupChannelPubSub, MapWrite, RangeMayProduce
  <1>7. ASSUME NEW p \in Posters, PostPublish(p)  PROVE RegisteredSubscriberInRedis'
    BY <1>7 DEF IndInv, TypeOK, DataTypeOK, ControlTypeOK, Naming, FreshObjects, Holding,
       LeavingRedis, Doomed, RegisteredSubscriberInRedis, Registered, PostPublish, Goto, Return
  <1>8. ASSUME NEW s \in Sockets, ChannelSubscribe(s)  PROVE RegisteredSubscriberInRedis'
    BY <1>8 DEF IndInv, TypeOK, DataTypeOK, ControlTypeOK, Naming, FreshObjects, Holding,
       LeavingRedis, Doomed, RegisteredSubscriberInRedis, Registered, ChannelSubscribe, Goto,
       Return
  <1>9. ASSUME NEW s \in Sockets, RedisSubscribe(s)  PROVE RegisteredSubscriberInRedis'
    BY <1>9 DEF IndInv, TypeOK, DataTypeOK, ControlTypeOK, Naming, FreshObjects, Holding,
       LeavingRedis, Doomed, RegisteredSubscriberInRedis, Registered, RedisSubscribe, Goto,
       Return
  <1>10. ASSUME NEW s \in Sockets, ChannelUnsubscribe(s)  PROVE RegisteredSubscriberInRedis'
    BY <1>10 DEF IndInv, TypeOK, DataTypeOK, ControlTypeOK, Naming, FreshObjects, Holding,
       LeavingRedis, Doomed, RegisteredSubscriberInRedis, Registered, ChannelUnsubscribe, Goto,
       Return
  <1>11. ASSUME NEW s \in Sockets, RedisUnsubscribe(s)  PROVE RegisteredSubscriberInRedis'
    <2>1. SUFFICES ASSUME RedisReplies = {TRUE}, NEW n \in Registered \ Presence,
                          NEW u \in subs[channels[n]]
                 PROVE  u \in redisSubs'[n] \cup expired'[n]
                         \/ (pc'[u] = "redisSubscribe" /\ cur'[u] = channels[n])
      BY <1>11 DEF RedisUnsubscribe, RegisteredSubscriberInRedis, Registered
    <2>2. u \in redisSubs[n] \cup expired[n] \/ (pc[u] = "redisSubscribe" /\ cur[u] = channels[n])
      BY <2>1 DEF RegisteredSubscriberInRedis
    <2>3. redisSubs' = [redisSubs EXCEPT ![name[cur[s]]] = @ \ {s}] /\ expired' = expired
      BY <1>11, <2>1 DEF RedisUnsubscribe
    <2>4. Goto(s, "checkOccupied", cur[s])
      BY <1>11 DEF RedisUnsubscribe
    <2>5. CASE u # s
      BY <2>2, <2>3, <2>4, <2>5 DEF IndInv, TypeOK, DataTypeOK, ControlTypeOK, Registered,
         Goto
    <2>6. CASE u = s
      <3>1. n # name[cur[s]]
        BY <1>11, <2>1, <2>6 DEF RedisUnsubscribe, LeavingRedis, Doomed, Registered
      <3> QED
        BY <1>11, <2>2, <2>3, <2>6, <3>1 DEF IndInv, TypeOK, DataTypeOK, ControlTypeOK,
           Registered, RedisUnsubscribe
    <2> QED
      BY <2>5, <2>6
  <1>12. ASSUME NEW s \in Sockets, CheckOccupied(s)  PROVE RegisteredSubscriberInRedis'
    BY <1>12 DEF IndInv, TypeOK, DataTypeOK, ControlTypeOK, Naming, FreshObjects, Holding,
       LeavingRedis, Doomed, RegisteredSubscriberInRedis, Registered, CheckOccupied, Goto,
       Return, Vacant
  <1>13. ASSUME NEW s \in Sockets, RemoveSubscriber(s)  PROVE RegisteredSubscriberInRedis'
    BY <1>13 DEF IndInv, TypeOK, DataTypeOK, ControlTypeOK, Naming, FreshObjects, Holding,
       LeavingRedis, Doomed, RegisteredSubscriberInRedis, Registered, RemoveSubscriber, Goto
  <1>14. ASSUME NEW s \in Sockets, RemoveChannel(s)  PROVE RegisteredSubscriberInRedis'
    BY <1>14 DEF IndInv, TypeOK, DataTypeOK, ControlTypeOK, Naming, FreshObjects, Holding,
       LeavingRedis, Doomed, RegisteredSubscriberInRedis, Registered, RemoveChannel, Goto,
       MapWrite, RangeForgets, Return
  <1>15. ASSUME NEW s \in Sockets, NEW n \in ChannelIDs, DisconnectVisit(s, n)  PROVE RegisteredSubscriberInRedis'
    BY <1>15 DEF IndInv, TypeOK, DataTypeOK, ControlTypeOK, Naming, FreshObjects, Holding,
       LeavingRedis, Doomed, RegisteredSubscriberInRedis, Registered, DisconnectVisit, Goto
  <1>16. ASSUME NEW s \in Sockets, DisconnectUnregister(s)  PROVE RegisteredSubscriberInRedis'
    BY <1>16 DEF IndInv, TypeOK, DataTypeOK, ControlTypeOK, Naming, FreshObjects, Holding,
       LeavingRedis, Doomed, RegisteredSubscriberInRedis, Registered, DisconnectUnregister,
       Goto
  <1>17. ASSUME NEW s \in Sockets, DisconnectRemove(s)  PROVE RegisteredSubscriberInRedis'
    BY <1>17 DEF IndInv, TypeOK, DataTypeOK, ControlTypeOK, Naming, FreshObjects, Holding,
       LeavingRedis, Doomed, RegisteredSubscriberInRedis, Registered, DisconnectRemove, Goto
  <1>18. CASE UNCHANGED vars
    BY <1>18 DEF IndInv, TypeOK, DataTypeOK, ControlTypeOK, Naming, FreshObjects, Holding,
       LeavingRedis, Doomed, RegisteredSubscriberInRedis, Registered, vars
  <1>19. CASE KeyExpires
    <2>1. \A n \in ChannelIDs : redisSubs[n] \cup expired[n] \subseteq redisSubs'[n] \cup expired'[n]
      BY <1>19 DEF IndInv, TypeOK, DataTypeOK, KeyExpires
    <2>2. UNCHANGED <<registry, objects, control>>
      BY <1>19 DEF KeyExpires
    <2> QED
      BY <2>1, <2>2 DEF RegisteredSubscriberInRedis, Registered
  <1> QED
    BY <1>1, <1>2, <1>3, <1>4, <1>5, <1>6, <1>7, <1>8, <1>9, <1>10, <1>11, <1>12, <1>13,
       <1>14, <1>15, <1>16, <1>17, <1>18, <1>19, NextCases

\* The parts about Redis hold in the initial states.
LEMMA InitRedis == Init => LeavingRedis /\ Listening /\ RegisteredSubscriberInRedis
  BY DEF Init, LeavingRedis, Doomed, Listening, ListenerServes, RegisteredSubscriberInRedis,
         Registered, Goroutines

\* RemoveChannel forgets the key of a listener apart from the channel; with a Redis
\* that answers, no channel is ever registered without a listener for its events.
THEOREM ListenerAlwaysServes == Spec => []ListenerServes
  <1>1. IndInv /\ Listening /\ [Next]_vars => Listening'
    BY ListeningStep
  <1>2. Listening => ListenerServes
    BY DEF Listening
  <1> QED
    BY Invariance, InitRedis, <1>1, <1>2, PTL DEF Spec

\* With a Redis that answers, its subscription set never misses a subscriber of a
\* registered channel but the one about to be added and those it lost by expiry.
THEOREM SubscribersAreInRedis == Spec => []RegisteredSubscriberInRedis
  <1>1. IndInv /\ LeavingRedis /\ [Next]_vars => LeavingRedis'
    BY LeavingRedisStep
  <1>2. IndInv /\ LeavingRedis /\ RegisteredSubscriberInRedis /\ [Next]_vars
          => RegisteredSubscriberInRedis'
    BY InRedisStep
  <1> QED
    BY Invariance, InitRedis, <1>1, <1>2, PTL DEF Spec

-------------------------------------------------------------------------------
\* What leaves the map and the objects alone leaves what an id reaches alone.
LEMMA SameReached ==
    ASSUME channels' = channels, subs' = subs
    PROVE  Reached' = Reached /\ (connections' = connections => UNCHANGED Abstract!vars)
  BY DEF Reached, Registered, Abstract!vars

\* Every step is a step of Membership or leaves it unchanged.
LEMMA AbstractStep ==
    ASSUME IndInv, [Next]_vars
    PROVE  [Abstract!Next]_(Abstract!vars)
  <1> USE GoroutineAssumption, ChannelAssumption, RedisAssumption DEF Goroutines, Channels, NoChannel,
              registry, objects, pubsub, redis, control, loop
  <1>1. ASSUME NEW s \in Sockets, Connect(s)  PROVE [Abstract!Next]_(Abstract!vars)
    <2>1. channels' = channels /\ subs' = subs /\ connections' = connections \cup {s}
      BY <1>1 DEF Connect
    <2>2. Reached' = Reached
      BY <2>1, SameReached
    <2>3. s \notin connections /\ s \notin ranging
      BY <1>1 DEF IndInv, TypeOK, DataTypeOK, ControlTypeOK, Sessions, Unsubscribing,
         Connect
    <2>4. \A n \in ChannelIDs : s \notin Reached[n]
      BY <1>1, <2>3 DEF IndInv, Leaving, Reached, Registered, Connect
    <2> QED
      BY <2>1, <2>2, <2>3, <2>4 DEF Abstract!Next, Abstract!Open
  <1>2. ASSUME NEW s \in Sockets, Disconnect(s)  PROVE [Abstract!Next]_(Abstract!vars)
    <2>1. channels' = channels /\ subs' = subs /\ connections' = connections
      BY <1>2 DEF Disconnect
    <2> QED
      BY <2>1, SameReached
  <1>3. ASSUME NEW s \in Sockets, NEW n \in ChannelIDs, SubscribeRequest(s, n)  PROVE [Abstract!Next]_(Abstract!vars)
    <2>1. channels' = channels /\ subs' = subs /\ connections' = connections
      BY <1>3 DEF SubscribeRequest, FindOrCreate
    <2> QED
      BY <2>1, SameReached
  <1>4. ASSUME NEW s \in Sockets, NEW n \in ChannelIDs, UnsubscribeRequest(s, n)  PROVE [Abstract!Next]_(Abstract!vars)
    <2>1. channels' = channels /\ subs' = subs /\ connections' = connections
      BY <1>4 DEF UnsubscribeRequest
    <2> QED
      BY <2>1, SameReached
  <1>5. ASSUME NEW p \in Posters, NEW n \in ChannelIDs, PostRequest(p, n)  PROVE [Abstract!Next]_(Abstract!vars)
    <2>1. channels' = channels /\ subs' = subs /\ connections' = connections
      BY <1>5 DEF PostRequest, FindOrCreate
    <2> QED
      BY <2>1, SameReached
  <1>6. ASSUME NEW t \in Goroutines, AddChannel(t)  PROVE [Abstract!Next]_(Abstract!vars)
    <2> DEFINE n == name[cur[t]]
    <2>1. cur[t] \in Channels /\ n \in ChannelIDs /\ subs[cur[t]] = {}
      BY <1>6 DEF IndInv, TypeOK, DataTypeOK, ControlTypeOK, Naming, FreshObjects, Holding,
         AddChannel
    <2>2. /\ channels' = [channels EXCEPT ![n] = cur[t]]
          /\ connections' = connections /\ subs' = subs
      BY <1>6 DEF AddChannel
    <2>3. Reached' = [Reached EXCEPT ![n] = {}]
      BY <2>1, <2>2 DEF IndInv, TypeOK, DataTypeOK, ControlTypeOK, Reached, Registered
    <2> QED
      BY <2>1, <2>2, <2>3 DEF Abstract!Next, Abstract!Drop
  <1>7. ASSUME NEW p \in Posters, PostPublish(p)  PROVE [Abstract!Next]_(Abstract!vars)
    <2>1. channels' = channels /\ subs' = subs /\ connections' = connections
      BY <1>7 DEF PostPublish
    <2> QED
      BY <2>1, SameReached
  <1>8. ASSUME NEW s \in Sockets, ChannelSubscribe(s)  PROVE [Abstract!Next]_(Abstract!vars)
    <2> DEFINE c == cur[s]
              n == name[c]
    <2>1. c \in Channels /\ n \in ChannelIDs /\ s \in connections
      BY <1>8 DEF IndInv, TypeOK, DataTypeOK, ControlTypeOK, Naming, Holding, Sessions,
         ChannelSubscribe
    <2>2. /\ channels' = channels /\ connections' = connections
          /\ subs' = [subs EXCEPT ![c] = @ \cup {s}]
      BY <1>8 DEF ChannelSubscribe
    <2>3. \A m \in ChannelIDs : channels[m] = c => m = n
      BY <2>1 DEF IndInv, Naming, Registered
    <2>4. CASE channels[n] = c
      <3>1. Reached' = [Reached EXCEPT ![n] = @ \cup {s}]
        <4>1. subs'[c] = subs[c] \cup {s} /\ c # NoChannel
          BY <2>1, <2>2 DEF IndInv, TypeOK, DataTypeOK
        <4>2. \A m \in ChannelIDs \ {n} : channels[m] # NoChannel => subs'[channels[m]] = subs[channels[m]]
          BY <2>2, <2>3 DEF IndInv, TypeOK, DataTypeOK
        <4> HIDE DEF c, n
        <4> QED
          BY <2>1, <2>2, <2>4, <4>1, <4>2 DEF Reached, Registered
      <3> QED
        BY <2>1, <2>2, <3>1 DEF Abstract!Next, Abstract!Join
    <2>5. CASE channels[n] # c
      <3>1. Reached' = Reached
        BY <2>1, <2>2, <2>3, <2>5 DEF IndInv, TypeOK, DataTypeOK, ControlTypeOK, Reached,
           Registered
      <3> QED
        BY <2>2, <3>1 DEF Abstract!vars
    <2> QED
      BY <2>4, <2>5
  <1>9. ASSUME NEW s \in Sockets, RedisSubscribe(s)  PROVE [Abstract!Next]_(Abstract!vars)
    <2>1. channels' = channels /\ subs' = subs /\ connections' = connections
      BY <1>9 DEF RedisSubscribe
    <2> QED
      BY <2>1, SameReached
  <1>10. ASSUME NEW s \in Sockets, ChannelUnsubscribe(s)  PROVE [Abstract!Next]_(Abstract!vars)
    <2> DEFINE c == cur[s]
              n == name[c]
    <2>1. c \in Channels /\ n \in ChannelIDs /\ s \in connections
      <3>1. pc[s] = "unsubscribe" /\ s \in Goroutines
        BY <1>10 DEF ChannelUnsubscribe
      <3>2. c \in Channels /\ n \in ChannelIDs
        BY <3>1 DEF IndInv, TypeOK, DataTypeOK, ControlTypeOK, Naming, Holding
      <3> QED
        BY <3>1, <3>2 DEF IndInv, Sessions
    <2>2. /\ channels' = channels /\ connections' = connections
          /\ subs' = [subs EXCEPT ![c] = @ \ {s}]
      BY <1>10 DEF ChannelUnsubscribe
    <2>3. \A m \in ChannelIDs : channels[m] = c => m = n
      BY <2>1 DEF IndInv, Naming, Registered
    <2>4. CASE channels[n] = c
      <3>1. Reached' = [Reached EXCEPT ![n] = @ \ {s}]
        <4>1. subs'[c] = subs[c] \ {s} /\ c # NoChannel
          BY <2>1, <2>2 DEF IndInv, TypeOK, DataTypeOK
        <4>2. \A m \in ChannelIDs \ {n} : channels[m] # NoChannel => subs'[channels[m]] = subs[channels[m]]
          BY <2>2, <2>3 DEF IndInv, TypeOK, DataTypeOK
        <4> HIDE DEF c, n
        <4> QED
          BY <2>1, <2>2, <2>4, <4>1, <4>2 DEF Reached, Registered
      <3> QED
        BY <2>1, <2>2, <3>1 DEF Abstract!Next, Abstract!Leave
    <2>5. CASE channels[n] # c
      <3>1. Reached' = Reached
        BY <2>1, <2>2, <2>3, <2>5 DEF IndInv, TypeOK, DataTypeOK, ControlTypeOK, Reached,
           Registered
      <3> QED
        BY <2>2, <3>1 DEF Abstract!vars
    <2> QED
      BY <2>4, <2>5
  <1>11. ASSUME NEW s \in Sockets, RedisUnsubscribe(s)  PROVE [Abstract!Next]_(Abstract!vars)
    <2>1. channels' = channels /\ subs' = subs /\ connections' = connections
      BY <1>11 DEF RedisUnsubscribe
    <2> QED
      BY <2>1, SameReached
  <1>12. ASSUME NEW s \in Sockets, CheckOccupied(s)  PROVE [Abstract!Next]_(Abstract!vars)
    <2>1. channels' = channels /\ subs' = subs /\ connections' = connections
      BY <1>12 DEF CheckOccupied
    <2> QED
      BY <2>1, SameReached
  <1>13. ASSUME NEW s \in Sockets, RemoveSubscriber(s)  PROVE [Abstract!Next]_(Abstract!vars)
    <2>1. channels' = channels /\ subs' = subs /\ connections' = connections
      BY <1>13 DEF RemoveSubscriber
    <2> QED
      BY <2>1, SameReached
  <1>14. ASSUME NEW s \in Sockets, RemoveChannel(s)  PROVE [Abstract!Next]_(Abstract!vars)
    <2> DEFINE n == name[cur[s]]
    <2>1. cur[s] \in Channels /\ n \in ChannelIDs
      BY <1>14 DEF IndInv, TypeOK, DataTypeOK, ControlTypeOK, Naming, FreshObjects, Holding,
         RemoveChannel
    <2>2. /\ channels' = [channels EXCEPT ![n] = NoChannel]
          /\ connections' = connections /\ subs' = subs
      BY <1>14 DEF RemoveChannel
    <2>3. Reached' = [Reached EXCEPT ![n] = {}]
      BY <2>1, <2>2 DEF IndInv, TypeOK, DataTypeOK, ControlTypeOK, Reached, Registered
    <2> QED
      BY <2>1, <2>2, <2>3 DEF Abstract!Next, Abstract!Drop
  <1>15. ASSUME NEW s \in Sockets, NEW n \in ChannelIDs, DisconnectVisit(s, n)  PROVE [Abstract!Next]_(Abstract!vars)
    <2>1. channels' = channels /\ subs' = subs /\ connections' = connections
      BY <1>15 DEF DisconnectVisit
    <2> QED
      BY <2>1, SameReached
  <1>16. ASSUME NEW s \in Sockets, DisconnectUnregister(s)  PROVE [Abstract!Next]_(Abstract!vars)
    <2>1. channels' = channels /\ subs' = subs /\ connections' = connections
      BY <1>16 DEF DisconnectUnregister
    <2> QED
      BY <2>1, SameReached
  <1>17. ASSUME NEW s \in Sockets, DisconnectRemove(s)  PROVE [Abstract!Next]_(Abstract!vars)
    <2>1. channels' = channels /\ subs' = subs /\ connections' = connections \ {s}
      BY <1>17 DEF DisconnectRemove
    <2>2. Reached' = Reached
      BY <2>1, SameReached
    <2>3. s \in connections /\ s \notin ranging
      BY <1>17 DEF IndInv, TypeOK, DataTypeOK, ControlTypeOK, Sessions, Unsubscribing,
         DisconnectRemove
    <2>4. \A n \in ChannelIDs : s \notin Reached[n]
      BY <1>17, <2>3 DEF IndInv, Leaving, Reached, Registered, DisconnectRemove
    <2> QED
      BY <2>1, <2>2, <2>3, <2>4 DEF Abstract!Next, Abstract!Close
  <1>18. CASE UNCHANGED vars
    BY <1>18, SameReached DEF vars
  <1>19. CASE KeyExpires
    <2>1. channels' = channels /\ subs' = subs /\ connections' = connections
      BY <1>19 DEF KeyExpires
    <2> QED
      BY <2>1, SameReached
  <1> QED
    BY <1>1, <1>2, <1>3, <1>4, <1>5, <1>6, <1>7, <1>8, <1>9, <1>10, <1>11, <1>12, <1>13,
       <1>14, <1>15, <1>16, <1>17, <1>18, <1>19, NextCases

\* Whatever the interleaving of sessions and POST requests, and whatever Redis
\* answers, the registry implements Membership: the sockets an id reaches come and
\* go one by one and by their own request, or are lost all at once, never to return.
THEOREM ImplementsMembership == Spec => MembershipSpec
  <1>1. Init => Abstract!Init
    BY DEF Init, Abstract!Init, Reached, Registered
  <1>2. IndInv /\ [Next]_vars => [Abstract!Next]_(Abstract!vars)
    BY AbstractStep
  <1> QED
    BY Invariance, <1>1, <1>2, PTL DEF Spec, MembershipSpec, Abstract!Spec
===============================================================================
