----------------------------- MODULE SerialProofs -----------------------------
(***************************************************************************)
(* The registry when a request starts only after the last one has ended    *)
(* (SerialSpec), for every set of sockets, posters and channel ids: what   *)
(* its tests expect of it is true then, so that interleaving alone breaks  *)
(* it.                                                                     *)
(*                                                                         *)
(* A serial step is a step of Application.tla, so that IndInv holds here   *)
(* too.  SerialInv adds what one request at a time makes true: the channel *)
(* a goroutine holds is the one its id has in the map, and a channel that  *)
(* is not in the map has no subscribers.                                   *)
(***************************************************************************)
EXTENDS ApplicationProofs, FiniteSetTheorems

Resting == {"new", "open", "closed", "idle"}

\* The sections that decide whether a channel without subscribers goes.
Deciding == {"subscribe", "redisUnsubscribe", "checkOccupied", "removeSubscriber",
             "removeChannel"}

Alone ==
    \A t, u \in Goroutines : pc[t] \notin Resting /\ pc[u] \notin Resting => t = u

\* Subscribers are in the channel that the map has for the id.
Attached == \A c \in Channels : subs[c] # {} => channels[name[c]] = c

\* What a goroutine holds is what the map has.
Pointing ==
    \A t \in Goroutines :
        /\ pc[t] = "add" => channels[name[cur[t]]] = NoChannel
        /\ pc[t] \in Holding \ {"add"} => channels[name[cur[t]]] = cur[t]
        /\ pc[t] \in {"removeSubscriber", "removeChannel"} => subs[cur[t]] = {}

\* An object that a POST has made and not yet added is known to be a POST's.
PostsKnown == \A t \in Posters : pc[t] = "add" => cur[t] \in posted

\* A channel without subscribers is a POST's, or about to get one or about to go.
Occupied ==
    \A n \in Registered :
        \/ subs[channels[n]] # {}
        \/ channels[n] \in posted
        \/ \E t \in Goroutines : pc[t] \in Deciding /\ cur[t] = channels[n]

Counted == IsFiniteSet(Registered) /\ totalChannels = Cardinality(Registered)

SerialInv == Alone /\ Attached /\ Pointing /\ PostsKnown /\ Occupied /\ Counted

-------------------------------------------------------------------------------
\* The initial states satisfy it.
LEMMA SerialInit == Init => SerialInv
<1> SUFFICES ASSUME Init PROVE SerialInv
  OBVIOUS
<1>1. Registered = {}
  BY DEF Init, Registered
<1>2. Counted
  BY <1>1, FS_EmptySet DEF Init, Counted
<1>3. \A t \in Goroutines : pc[t] \in Resting
  BY DEF Init, Resting
<1>4. Pointing
  BY <1>3 DEF Pointing, Resting, Holding
<1>5. PostsKnown
  BY <1>3 DEF PostsKnown, Resting, Goroutines
<1> QED
  BY <1>1, <1>2, <1>3, <1>4, <1>5 DEF Init, SerialInv, Alone, Attached, Occupied

\* A request of t, or the section it enters next.
Act(t) == (Quiet /\ Request(t)) \/ Serve(t)

\* Every other goroutine rests, and goes on resting.
OthersRest(t) ==
    \A u \in Goroutines \ {t} : pc[u] \in Resting /\ pc'[u] = pc[u] /\ cur'[u] = cur[u]

\* A serial step is one of Application's.
LEMMA SerialIsNext == [SerialNext]_vars => [Next]_vars
BY DEF SerialNext, Next

\* Only the goroutine that steps moves.
LEMMA Moves ==
    ASSUME IndInv, NEW t \in Goroutines, Act(t)
    PROVE  \A u \in Goroutines \ {t} : pc'[u] = pc[u] /\ cur'[u] = cur[u]
<1>1. pc \in [Goroutines -> SocketPCs \cup PosterPCs] /\ cur \in [Goroutines -> {NoChannel} \cup Channels]
  BY DEF IndInv, TypeOK, ControlTypeOK
<1>2. ASSUME \E label, c : Goto(t, label, c) PROVE \A u \in Goroutines \ {t} : pc'[u] = pc[u] /\ cur'[u] = cur[u]
  BY <1>1, <1>2 DEF Goto
<1>3. CASE Request(t)
  BY <1>2, <1>3 DEF Request, Connect, Disconnect, SubscribeRequest, UnsubscribeRequest,
                    PostRequest, FindOrCreate
<1>4. ASSUME UNCHANGED control PROVE \A u \in Goroutines \ {t} : pc'[u] = pc[u] /\ cur'[u] = cur[u]
  BY <1>4 DEF control
<1>5. CASE Serve(t)
  <2>1. \/ UNCHANGED control
        \/ Return(t)
        \/ \E label, c : Goto(t, label, c)
    BY <1>5 DEF Serve, AddChannel, PostPublish, ChannelSubscribe, RedisSubscribe,
              ChannelUnsubscribe, RedisUnsubscribe, CheckOccupied, RemoveSubscriber,
              RemoveChannel, DisconnectVisit, DisconnectUnregister, DisconnectRemove
  <2> QED
    BY <1>2, <1>4, <2>1 DEF Return
<1> QED
  BY <1>3, <1>5 DEF Act

\* While one goroutine serves a request, the others rest.
LEMMA OneActs ==
    ASSUME IndInv, Alone, NEW t \in Goroutines, Act(t)
    PROVE  OthersRest(t) /\ Alone'
<1>1. Quiet \/ pc[t] \notin Resting
  <2>1. CASE Serve(t)
    BY <2>1 DEF Serve, AddChannel, PostPublish, ChannelSubscribe, RedisSubscribe,
              ChannelUnsubscribe, RedisUnsubscribe, CheckOccupied, RemoveSubscriber,
              RemoveChannel, DisconnectVisit, DisconnectUnregister, DisconnectRemove, Resting
  <2> QED
    BY <2>1 DEF Act
<1>2. \A u \in Goroutines \ {t} : pc[u] \in Resting
  BY <1>1 DEF Alone, Quiet, Resting
<1> QED
  BY <1>2, Moves DEF OthersRest, Alone

\* A step that leaves the map and the objects, after which the goroutine that made it
\* holds what the map has and has not left an empty channel behind, keeps it.
LEMMA QuietStep ==
    ASSUME IndInv, SerialInv, NEW t \in Goroutines, Act(t),
           UNCHANGED <<channels, totalChannels, name, subs, posted>>,
           pc'[t] # "add",
           pc'[t] \in Holding => channels[name[cur'[t]]] = cur'[t],
           pc'[t] \in {"removeSubscriber", "removeChannel"} => subs[cur'[t]] = {},
           pc[t] \in Deciding =>
                subs[cur[t]] # {} \/ (pc'[t] \in Deciding /\ cur'[t] = cur[t])
    PROVE  SerialInv'
<1>1. OthersRest(t) /\ Alone'
  BY OneActs DEF SerialInv
<1>2. Attached' /\ Counted'
  BY DEF SerialInv, Attached, Counted, Registered
<1>3. Pointing'
  <2> SUFFICES ASSUME NEW u \in Goroutines
               PROVE  /\ pc'[u] = "add" => channels[name[cur'[u]]] = NoChannel
                      /\ pc'[u] \in Holding \ {"add"} => channels[name[cur'[u]]] = cur'[u]
                      /\ pc'[u] \in {"removeSubscriber", "removeChannel"} => subs[cur'[u]] = {}
    BY DEF Pointing
  <2>1. CASE u = t
    BY <2>1
  <2>2. CASE u # t
    BY <1>1, <2>2 DEF OthersRest, Resting, Holding
  <2> QED
    BY <2>1, <2>2
<1>4. Occupied'
  <2> SUFFICES ASSUME NEW n \in Registered
               PROVE  \/ subs[channels[n]] # {}
                      \/ channels[n] \in posted
                      \/ \E u \in Goroutines : pc'[u] \in Deciding /\ cur'[u] = channels[n]
    BY DEF Occupied, Registered
  <2>1. CASE subs[channels[n]] # {} \/ channels[n] \in posted
    BY <2>1
  <2>2. ASSUME NEW u \in Goroutines, pc[u] \in Deciding, cur[u] = channels[n]
        PROVE  \/ subs[channels[n]] # {}
               \/ channels[n] \in posted
               \/ \E v \in Goroutines : pc'[v] \in Deciding /\ cur'[v] = channels[n]
    <3>1. u = t
      BY <1>1, <2>2 DEF OthersRest, Resting, Deciding
    <3> QED
      BY <2>2, <3>1
  <2> QED
    BY <2>1, <2>2 DEF SerialInv, Occupied
<1>5. PostsKnown'
  BY <1>1 DEF SerialInv, PostsKnown, OthersRest, Goroutines, Resting
<1> QED
  BY <1>1, <1>2, <1>3, <1>4, <1>5 DEF SerialInv

\* A new object is not in the map yet; its creator alone holds it.
LEMMA CreateStep ==
    ASSUME IndInv, SerialInv, NEW t \in Goroutines, Act(t), pc[t] \notin Deciding,
           NEW n \in ChannelIDs, channels[n] = NoChannel, created + 1 \in Channels,
           name' = [name EXCEPT ![created + 1] = n],
           pc'[t] = "add", cur'[t] = created + 1,
           posted' = IF t \in Posters THEN posted \cup {created + 1} ELSE posted,
           UNCHANGED <<channels, totalChannels, subs>>
    PROVE  SerialInv'
<1> USE DEF IndInv, TypeOK, DataTypeOK
<1>1. OthersRest(t) /\ Alone'
  BY OneActs DEF SerialInv
<1>2. Counted'
  BY DEF SerialInv, Counted, Registered
<1>3. /\ name'[created + 1] = n
      /\ \A c \in Channels : subs[c] # {} => c # created + 1 /\ name'[c] = name[c]
  BY DEF Naming, Channels, NoChannel
<1>4. Attached'
  BY <1>3 DEF SerialInv, Attached
<1>5. Pointing'
  <2>1. \A u \in Goroutines \ {t} : pc'[u] \in Resting
    BY <1>1 DEF OthersRest
  <2> QED
    BY <1>3, <2>1 DEF Pointing, Resting, Holding
<1>6. Occupied'
  BY <1>1 DEF SerialInv, Occupied, Registered, OthersRest, Deciding, Resting
<1>7. PostsKnown'
  BY <1>1 DEF SerialInv, PostsKnown, OthersRest, Goroutines, Resting
<1> QED
  BY <1>1, <1>2, <1>4, <1>5, <1>6, <1>7 DEF SerialInv

\* Where Goto and Return leave the goroutine.
LEMMA GoesTo ==
    ASSUME IndInv, NEW t \in Goroutines
    PROVE  /\ \A label, c : Goto(t, label, c) => pc'[t] = label /\ cur'[t] = c
           /\ Return(t) => pc'[t] \in {"idle", "range", "open"}
BY DEF IndInv, TypeOK, ControlTypeOK, Goto, Return

\* What a goroutine holds is an object with an id.
LEMMA Held ==
    ASSUME IndInv, NEW t \in Goroutines, pc[t] \in Holding
    PROVE  cur[t] \in Channels /\ name[cur[t]] \in ChannelIDs
BY DEF IndInv, TypeOK, DataTypeOK, ControlTypeOK, Naming

\* The channel added takes the place of none.
LEMMA AddStep ==
    ASSUME IndInv, SerialInv, NEW t \in Goroutines, Act(t), AddChannel(t)
    PROVE  SerialInv'
<1> DEFINE c == cur[t]
           n == name[c]
<1>1. pc[t] = "add" /\ c \in Channels /\ n \in ChannelIDs /\ channels[n] = NoChannel
  BY Held DEF AddChannel, SerialInv, Pointing, Holding
<1>2. /\ channels' = [channels EXCEPT ![n] = c] /\ totalChannels' = totalChannels + 1
      /\ UNCHANGED <<name, subs, posted>>
      /\ pc'[t] = (IF t \in Posters THEN "publish" ELSE "subscribe") /\ cur'[t] = c
  BY GoesTo DEF AddChannel, objects
<1>3. OthersRest(t) /\ Alone'
  BY OneActs DEF SerialInv
<1> HIDE DEF c, n
<1> USE DEF IndInv, TypeOK, DataTypeOK
<1>4. /\ channels'[n] = c /\ \A m \in ChannelIDs \ {n} : channels'[m] = channels[m]
      /\ Registered' = Registered \cup {n} /\ n \notin Registered
  BY <1>1, <1>2 DEF Registered, Channels, NoChannel
<1>5. Attached'
  <2> SUFFICES ASSUME NEW d \in Channels, subs[d] # {} PROVE channels'[name[d]] = d
    BY <1>2 DEF Attached
  <2>1. channels[name[d]] = d /\ name[d] \in ChannelIDs /\ d # NoChannel
    BY DEF SerialInv, Attached, Channels, NoChannel
  <2> QED
    BY <1>1, <1>4, <2>1
<1>6. Pointing'
  <2>1. \A u \in Goroutines \ {t} : pc'[u] \in Resting
    BY <1>3 DEF OthersRest
  <2>2. name'[cur'[t]] = n
    BY <1>2 DEF n, c
  <2> QED
    BY <1>2, <1>4, <2>1, <2>2 DEF Pointing, Resting, Holding
<1>7. Occupied'
  <2> SUFFICES ASSUME NEW m \in Registered'
               PROVE  \/ subs[channels'[m]] # {}
                      \/ channels'[m] \in posted
                      \/ \E u \in Goroutines : pc'[u] \in Deciding /\ cur'[u] = channels'[m]
    BY <1>2 DEF Occupied
  <2>1. CASE m = n
    BY <1>1, <1>2, <1>4, <2>1 DEF Deciding, SerialInv, PostsKnown, c
  <2>2. CASE m # n
    <3>1. m \in Registered /\ channels'[m] = channels[m]
      BY <1>4, <2>2 DEF Registered
    <3>2. \A u \in Goroutines : pc[u] \notin Deciding
      BY <1>1, <1>3 DEF OthersRest, Resting, Deciding
    <3> QED
      BY <3>1, <3>2 DEF SerialInv, Occupied
  <2> QED
    BY <2>1, <2>2
<1>8. Counted'
  BY <1>2, <1>4, FS_AddElement DEF SerialInv, Counted
<1>9. PostsKnown'
  BY <1>2, <1>3 DEF PostsKnown, OthersRest, Goroutines, Resting
<1> QED
  BY <1>3, <1>5, <1>6, <1>7, <1>8, <1>9 DEF SerialInv

\* The channel removed has no subscribers, and is the one the goroutine holds.
LEMMA RemoveStep ==
    ASSUME IndInv, SerialInv, NEW s \in Sockets, Act(s), RemoveChannel(s)
    PROVE  /\ SerialInv'
           /\ \A n \in ChannelIDs :
                channels[n] # NoChannel /\ channels'[n] = NoChannel => subs[channels[n]] = {}
<1> DEFINE c == cur[s]
           n == name[c]
<1>0. s \in Goroutines
  BY DEF Goroutines
<1>1. /\ pc[s] = "removeChannel" /\ c \in Channels /\ n \in ChannelIDs
      /\ channels[n] = c /\ subs[c] = {}
  BY <1>0, Held DEF RemoveChannel, SerialInv, Pointing, Holding
<1>2. /\ channels' = [channels EXCEPT ![n] = NoChannel] /\ totalChannels' = totalChannels - 1
      /\ UNCHANGED <<name, subs, posted>>
      /\ pc'[s] \in {"idle", "range", "open"}
  BY <1>0, GoesTo DEF RemoveChannel, objects, UncountChannel
<1>3. OthersRest(s) /\ Alone'
  BY <1>0, OneActs DEF SerialInv
<1> HIDE DEF c, n
<1> USE DEF IndInv, TypeOK, DataTypeOK
<1>4. /\ channels'[n] = NoChannel /\ \A m \in ChannelIDs \ {n} : channels'[m] = channels[m]
      /\ Registered' = Registered \ {n} /\ n \in Registered
  BY <1>1, <1>2 DEF Registered, Channels, NoChannel
<1>5. Attached'
  <2> SUFFICES ASSUME NEW d \in Channels, subs[d] # {} PROVE channels'[name[d]] = d
    BY <1>2 DEF Attached
  <2>1. channels[name[d]] = d /\ name[d] \in ChannelIDs /\ d # c
    BY <1>1 DEF SerialInv, Attached
  <2> QED
    BY <1>1, <1>4, <2>1
<1>6. Pointing'
  <2>1. \A u \in Goroutines \ {s} : pc'[u] \in Resting
    BY <1>3 DEF OthersRest
  <2> QED
    BY <1>2, <2>1 DEF Pointing, Resting, Holding
<1>7. Occupied'
  <2> SUFFICES ASSUME NEW m \in Registered'
               PROVE  subs[channels'[m]] # {} \/ channels'[m] \in posted
    BY <1>2 DEF Occupied
  <2>1. m \in Registered \ {n} /\ channels'[m] = channels[m] /\ m \in ChannelIDs
    BY <1>4 DEF Registered
  <2>2. channels[m] # c
    BY <1>1, <2>1 DEF Naming, n
  <2>3. ~\E u \in Goroutines : pc[u] \in Deciding /\ cur[u] = channels[m]
    BY <1>3, <2>2 DEF OthersRest, Resting, Deciding, c
  <2> QED
    BY <2>1, <2>3 DEF SerialInv, Occupied
<1>8. Counted'
  <2>1. Cardinality(Registered) \in Nat
    BY FS_CardinalityType DEF SerialInv, Counted
  <2> QED
    BY <1>2, <1>4, <2>1, FS_RemoveElement DEF SerialInv, Counted
<1>9. PostsKnown'
  BY <1>2, <1>3 DEF PostsKnown, OthersRest, Goroutines, Resting
<1> QED
  BY <1>1, <1>3, <1>4, <1>5, <1>6, <1>7, <1>8, <1>9 DEF SerialInv

\* A socket enters the channel that the map has.
LEMMA SubscribeStep ==
    ASSUME IndInv, SerialInv, NEW s \in Sockets, Act(s), ChannelSubscribe(s)
    PROVE  SerialInv'
<1> DEFINE c == cur[s]
<1>0. s \in Goroutines
  BY DEF Goroutines
<1>1. /\ pc[s] = "subscribe" /\ c \in Channels /\ name[c] \in ChannelIDs
      /\ channels[name[c]] = c
  BY <1>0, Held DEF ChannelSubscribe, SerialInv, Pointing, Holding
<1>2. /\ UNCHANGED <<channels, totalChannels, name>>
      /\ subs' = [subs EXCEPT ![c] = @ \cup {s}] /\ posted' = posted \ {c}
      /\ \/ pc'[s] = "redisSubscribe" /\ cur'[s] = c
         \/ pc'[s] \in {"idle", "range", "open"}
  BY <1>0, GoesTo DEF ChannelSubscribe, registry
<1>3. OthersRest(s) /\ Alone'
  BY <1>0, OneActs DEF SerialInv
<1> HIDE DEF c
<1> USE DEF IndInv, TypeOK, DataTypeOK
<1>4. /\ subs'[c] # {} /\ \A d \in Channels : d # c => subs'[d] = subs[d]
      /\ Registered' = Registered
  BY <1>1, <1>2 DEF Registered
<1>5. Attached' /\ Counted'
  BY <1>1, <1>2, <1>4 DEF SerialInv, Attached, Counted
<1>6. Pointing'
  <2>1. \A u \in Goroutines \ {s} : pc'[u] \in Resting
    BY <1>3 DEF OthersRest
  <2> QED
    BY <1>1, <1>2, <2>1 DEF Pointing, Resting, Holding
<1>7. Occupied'
  <2> SUFFICES ASSUME NEW m \in Registered
               PROVE  subs'[channels[m]] # {} \/ channels[m] \in posted'
    BY <1>2, <1>4 DEF Occupied
  <2>1. channels[m] \in Channels
    BY DEF Registered, NoChannel
  <2>2. CASE channels[m] = c
    BY <1>4, <2>2
  <2>3. CASE channels[m] # c
    <3>1. ~\E u \in Goroutines : pc[u] \in Deciding /\ cur[u] = channels[m]
      BY <1>3, <2>3 DEF OthersRest, Resting, Deciding, c
    <3> QED
      BY <1>2, <1>4, <2>1, <2>3, <3>1 DEF SerialInv, Occupied
  <2> QED
    BY <2>2, <2>3
<1>8. PostsKnown'
  BY <1>0, <1>2, <1>3, GoroutineAssumption DEF PostsKnown, OthersRest, Goroutines, Resting
<1> QED
  BY <1>3, <1>5, <1>6, <1>7, <1>8 DEF SerialInv

\* A socket that leaves looks whether it was the last.
LEMMA UnsubscribeStep ==
    ASSUME IndInv, SerialInv, NEW s \in Sockets, Act(s), ChannelUnsubscribe(s)
    PROVE  SerialInv'
<1> DEFINE c == cur[s]
<1>0. s \in Goroutines
  BY DEF Goroutines
<1>1. /\ pc[s] = "unsubscribe" /\ c \in Channels /\ name[c] \in ChannelIDs
      /\ channels[name[c]] = c
  BY <1>0, Held DEF ChannelUnsubscribe, SerialInv, Pointing, Holding
<1>2. /\ UNCHANGED <<channels, totalChannels, name>>
      /\ subs' = [subs EXCEPT ![c] = @ \ {s}] /\ posted' = posted
      /\ IF s \in subs[c] THEN pc'[s] = "redisUnsubscribe" /\ cur'[s] = c
                          ELSE pc'[s] \in {"idle", "range", "open"}
  BY <1>0, GoesTo DEF ChannelUnsubscribe, registry
<1>3. OthersRest(s) /\ Alone'
  BY <1>0, OneActs DEF SerialInv
<1> HIDE DEF c
<1> USE DEF IndInv, TypeOK, DataTypeOK
<1>4. /\ subs'[c] = subs[c] \ {s} /\ \A d \in Channels : d # c => subs'[d] = subs[d]
      /\ Registered' = Registered
  BY <1>1, <1>2 DEF Registered
<1>5. Attached' /\ Counted'
  BY <1>1, <1>2, <1>4 DEF SerialInv, Attached, Counted
<1>6. Pointing'
  <2>1. \A u \in Goroutines \ {s} : pc'[u] \in Resting
    BY <1>3 DEF OthersRest
  <2> QED
    BY <1>1, <1>2, <2>1 DEF Pointing, Resting, Holding
<1>7. Occupied'
  <2> SUFFICES ASSUME NEW m \in Registered
               PROVE  \/ subs'[channels[m]] # {}
                      \/ channels[m] \in posted
                      \/ \E u \in Goroutines : pc'[u] \in Deciding /\ cur'[u] = channels[m]
    BY <1>2, <1>4 DEF Occupied
  <2>1. channels[m] \in Channels
    BY DEF Registered, NoChannel
  <2>2. subs[channels[m]] # {} \/ channels[m] \in posted
    <3>1. \A u \in Goroutines : pc[u] \notin Deciding
      BY <1>1, <1>3 DEF OthersRest, Resting, Deciding
    <3> QED
      BY <3>1 DEF SerialInv, Occupied
  <2>3. CASE channels[m] = c /\ s \in subs[c]
    BY <1>0, <1>2, <2>3 DEF Deciding
  <2>4. CASE ~(channels[m] = c /\ s \in subs[c])
    BY <1>4, <2>1, <2>2, <2>4
  <2> QED
    BY <2>3, <2>4
<1>8. PostsKnown'
  BY <1>0, <1>2, <1>3, GoroutineAssumption DEF PostsKnown, OthersRest, Goroutines, Resting
<1> QED
  BY <1>3, <1>5, <1>6, <1>7, <1>8 DEF SerialInv

-------------------------------------------------------------------------------
\* Every request and every section keeps it, and only a channel without subscribers is
\* removed.
LEMMA ActStep ==
    ASSUME IndInv, SerialInv, NEW t \in Goroutines, Act(t)
    PROVE  /\ SerialInv'
           /\ \A n \in ChannelIDs :
                channels[n] # NoChannel /\ channels'[n] = NoChannel => subs[channels[n]] = {}
<1> DEFINE Removes == \E n \in ChannelIDs : channels[n] # NoChannel /\ channels'[n] = NoChannel
<1> USE DEF registry, objects, control, Holding, Deciding
<1>1. CASE t \in Sockets /\ (Connect(t) \/ Disconnect(t) \/ DisconnectUnregister(t) \/ DisconnectRemove(t))
  <2>1. /\ UNCHANGED <<channels, totalChannels, name, subs, posted>>
        /\ pc[t] \in {"new", "open", "range", "remove"} /\ pc'[t] \in {"open", "range", "remove", "closed"}
    BY <1>1, GoesTo DEF Connect, Disconnect, DisconnectUnregister, DisconnectRemove
  <2> QED
    BY <2>1, QuietStep
<1>2. ASSUME t \in Sockets, NEW n \in ChannelIDs, DisconnectVisit(t, n) PROVE SerialInv' /\ ~Removes
  <2>1. /\ UNCHANGED <<channels, totalChannels, name, subs, posted>>
        /\ pc[t] = "range" /\ n \in todo[t]
        /\ pc'[t] = "range" \/ (pc'[t] = "unsubscribe" /\ cur'[t] = channels[n])
    BY <1>2, GoesTo DEF DisconnectVisit
  <2>2. n \in Registered
    BY <1>2, <2>1 DEF IndInv, Sessions
  <2>3. name[channels[n]] = n
    BY <2>2 DEF IndInv, Naming
  <2> QED
    BY <2>1, <2>3, QuietStep
<1>3. ASSUME t \in Sockets, NEW n \in ChannelIDs, UnsubscribeRequest(t, n) PROVE SerialInv' /\ ~Removes
  <2>1. /\ UNCHANGED <<channels, totalChannels, name, subs, posted>>
        /\ pc[t] = "open" /\ pc'[t] = "unsubscribe" /\ cur'[t] = channels[n] /\ n \in Registered
    BY <1>3, GoesTo DEF UnsubscribeRequest
  <2>2. name[channels[n]] = n
    BY <2>1 DEF IndInv, Naming
  <2> QED
    BY <2>1, <2>2, QuietStep
<1>4. ASSUME NEW n \in ChannelIDs, NEW found \in {"subscribe", "publish"}, FindOrCreate(t, n, found),
             pc[t] \in {"open", "idle"}, UNCHANGED registry
      PROVE  SerialInv' /\ ~Removes
  <2>1. CASE channels[n] # NoChannel
    <3>1. pc'[t] = found /\ cur'[t] = channels[n] /\ UNCHANGED objects
      BY <1>4, <2>1, GoesTo DEF FindOrCreate
    <3>2. name[channels[n]] = n
      BY <2>1 DEF IndInv, Naming, Registered
    <3> QED
      BY <1>4, <3>1, <3>2, QuietStep
  <2>2. CASE channels[n] = NoChannel
    <3>1. /\ created < MaxChannels /\ created' = created + 1 /\ UNCHANGED subs
          /\ posted' = IF t \in Posters THEN posted \cup {created + 1} ELSE posted
          /\ name' = [name EXCEPT ![created + 1] = n]
          /\ pc'[t] = "add" /\ cur'[t] = created + 1
      BY <1>4, <2>2, GoesTo DEF FindOrCreate
    <3>2. created + 1 \in Channels
      BY <3>1, ChannelAssumption DEF IndInv, TypeOK, DataTypeOK, Channels, NoChannel
    <3> QED
      BY <1>4, <2>2, <3>1, <3>2, CreateStep
  <2> QED
    BY <2>1, <2>2
<1>5. ASSUME t \in Sockets, NEW n \in ChannelIDs, SubscribeRequest(t, n) PROVE SerialInv' /\ ~Removes
  BY <1>4, <1>5 DEF SubscribeRequest
<1>6. ASSUME t \in Posters, NEW n \in ChannelIDs, PostRequest(t, n) PROVE SerialInv' /\ ~Removes
  BY <1>4, <1>6 DEF PostRequest
<1>7. CASE AddChannel(t)
  <2>1. SerialInv'
    BY <1>7, AddStep
  <2>2. channels' = [channels EXCEPT ![name[cur[t]]] = cur[t]] /\ cur[t] # NoChannel
    BY <1>7 DEF AddChannel, IndInv, Naming
  <2>3. ~Removes
    BY <2>2 DEF IndInv, TypeOK, DataTypeOK
  <2> QED
    BY <2>1, <2>3
<1>8. CASE t \in Posters /\ PostPublish(t)
  <2>1. /\ UNCHANGED <<channels, totalChannels, name, subs, posted>>
        /\ pc[t] = "publish" /\ pc'[t] \in {"idle", "range", "open"}
    BY <1>8, GoesTo DEF PostPublish
  <2> QED
    BY <2>1, QuietStep
<1>9. CASE t \in Sockets /\ ChannelSubscribe(t)
  BY <1>9, SubscribeStep DEF ChannelSubscribe
<1>10. CASE t \in Sockets /\ RedisSubscribe(t)
  <2>1. /\ UNCHANGED <<channels, totalChannels, name, subs, posted>>
        /\ pc[t] = "redisSubscribe" /\ pc'[t] \in {"idle", "range", "open"}
    BY <1>10, GoesTo DEF RedisSubscribe
  <2> QED
    BY <2>1, QuietStep
<1>11. CASE t \in Sockets /\ ChannelUnsubscribe(t)
  BY <1>11, UnsubscribeStep DEF ChannelUnsubscribe
<1>12. CASE t \in Sockets /\ RedisUnsubscribe(t)
  <2>1. /\ UNCHANGED <<channels, totalChannels, name, subs, posted>>
        /\ pc[t] = "redisUnsubscribe" /\ pc'[t] = "checkOccupied" /\ cur'[t] = cur[t]
    BY <1>12, GoesTo DEF RedisUnsubscribe
  <2>2. channels[name[cur[t]]] = cur[t]
    BY <2>1 DEF SerialInv, Pointing
  <2> QED
    BY <2>1, <2>2, QuietStep
<1>13. CASE t \in Sockets /\ CheckOccupied(t)
  <2>1. /\ UNCHANGED <<channels, totalChannels, name, subs, posted>>
        /\ pc[t] = "checkOccupied"
        /\ IF subs[cur[t]] = {} THEN pc'[t] = "removeSubscriber" /\ cur'[t] = cur[t]
                                ELSE pc'[t] \in {"idle", "range", "open"}
    BY <1>13, GoesTo DEF CheckOccupied, Vacant
  <2>2. channels[name[cur[t]]] = cur[t]
    BY <2>1 DEF SerialInv, Pointing
  <2> QED
    BY <2>1, <2>2, QuietStep
<1>14. CASE t \in Sockets /\ RemoveSubscriber(t)
  <2>1. /\ UNCHANGED <<channels, totalChannels, name, subs, posted>>
        /\ pc[t] = "removeSubscriber" /\ pc'[t] = "removeChannel" /\ cur'[t] = cur[t]
    BY <1>14, GoesTo DEF RemoveSubscriber
  <2>2. channels[name[cur[t]]] = cur[t] /\ subs[cur[t]] = {}
    BY <2>1 DEF SerialInv, Pointing
  <2> QED
    BY <2>1, <2>2, QuietStep
<1>15. CASE t \in Sockets /\ RemoveChannel(t)
  BY <1>15, RemoveStep
<1> QED
  BY <1>1, <1>2, <1>3, <1>5, <1>6, <1>7, <1>8, <1>9, <1>10, <1>11, <1>12, <1>13, <1>14, <1>15
     DEF Act, Request, Serve

\* Every serial step keeps it.
LEMMA SerialStep ==
    ASSUME IndInv, SerialInv, [SerialNext]_vars
    PROVE  /\ SerialInv'
           /\ [\A n \in ChannelIDs :
                channels[n] # NoChannel /\ channels'[n] = NoChannel => subs[channels[n]] = {}]_vars
<1>1. CASE UNCHANGED vars
  BY <1>1 DEF SerialInv, Alone, Attached, Pointing, PostsKnown, Occupied, Counted, Registered,
              vars, registry, objects, control
<1>2. ASSUME NEW t \in Goroutines, Act(t) PROVE SerialInv' /\ \A n \in ChannelIDs :
                channels[n] # NoChannel /\ channels'[n] = NoChannel => subs[channels[n]] = {}
  BY <1>2, ActStep
<1>3. CASE KeyExpires
  <2>1. UNCHANGED <<registry, objects, control>>
    BY <1>3 DEF KeyExpires
  <2> QED
    BY <2>1 DEF SerialInv, Alone, Attached, Pointing, PostsKnown, Occupied, Counted, Registered,
                registry, objects, control
<1> QED
  BY <1>1, <1>2, <1>3 DEF SerialNext, Act

\* Both invariants hold when requests come one after the other.
LEMMA SerialInvariance == SerialSpec => [](IndInv /\ SerialInv)
<1>1. IndInv /\ SerialInv /\ [SerialNext]_vars => (IndInv /\ SerialInv)'
  BY SerialIsNext, InvStep, SerialStep
<1> QED
  BY InitInv, SerialInit, <1>1, PTL DEF SerialSpec

\* Unsubscribe removes a channel only if it is empty (app.go:450), when no other request
\* comes between its test and the removal.
THEOREM SerialRemovesEmpty == SerialSpec => OnlyEmptyChannelsRemoved
<1>1. IndInv /\ SerialInv /\ [SerialNext]_vars =>
        [\A n \in ChannelIDs :
            channels[n] # NoChannel /\ channels'[n] = NoChannel => subs[channels[n]] = {}]_vars
  BY SerialStep
<1> QED
  BY SerialInvariance, <1>1, PTL DEF SerialSpec, OnlyEmptyChannelsRemoved

\* A session that has ended is in no channel object, the ones that have left the map
\* included: Disconnect looks for it in those of the map only.
THEOREM SerialDisconnectLeavesAll == SerialSpec => []DisconnectUnsubscribesAll
<1>1. IndInv /\ SerialInv => DisconnectUnsubscribesAll
  <2> SUFFICES ASSUME IndInv, SerialInv, NEW s \in Sockets, pc[s] = "closed",
                      NEW c \in Channels, s \in subs[c]
               PROVE  FALSE
    BY DEF DisconnectUnsubscribesAll
  <2>1. channels[name[c]] = c /\ name[c] \in Registered
    BY DEF SerialInv, Attached, IndInv, TypeOK, DataTypeOK, Registered, Channels, NoChannel
  <2>2. s \in ranging
    BY <2>1 DEF IndInv, Leaving
  <2> QED
    BY <2>2 DEF IndInv, Sessions, Unsubscribing
<1> QED
  BY SerialInvariance, <1>1, PTL

\* Between requests a channel without subscribers is listed only if a POST made it and
\* nobody has entered it: no session that leaves as the last keeps a channel in the map.
THEOREM SerialListsOccupied == SerialSpec => []EmptyOnlyByPost
<1>1. SerialInv => EmptyOnlyByPost
  BY DEF SerialInv, Occupied, EmptyOnlyByPost, Quiet, Deciding
<1> QED
  BY SerialInvariance, <1>1, PTL

\* The statistics count the channels of the map: every one counted when it is added
\* replaces none, and every one discounted when it is removed was there.
THEOREM SerialCountsChannels == SerialSpec => []TotalChannelsExact
<1>1. SerialInv => TotalChannelsExact
  BY DEF SerialInv, Counted, TotalChannelsExact
<1> QED
  BY SerialInvariance, <1>1, PTL
===============================================================================
