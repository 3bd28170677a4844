----------------------------- MODULE ClusterProofs -----------------------------
(***************************************************************************)
(* Delivery across instances, for any number of instances, sockets, events *)
(* and listeners, after any number of crashes, failed commands, lost       *)
(* events and expired keys.                                                *)
(***************************************************************************)
EXTENDS Cluster, FiniteSetTheorems, SequenceTheorems, TLAPS

Holds(q, m) == \E x \in 1 .. Len(q) : q[x] = m

\* Sockets and events have phases of their own, and an event that is published is at an
\* instance.
Apart ==
    /\ \A s \in Sockets : pc[s] \in SocketPCs
    /\ \A m \in Messages : pc[m] \in MessagePCs
    /\ \A m \in Messages : pc[m] # "new" => at[m] \in Instances

\* While a socket is connected its key names its instance, if there is one.
ConnOK ==
    \A s \in Sockets \ keyless :
        pc[s] \notin {"offline", "gone"} => redisConn[s] = Home[s]

\* Who is due an event is in the object that the map of its instance has, in Redis, and
\* not its sender.
RecordedOK ==
    \A m \in Messages : \A s \in recorded[m] :
        /\ pc[s] \in {"subscribed", "unsubscribe"} /\ s \in Local(Home[s])
        /\ s \in redisSubs /\ s # Ignore[m] /\ pc[m] # "new"

SocketInv == TypeOK /\ Apart /\ ConnOK /\ RecordedOK

-------------------------------------------------------------------------------
\* What an event added to the queue of a listener leaves in it (SendToListeners).
LEMMA HoldsAppend ==
    ASSUME NEW q \in Seq(Messages), NEW n \in Messages, NEW m
    PROVE  /\ Append(q, n) \in Seq(Messages)
           /\ Holds(Append(q, n), m) <=> m = n \/ Holds(q, m)
<1>1. /\ Append(q, n) \in Seq(Messages)
      /\ Len(Append(q, n)) = Len(q) + 1
      /\ \A x \in 1 .. Len(q) : Append(q, n)[x] = q[x]
      /\ Append(q, n)[Len(q) + 1] = n
  OBVIOUS
<1>2. Len(q) \in Nat
  OBVIOUS
<1> QED
  BY <1>1, <1>2 DEF Holds

\* What taking the oldest event off a queue leaves in it (Take).
LEMMA HoldsTail ==
    ASSUME NEW q \in Seq(Messages), q # <<>>, NEW m
    PROVE  /\ Tail(q) \in Seq(Messages)
           /\ Head(q) \in Messages
           /\ Holds(q, m) <=> m = Head(q) \/ Holds(Tail(q), m)
<1>1. /\ Tail(q) \in Seq(Messages)
      /\ Len(Tail(q)) = Len(q) - 1
      /\ \A x \in 1 .. Len(q) - 1 : Tail(q)[x] = q[x + 1]
      /\ Head(q) = q[1]
  OBVIOUS
<1>2. Len(q) \in Nat /\ Len(q) >= 1
  OBVIOUS
<1>3. ASSUME Holds(q, m), m # Head(q) PROVE Holds(Tail(q), m)
  <2>1. PICK x \in 1 .. Len(q) : q[x] = m
    BY <1>3 DEF Holds
  <2>2. x - 1 \in 1 .. Len(Tail(q)) /\ Tail(q)[x - 1] = m
    BY <1>1, <1>2, <1>3, <2>1
  <2> QED
    BY <2>2 DEF Holds
<1>4. ASSUME Holds(Tail(q), m) PROVE Holds(q, m)
  <2>1. PICK x \in 1 .. Len(Tail(q)) : Tail(q)[x] = m
    BY <1>4 DEF Holds
  <2>2. x + 1 \in 1 .. Len(q) /\ q[x + 1] = m
    BY <1>1, <1>2, <2>1
  <2> QED
    BY <2>2 DEF Holds
<1>5. Head(q) \in Messages /\ Holds(q, Head(q))
  BY <1>1, <1>2 DEF Holds
<1> QED
  BY <1>1, <1>3, <1>4, <1>5

\* What losing one event leaves in a queue (Lose): the others, in their order.
LEMMA WithoutOne ==
    ASSUME NEW q \in Seq(Messages), NEW x \in 1 .. Len(q)
    PROVE  LET r == SubSeq(q, 1, x - 1) \o SubSeq(q, x + 1, Len(q))
           IN  /\ r \in Seq(Messages) /\ Len(r) = Len(q) - 1
               /\ \A y \in 1 .. x - 1 : r[y] = q[y]
               /\ \A y \in x .. Len(q) - 1 : r[y] = q[y + 1]
<1> DEFINE a == SubSeq(q, 1, x - 1)
           b == SubSeq(q, x + 1, Len(q))
           r == a \o b
<1>0. Len(q) \in Nat /\ x \in Nat /\ x >= 1 /\ x <= Len(q)
  OBVIOUS
<1>1. /\ a \in Seq(Messages) /\ Len(a) = x - 1
      /\ \A y \in 1 .. x - 1 : a[y] = q[y]
  BY <1>0
<1>2. /\ b \in Seq(Messages) /\ Len(b) = Len(q) - x
      /\ \A y \in 1 .. Len(q) - x : b[y] = q[x + y]
  BY <1>0
<1> HIDE DEF a, b
<1>3. /\ r \in Seq(Messages) /\ Len(r) = Len(a) + Len(b)
      /\ \A y \in 1 .. Len(a) + Len(b) : r[y] = IF y <= Len(a) THEN a[y] ELSE b[y - Len(a)]
  BY <1>1, <1>2, ConcatProperties, Zenon
<1> HIDE DEF r
<1>4. Len(r) = Len(q) - 1
  BY <1>0, <1>1, <1>2, <1>3
<1>5. ASSUME NEW y \in 1 .. x - 1 PROVE r[y] = q[y]
  <2>1. y \in 1 .. Len(a) + Len(b) /\ y <= Len(a)
    BY <1>0, <1>1, <1>2
  <2> QED
    BY <1>1, <1>3, <2>1
<1>6. ASSUME NEW y \in x .. Len(q) - 1 PROVE r[y] = q[y + 1]
  <2>1. /\ y \in 1 .. Len(a) + Len(b) /\ ~(y <= Len(a))
        /\ y - Len(a) \in 1 .. Len(q) - x /\ x + (y - Len(a)) = y + 1
    BY <1>0, <1>1, <1>2
  <2> QED
    BY <1>2, <1>3, <2>1
<1> QED
  BY <1>3, <1>4, <1>5, <1>6 DEF a, b, r

\* Nothing but the event that is lost is lost from a queue (Lose).
LEMMA HoldsWithout ==
    ASSUME NEW q \in Seq(Messages), NEW x \in 1 .. Len(q), NEW m
    PROVE  LET r == SubSeq(q, 1, x - 1) \o SubSeq(q, x + 1, Len(q))
           IN  /\ r \in Seq(Messages)
               /\ Holds(r, m) => Holds(q, m)
               /\ Holds(q, m) => m = q[x] \/ Holds(r, m)
<1> DEFINE r == SubSeq(q, 1, x - 1) \o SubSeq(q, x + 1, Len(q))
<1>0. Len(q) \in Nat /\ x \in Nat /\ x >= 1 /\ x <= Len(q)
  OBVIOUS
<1>3. /\ r \in Seq(Messages) /\ Len(r) = Len(q) - 1
      /\ \A y \in 1 .. x - 1 : r[y] = q[y]
      /\ \A y \in x .. Len(q) - 1 : r[y] = q[y + 1]
  BY WithoutOne
<1> HIDE DEF r
<1>4. ASSUME Holds(r, m) PROVE Holds(q, m)
  <2>1. PICK y \in 1 .. Len(r) : r[y] = m
    BY <1>4 DEF Holds
  <2>2. CASE y <= x - 1
    BY <1>0, <1>3, <2>1, <2>2 DEF Holds
  <2>3. CASE y > x - 1
    <3>1. y + 1 \in 1 .. Len(q) /\ q[y + 1] = m
      BY <1>0, <1>3, <2>1, <2>3
    <3> QED
      BY <3>1 DEF Holds
  <2> QED
    BY <1>0, <1>3, <2>2, <2>3
<1>5. ASSUME Holds(q, m), m # q[x] PROVE Holds(r, m)
  <2>1. PICK y \in 1 .. Len(q) : q[y] = m
    BY <1>5 DEF Holds
  <2>2. CASE y < x
    BY <1>0, <1>3, <2>1, <2>2 DEF Holds
  <2>3. CASE y > x
    <3>1. y - 1 \in 1 .. Len(r) /\ r[y - 1] = m
      BY <1>0, <1>3, <2>1, <2>3
    <3> QED
      BY <3>1 DEF Holds
  <2> QED
    BY <1>0, <1>5, <2>1, <2>2, <2>3
<1> QED
  BY <1>3, <1>4, <1>5 DEF r

-------------------------------------------------------------------------------
\* No more commands fail than the bound allows.
LEMMA CommandTypes ==
    ASSUME TypeOK, NEW ok, Command(ok)
    PROVE  failures' \in 0 .. MaxFailures
BY ClusterAssumption DEF TypeOK, Command

Labels == SocketPCs \cup MessagePCs

\* Whoever is where it uses an object holds one.
HoldingOK == \A t \in Sockets \cup Messages : pc[t] \in Holding => cur[t] # NoChannel

\* Where a goroutine may go.
LEMMA GotoTypes ==
    ASSUME TypeOK, NEW t \in Sockets \cup Messages, NEW label \in Labels,
           NEW c \in {NoChannel} \cup Channels, label \in Holding => c # NoChannel,
           Goto(t, label, c)
    PROVE  /\ pc' \in [Sockets \cup Messages -> Labels]
           /\ cur' \in [Sockets \cup Messages -> {NoChannel} \cup Channels]
           /\ HoldingOK'
           /\ pc'[t] = label /\ cur'[t] = c
           /\ \A u \in Sockets \cup Messages : u # t => pc'[u] = pc[u] /\ cur'[u] = cur[u]
BY DEF TypeOK, Goto, HoldingOK, Labels

\* What looking the channel up does: it is found, or an object is made for it.
LEMMA FindOrCreateTypes ==
    ASSUME TypeOK, NEW t \in Sockets \cup Messages, NEW i \in Instances,
           NEW label \in Labels, FindOrCreate(t, i, label)
    PROVE  /\ created' \in [Instances -> {NoChannel} \cup Channels]
           /\ pc' \in [Sockets \cup Messages -> Labels]
           /\ cur' \in [Sockets \cup Messages -> {NoChannel} \cup Channels]
           /\ HoldingOK'
           /\ \/ Registered(i) /\ pc'[t] = label /\ cur'[t] = channel[i]
              \/ ~Registered(i) /\ pc'[t] = "add"
           /\ \A u \in Sockets \cup Messages : u # t => pc'[u] = pc[u] /\ cur'[u] = cur[u]
<1> USE ClusterAssumption DEF TypeOK
<1>1. CASE Registered(i) /\ Goto(t, label, channel[i]) /\ UNCHANGED created
  <2>1. channel[i] \in {NoChannel} \cup Channels /\ channel[i] # NoChannel
    BY <1>1 DEF Registered
  <2> QED
    BY <1>1, <2>1, GotoTypes
<1>2. CASE /\ ~Registered(i) /\ created[i] < MaxChannels
           /\ created' = [created EXCEPT ![i] = @ + 1]
           /\ Goto(t, "add", created'[i])
  <2>0. /\ created[i] + 1 \in Channels /\ NoChannel \notin Channels
    <3>1. created[i] \in {NoChannel} \cup Channels
      OBVIOUS
    <3> QED
      BY <1>2, <3>1 DEF NoChannel, Channels
  <2>1. created' \in [Instances -> {NoChannel} \cup Channels] /\ created'[i] = created[i] + 1
    BY <1>2, <2>0
  <2>2. created'[i] \in {NoChannel} \cup Channels /\ created'[i] # NoChannel
    BY <2>0, <2>1
  <2>3. "add" \in Labels
    BY DEF Labels, SocketPCs
  <2> QED
    BY <1>2, <2>1, <2>2, <2>3, GotoTypes
<1> QED
  BY <1>1, <1>2 DEF FindOrCreate

\* Setting up the listener, whether SUBSCRIBE succeeds.
LEMMA SetupTypes ==
    ASSUME TypeOK, NEW i \in Instances, SetupChannelPubSub(i)
    PROVE  /\ claimed' \subseteq Instances
           /\ started' \in [Instances -> 0 .. MaxListeners]
           /\ failures' \in 0 .. MaxFailures
           /\ \A j \in Instances \ {i} : started'[j] = started[j]
<1> USE ClusterAssumption DEF TypeOK, listeners
<1>1. CASE i \in claimed
  BY <1>1 DEF SetupChannelPubSub
<1>2. CASE UNCHANGED listeners /\ failures' = failures + 1 /\ failures < MaxFailures
  BY <1>2
<1>3. CASE /\ claimed' = claimed \cup {i}
           /\ started' = [started EXCEPT ![i] = @ + 1] /\ started[i] < MaxListeners
           /\ failures' = failures
  BY <1>3
<1> QED
  BY <1>1, <1>2, <1>3 DEF SetupChannelPubSub, Command

\* Delivering counts another copy for each recipient.
LEMMA DeliverTypes ==
    ASSUME TypeOK, NEW i, NEW c, NEW ignore, NEW m \in Messages, Deliver(i, c, ignore, m)
    PROVE  received' \in [Sockets -> [Messages -> Nat]]
BY DEF TypeOK, Deliver

\* Who is sent an event: those who are in the object, but the one to leave out.
LEMMA Delivered ==
    ASSUME TypeOK, NEW i \in Instances, NEW c \in Channels, NEW ignore, NEW m \in Messages,
           Deliver(i, c, ignore, m)
    PROVE  /\ \A n \in Messages \ {m}, s \in Sockets : received'[s][n] = received[s][n]
           /\ \A s \in Sockets : received'[s][m] \in {received[s][m], received[s][m] + 1}
           /\ \A s \in Sockets : Home[s] # i \/ s = ignore \/ pc[s] = "gone" =>
                received'[s][m] = received[s][m]
           /\ \A s \in subs[i][c] : s # ignore /\ pc[s] # "gone" =>
                received'[s][m] = received[s][m] + 1
           /\ \A n \in Messages, s \in Sockets : received'[s][n] >= received[s][n]
<1>1. \A s \in subs[i][c] : s \in Sockets /\ Home[s] = i
  BY DEF TypeOK
<1>2. \A s \in Sockets : received'[s] = IF s \in subs[i][c] \ {ignore} /\ pc[s] # "gone"
                THEN [received[s] EXCEPT ![m] = @ + 1] ELSE received[s]
  BY DEF Deliver
<1>3. \A s \in Sockets : received[s] \in [Messages -> Nat]
  BY DEF TypeOK
<1>4. ASSUME NEW s \in Sockets
      PROVE  /\ \A n \in Messages \ {m} : received'[s][n] = received[s][n]
             /\ received'[s][m] = IF s \in subs[i][c] \ {ignore} /\ pc[s] # "gone"
                                    THEN received[s][m] + 1 ELSE received[s][m]
             /\ received[s][m] \in Nat /\ \A n \in Messages : received[s][n] \in Nat
  BY <1>2, <1>3
<1>5. \A n \in Messages, s \in Sockets : received'[s][n] >= received[s][n]
  BY <1>4
<1> QED
  BY <1>1, <1>4, <1>5

\* Every step of a socket, an event, a listener and every failure keeps the types.
LEMMA TypeStep == TypeOK /\ Apart /\ [Next]_vars => TypeOK'
<1> SUFFICES ASSUME TypeOK, Apart, [Next]_vars PROVE TypeOK'
  OBVIOUS
<1> USE ClusterAssumption
    DEF objects, listeners, pubsub, redis, history, NoLongerDue, NoLongerFound
<1> DEFINE Control == /\ pc' \in [Sockets \cup Messages -> Labels]
                      /\ cur' \in [Sockets \cup Messages -> {NoChannel} \cup Channels]
                      /\ HoldingOK'
<1>a. /\ \A label \in SocketPCs \cup MessagePCs : label \in Labels
      /\ \A t \in Sockets \cup Messages : cur[t] \in {NoChannel} \cup Channels
      /\ \A t \in Sockets \cup Messages : pc[t] \in Holding => cur[t] # NoChannel
      /\ \A s \in Sockets : Home[s] \in Instances
      /\ NoChannel \notin Channels
  BY DEF Labels, TypeOK, NoChannel, Channels
<1>b. ASSUME NEW t \in Sockets \cup Messages, NEW label \in SocketPCs \cup MessagePCs,
             label \notin Holding, Goto(t, label, NoChannel)
      PROVE  Control
  BY <1>a, <1>b, GotoTypes
<1>c. ASSUME NEW t \in Sockets \cup Messages, NEW label \in SocketPCs \cup MessagePCs,
             pc[t] \in Holding, Goto(t, label, cur[t])
      PROVE  Control
  BY <1>a, <1>c, GotoTypes
<1>d. ASSUME UNCHANGED <<pc, cur>> PROVE Control
  BY <1>d DEF TypeOK, HoldingOK, Labels
<1>e. ASSUME Control, channel' \in [Instances -> {NoChannel} \cup Channels],
             UNCHANGED <<at, subs, created, queue, taken, redis, asked, received, earlier,
                         keyless, struck>>,
             claimed' \subseteq Instances, started' \in [Instances -> 0 .. MaxListeners],
             failures' \in 0 .. MaxFailures,
             confirmed' \in [Messages -> SUBSET Sockets],
             recorded' \in [Messages -> SUBSET Sockets]
      PROVE  TypeOK'
  BY <1>e DEF TypeOK, HoldingOK, Labels
<1>f. ASSUME Control, UNCHANGED <<channel, created, claimed, started, queue, taken, asked>>,
             at' \in [Messages -> Instances \cup {NoInstance}],
             subs' \in [Instances -> [Channels -> SUBSET Sockets]],
             \A i \in Instances, c \in Channels : \A s \in subs'[i][c] : Home[s] = i,
             redisSubs' \subseteq Sockets,
             redisConn' \in [Sockets -> Instances \cup {NoInstance}],
             received' \in [Sockets -> [Messages -> Nat]],
             failures' \in 0 .. MaxFailures,
             confirmed' \in [Messages -> SUBSET Sockets],
             recorded' \in [Messages -> SUBSET Sockets],
             earlier' \in [Messages -> SUBSET Messages],
             keyless' \subseteq Sockets, struck' \subseteq Messages
      PROVE  TypeOK'
  BY <1>f DEF TypeOK, HoldingOK, Labels
<1>g. /\ \A L \in SUBSET Sockets :
            /\ [m \in Messages |-> confirmed[m] \ L] \in [Messages -> SUBSET Sockets]
            /\ [m \in Messages |-> recorded[m] \ L] \in [Messages -> SUBSET Sockets]
      /\ \A i \in Instances : Local(i) \subseteq Sockets
  BY DEF TypeOK, Local, Registered
<1>h. ASSUME NEW t \in Sockets \cup Messages, NEW i \in Instances,
             NEW next \in {"subscribe", "deliver"}, AddChannel(t, i, next)
      PROVE  TypeOK'
  <2>1. pc[t] \in Holding /\ next \in SocketPCs \cup MessagePCs
    BY <1>h DEF AddChannel, Holding, SocketPCs, MessagePCs
  <2>2. Control
    BY <1>c, <1>h, <2>1 DEF AddChannel
  <2>3. channel' \in [Instances -> {NoChannel} \cup Channels]
    BY <1>a, <1>h DEF AddChannel, TypeOK
  <2>4. recorded' \in [Messages -> SUBSET Sockets]
    BY <1>g, <1>h DEF AddChannel
  <2>5. /\ claimed' \subseteq Instances /\ started' \in [Instances -> 0 .. MaxListeners]
        /\ failures' \in 0 .. MaxFailures
    BY <1>h, SetupTypes DEF AddChannel
  <2>6. confirmed' \in [Messages -> SUBSET Sockets]
    BY <1>h DEF AddChannel, TypeOK
  <2> QED
    BY <1>e, <1>h, <2>2, <2>3, <2>4, <2>5, <2>6 DEF AddChannel
<1>1. ASSUME NEW s \in Sockets, Connect(s) PROVE TypeOK'
  <2>1. Control
    BY <1>b, <1>1 DEF Connect, SocketPCs, Holding
  <2>2. PICK ok \in BOOLEAN :
            /\ Command(ok)
            /\ redisConn' = [redisConn EXCEPT ![s] = IF ok THEN Home[s] ELSE @]
            /\ keyless' = IF ok THEN keyless ELSE keyless \cup {s}
    BY <1>1, Zenon DEF Connect
  <2>3. failures' \in 0 .. MaxFailures
    BY <2>2, CommandTypes
  <2> QED
    BY <1>f, <1>1, <2>1, <2>2, <2>3 DEF Connect, TypeOK
<1>2. ASSUME NEW s \in Sockets, SubscribeRequest(s) PROVE TypeOK'
  <2>1. "subscribe" \in Labels
    BY <1>a DEF SocketPCs
  <2>2. FindOrCreate(s, Home[s], "subscribe")
    BY <1>2 DEF SubscribeRequest
  <2>3. Control /\ created' \in [Instances -> {NoChannel} \cup Channels]
    BY <1>a, <2>1, <2>2, FindOrCreateTypes
  <2> QED
    BY <1>2, <2>3 DEF SubscribeRequest, TypeOK, HoldingOK, Labels
<1>3. ASSUME NEW s \in Sockets, ChannelSubscribe(s) \/ ChannelUnsubscribe(s) PROVE TypeOK'
  <2>1. pc[s] \in Holding
    BY <1>3 DEF ChannelSubscribe, ChannelUnsubscribe, Holding
  <2>2. Control
    BY <1>c, <1>3, <2>1 DEF ChannelSubscribe, ChannelUnsubscribe, SocketPCs
  <2>3. /\ subs' \in [Instances -> [Channels -> SUBSET Sockets]]
        /\ \A i \in Instances, c \in Channels : \A t \in subs'[i][c] : t \in subs[i][c] \/ (t = s /\ i = Home[s])
    <3>1. cur[s] \in Channels /\ Home[s] \in Instances
      BY <1>a, <2>1
    <3>2. subs \in [Instances -> [Channels -> SUBSET Sockets]]
      BY DEF TypeOK
    <3>3. CASE subs' = [subs EXCEPT ![Home[s]][cur[s]] = @ \cup {s}]
      BY <3>1, <3>2, <3>3
    <3>4. CASE subs' = [subs EXCEPT ![Home[s]][cur[s]] = @ \ {s}]
      BY <3>1, <3>2, <3>4
    <3> QED
      BY <1>3, <3>3, <3>4 DEF ChannelSubscribe, ChannelUnsubscribe
  <2>4. \A i \in Instances, c \in Channels : \A t \in subs'[i][c] : Home[t] = i
    BY <2>3 DEF TypeOK
  <2>5. confirmed' \in [Messages -> SUBSET Sockets] /\ recorded' \in [Messages -> SUBSET Sockets]
    <3>1. CASE ChannelSubscribe(s)
      BY <3>1 DEF ChannelSubscribe, TypeOK
    <3>2. CASE ChannelUnsubscribe(s)
      <4>1. {s} \in SUBSET Sockets
        OBVIOUS
      <4> QED
        BY <1>g, <3>2, <4>1 DEF ChannelUnsubscribe
    <3> QED
      BY <1>3, <3>1, <3>2
  <2> QED
    BY <1>f, <1>3, <2>2, <2>3, <2>4, <2>5 DEF ChannelSubscribe, ChannelUnsubscribe, TypeOK
<1>4. ASSUME NEW s \in Sockets, RedisSubscribe(s) \/ RedisUnsubscribe(s) PROVE TypeOK'
  <2>1. Control
    <3>1. CASE RedisSubscribe(s)
      BY <1>b, <3>1 DEF RedisSubscribe, SocketPCs, Holding
    <3>2. CASE RedisUnsubscribe(s)
      BY <1>c, <3>2 DEF RedisUnsubscribe, SocketPCs, Holding
    <3> QED
      BY <1>4, <3>1, <3>2
  <2>2. PICK ok \in BOOLEAN :
            Command(ok) /\ redisSubs' \in {redisSubs, redisSubs \cup {s}, redisSubs \ {s}}
    BY <1>4, Zenon DEF RedisSubscribe, RedisUnsubscribe
  <2>3. failures' \in 0 .. MaxFailures
    BY <2>2, CommandTypes
  <2>4. UNCHANGED <<at, objects, listeners, pubsub, redisConn, asked, history>>
    BY <1>4 DEF RedisSubscribe, RedisUnsubscribe
  <2> QED
    BY <1>f, <2>1, <2>2, <2>3, <2>4 DEF TypeOK
<1>5. ASSUME NEW s \in Sockets, UnsubscribeRequest(s) PROVE TypeOK'
  <2>1. channel[Home[s]] \in {NoChannel} \cup Channels /\ channel[Home[s]] # NoChannel
    BY <1>a, <1>5 DEF UnsubscribeRequest, Local, Registered, TypeOK
  <2>2. "unsubscribe" \in Labels
    BY <1>a DEF SocketPCs
  <2>3. Control
    BY <1>5, <2>1, <2>2, GotoTypes DEF UnsubscribeRequest
  <2> QED
    BY <1>f, <1>5, <2>3 DEF UnsubscribeRequest, TypeOK
<1>6. ASSUME NEW s \in Sockets, CheckOccupied(s) PROVE TypeOK'
  <2>1. Control
    <3>1. CASE Goto(s, "removeSubscriber", cur[s])
      BY <1>c, <1>6, <3>1 DEF CheckOccupied, SocketPCs, Holding
    <3>2. CASE Goto(s, "up", NoChannel)
      BY <1>b, <3>2 DEF SocketPCs, Holding
    <3> QED
      BY <1>6, <3>1, <3>2 DEF CheckOccupied
  <2> QED
    BY <1>f, <1>6, <2>1 DEF CheckOccupied, TypeOK
<1>7. ASSUME NEW s \in Sockets, RemoveSubscriber(s) \/ RemoveChannel(s) PROVE TypeOK'
  <2>1. Control
    <3>1. CASE RemoveSubscriber(s)
      BY <1>c, <3>1 DEF RemoveSubscriber, SocketPCs, Holding
    <3>2. CASE RemoveChannel(s)
      BY <1>b, <3>2 DEF RemoveChannel, SocketPCs, Holding
    <3> QED
      BY <1>7, <3>1, <3>2
  <2>2. channel' \in [Instances -> {NoChannel} \cup Channels]
    BY <1>7 DEF RemoveSubscriber, RemoveChannel, TypeOK
  <2>3. /\ recorded' \in [Messages -> SUBSET Sockets]
        /\ claimed' \subseteq Instances
    BY <1>a, <1>g, <1>7 DEF RemoveSubscriber, RemoveChannel, TypeOK
  <2>4. /\ started' \in [Instances -> 0 .. MaxListeners] /\ failures' \in 0 .. MaxFailures
        /\ confirmed' \in [Messages -> SUBSET Sockets]
    BY <1>7 DEF RemoveSubscriber, RemoveChannel, TypeOK
  <2> QED
    BY <1>e, <1>7, <2>1, <2>2, <2>3, <2>4 DEF RemoveSubscriber, RemoveChannel
<1>8. ASSUME NEW s \in Sockets, Unregister(s) PROVE TypeOK'
  <2>1. Control
    BY <1>b, <1>8 DEF Unregister, SocketPCs, Holding
  <2>2. failures' \in 0 .. MaxFailures
    BY <1>8, CommandTypes DEF Unregister
  <2>3. redisConn' \in [Sockets -> Instances \cup {NoInstance}]
    BY <1>8 DEF Unregister, TypeOK
  <2> QED
    BY <1>f, <1>8, <2>1, <2>2, <2>3 DEF Unregister, TypeOK
<1>9. ASSUME NEW s \in Sockets, Expire(s) PROVE TypeOK'
  <2>1. redisConn' \in [Sockets -> Instances \cup {NoInstance}] /\ keyless' \subseteq Sockets
    BY <1>9 DEF Expire, TypeOK
  <2> QED
    BY <1>d, <1>f, <1>9, <2>1 DEF Expire, TypeOK
<1>10. ASSUME ExpireSubscriptions PROVE TypeOK'
  <2>1. redisSubs \subseteq Sockets
    BY DEF TypeOK
  <2>2. /\ confirmed' \in [Messages -> SUBSET Sockets] /\ recorded' \in [Messages -> SUBSET Sockets]
        /\ redisSubs' \subseteq Sockets
    BY <1>g, <1>10, <2>1 DEF ExpireSubscriptions
  <2> QED
    BY <1>d, <1>f, <1>10, <2>2 DEF ExpireSubscriptions, TypeOK
<1>11. ASSUME NEW m \in Messages, NEW i \in At[m], PublishRequest(m, i) PROVE TypeOK'
  <2>1. i \in Instances /\ "deliver" \in Labels
    BY <1>a DEF MessagePCs
  <2>2. FindOrCreate(m, i, "deliver")
    BY <1>11 DEF PublishRequest
  <2>3. Control /\ created' \in [Instances -> {NoChannel} \cup Channels]
    BY <2>1, <2>2, FindOrCreateTypes
  <2>4. /\ at' \in [Messages -> Instances \cup {NoInstance}]
        /\ confirmed' \in [Messages -> SUBSET Sockets]
        /\ recorded' \in [Messages -> SUBSET Sockets]
        /\ earlier' \in [Messages -> SUBSET Messages]
    BY <1>11, <2>1 DEF PublishRequest, TypeOK
  <2> QED
    BY <1>11, <2>3, <2>4 DEF PublishRequest, TypeOK, HoldingOK, Labels
<1>12. ASSUME NEW m \in Messages, PublishLocal(m) PROVE TypeOK'
  <2>1. Control
    BY <1>b, <1>12 DEF PublishLocal, MessagePCs, Holding
  <2>2. received' \in [Sockets -> [Messages -> Nat]]
    BY <1>12, DeliverTypes DEF PublishLocal
  <2> QED
    BY <1>f, <1>12, <2>1, <2>2 DEF PublishLocal, TypeOK
<1>13. ASSUME NEW m \in Messages, Control, failures' \in 0 .. MaxFailures,
              struck' \subseteq Messages, asked' \in [Messages -> SUBSET Sockets],
              queue' \in [Instances -> [Slots -> Seq(Messages)]],
              UNCHANGED <<at, objects, listeners, taken, redis, received, confirmed, recorded,
                          earlier, keyless>>
       PROVE  TypeOK'
  BY <1>13 DEF TypeOK, HoldingOK, Labels
<1>14. ASSUME NEW m \in Messages, GetChannelSubscriptions(m) PROVE TypeOK'
  <2>1. PICK ok \in BOOLEAN :
            /\ Command(ok)
            /\ Strike(ok, m)
            /\ asked' = [asked EXCEPT ![m] = IF ok THEN redisSubs ELSE {}]
            /\ Goto(m, IF ok THEN "lookup" ELSE "done", NoChannel)
    BY <1>14, Zenon DEF GetChannelSubscriptions
  <2>2. Control
    <3>1. (IF ok THEN "lookup" ELSE "done") \in MessagePCs \ Holding
      BY DEF MessagePCs, Holding
    <3> QED
      BY <1>b, <2>1, <3>1
  <2>3. failures' \in 0 .. MaxFailures
    BY <2>1, CommandTypes
  <2>4. struck' \subseteq Messages /\ asked' \in [Messages -> SUBSET Sockets]
    BY <2>1 DEF Strike, TypeOK
  <2>5. queue' \in [Instances -> [Slots -> Seq(Messages)]]
    BY <1>14 DEF GetChannelSubscriptions, TypeOK
  <2> QED
    BY <1>13, <1>14, <2>2, <2>3, <2>4, <2>5 DEF GetChannelSubscriptions
<1>15. ASSUME NEW m \in Messages, NEW s \in Sockets, GetConnectionInstance(m, s) PROVE TypeOK'
  <2>1. PICK ok \in BOOLEAN :
            /\ Command(ok)
            /\ Strike(ok, m)
            /\ asked' = [asked EXCEPT ![m] = IF ok /\ Remote(m, s) THEN {} ELSE @ \ {s}]
            /\ IF ok /\ Remote(m, s) THEN Goto(m, "publish", NoChannel)
                                     ELSE UNCHANGED <<pc, cur>>
    BY <1>15, Zenon DEF GetConnectionInstance
  <2>2. failures' \in 0 .. MaxFailures
    BY <2>1, CommandTypes
  <2>3. asked' \in [Messages -> SUBSET Sockets] /\ struck' \subseteq Messages
    BY <2>1 DEF Strike, TypeOK
  <2>4. Control
    <3>1. "publish" \in MessagePCs \ Holding
      BY DEF MessagePCs, Holding
    <3> QED
      BY <1>b, <1>d, <2>1, <3>1
  <2>5. queue' \in [Instances -> [Slots -> Seq(Messages)]]
    BY <1>15 DEF GetConnectionInstance, TypeOK
  <2> QED
    BY <1>13, <1>15, <2>2, <2>3, <2>4, <2>5 DEF GetConnectionInstance
<1>16. ASSUME NEW m \in Messages, NoRemoteSubscriber(m) PROVE TypeOK'
  <2>1. Control
    BY <1>b, <1>16 DEF NoRemoteSubscriber, MessagePCs, Holding
  <2> QED
    BY <1>f, <1>16, <2>1 DEF NoRemoteSubscriber, TypeOK
<1>17. ASSUME NEW m \in Messages, PublishEvent(m) PROVE TypeOK'
  <2>1. PICK ok \in BOOLEAN :
            /\ Command(ok)
            /\ Strike(ok, m)
            /\ IF ok THEN SendToListeners(m) ELSE UNCHANGED queue
    BY <1>17, Zenon DEF PublishEvent
  <2>2. queue' \in [Instances -> [Slots -> Seq(Messages)]]
    <3>1. CASE SendToListeners(m)
      <4>1. \A i \in Instances, k \in Slots :
                queue[i][k] \in Seq(Messages) /\ Append(queue[i][k], m) \in Seq(Messages)
        BY HoldsAppend DEF TypeOK
      <4> QED
        BY <3>1, <4>1 DEF SendToListeners
    <3>2. CASE UNCHANGED queue
      BY <3>2 DEF TypeOK
    <3> QED
      BY <2>1, <3>1, <3>2
  <2>3. Control
    BY <1>b, <1>17 DEF PublishEvent, MessagePCs, Holding
  <2>4. failures' \in 0 .. MaxFailures /\ struck' \subseteq Messages
    BY <2>1, CommandTypes DEF Strike, TypeOK
  <2>5. asked' \in [Messages -> SUBSET Sockets]
    BY <1>17 DEF PublishEvent, TypeOK
  <2> QED
    BY <1>13, <1>17, <2>2, <2>3, <2>4, <2>5 DEF PublishEvent
<1>18. ASSUME UNCHANGED <<pc, at, cur, objects, listeners, redis, asked, confirmed, recorded,
                          earlier, keyless>>,
              failures' \in 0 .. MaxFailures, struck' \subseteq Messages,
              received' \in [Sockets -> [Messages -> Nat]],
              queue' \in [Instances -> [Slots -> Seq(Messages)]],
              taken' \in [Instances -> [Slots -> Handled \cup {Nothing}]]
       PROVE  TypeOK'
  BY <1>18 DEF TypeOK
<1>19. ASSUME NEW i \in Instances, NEW k \in Slots, Take(i, k) PROVE TypeOK'
  <2> DEFINE m == Head(queue[i][k])
  <2>1. queue[i][k] \in Seq(Messages) /\ Tail(queue[i][k]) \in Seq(Messages) /\ m \in Messages
    BY <1>19, HoldsTail DEF Take, TypeOK
  <2>2. PICK ok \in BOOLEAN :
            /\ Command(ok)
            /\ Strike(ok, m)
            /\ taken' = [taken EXCEPT ![i][k] =
                 IF ~Registered(i) THEN Nothing
                 ELSE [msg |-> m, channel |-> channel[i],
                       ignore |-> IF ok THEN IgnoreOn(i, m) ELSE NoSocket]]
    BY <1>19, Zenon DEF Take
  <2>3. queue' \in [Instances -> [Slots -> Seq(Messages)]]
    BY <1>19, <2>1 DEF Take, TypeOK
  <2> HIDE DEF m
  <2>4. IgnoreOn(i, m) \in Sockets \cup {NoSocket}
    BY <2>1 DEF IgnoreOn
  <2>5. Registered(i) => channel[i] \in Channels
    BY DEF Registered, TypeOK
  <2>6. taken' \in [Instances -> [Slots -> Handled \cup {Nothing}]]
    BY <2>1, <2>2, <2>4, <2>5 DEF Handled, TypeOK
  <2>7. failures' \in 0 .. MaxFailures /\ struck' \subseteq Messages
    BY <2>1, <2>2, CommandTypes DEF Strike, TypeOK
  <2>8. received' \in [Sockets -> [Messages -> Nat]]
    BY <1>19 DEF Take, TypeOK
  <2> QED
    BY <1>18, <1>19, <2>3, <2>6, <2>7, <2>8 DEF Take
<1>20. ASSUME NEW i \in Instances, NEW k \in Slots, DeliverTaken(i, k) PROVE TypeOK'
  <2>1. taken[i][k].msg \in Messages
    BY <1>20 DEF DeliverTaken, Handled, TypeOK
  <2>2. received' \in [Sockets -> [Messages -> Nat]]
    BY <1>20, <2>1, DeliverTypes DEF DeliverTaken
  <2>3. taken' \in [Instances -> [Slots -> Handled \cup {Nothing}]]
    BY <1>20 DEF DeliverTaken, TypeOK
  <2> QED
    BY <1>18, <1>20, <2>2, <2>3 DEF DeliverTaken, TypeOK
<1>21. ASSUME NEW i \in Instances, NEW k \in Slots, Lose(i, k) PROVE TypeOK'
  <2>1. PICK x \in 1 .. Len(queue[i][k]) :
            /\ queue' = [queue EXCEPT ![i][k] = SubSeq(@, 1, x - 1) \o SubSeq(@, x + 1, Len(@))]
            /\ Strike(FALSE, queue[i][k][x])
    BY <1>21 DEF Lose
  <2>2. queue[i][k] \in Seq(Messages) /\ queue[i][k][x] \in Messages
    BY DEF TypeOK
  <2>3. queue' \in [Instances -> [Slots -> Seq(Messages)]]
    BY <2>1, <2>2, HoldsWithout DEF TypeOK
  <2>4. failures' \in 0 .. MaxFailures /\ struck' \subseteq Messages
    BY <1>21, <2>1, <2>2, CommandTypes DEF Lose, Strike, TypeOK
  <2> QED
    BY <1>18, <1>21, <2>3, <2>4 DEF Lose, TypeOK
<1>22. ASSUME NEW i \in Instances, Crash(i) PROVE TypeOK'
  <2>1. failures' \in 0 .. MaxFailures
    BY <1>22, CommandTypes DEF Crash
  <2>2. queue' \in [Instances -> [Slots -> Seq(Messages)]]
    BY <1>22 DEF Crash, TypeOK
  <2>3. Control
    <3>1. "gone" \in Labels \ Holding /\ "lost" \in Labels \ Holding
      BY DEF Labels, SocketPCs, MessagePCs, Holding
    <3> QED
      BY <1>22, <3>1 DEF Crash, TypeOK, HoldingOK, Labels
  <2>4. /\ subs' \in [Instances -> [Channels -> SUBSET Sockets]]
        /\ \A j \in Instances, c \in Channels : \A s \in subs'[j][c] : Home[s] = j
        /\ channel' \in [Instances -> {NoChannel} \cup Channels]
        /\ created' \in [Instances -> {NoChannel} \cup Channels]
    BY <1>22 DEF Crash, TypeOK
  <2>5. /\ claimed' \subseteq Instances
        /\ started' \in [Instances -> 0 .. MaxListeners]
        /\ taken' \in [Instances -> [Slots -> Handled \cup {Nothing}]]
        /\ asked' \in [Messages -> SUBSET Sockets]
    BY <1>22 DEF Crash, TypeOK
  <2>6. confirmed' \in [Messages -> SUBSET Sockets] /\ recorded' \in [Messages -> SUBSET Sockets]
    BY <1>g, <1>22 DEF Crash
  <2> QED
    BY <1>22, <2>1, <2>2, <2>3, <2>4, <2>5, <2>6 DEF Crash, TypeOK, HoldingOK, Labels
<1>23. CASE UNCHANGED vars
  BY <1>23 DEF vars, TypeOK
<1>24. ASSUME NEW s \in Sockets, SocketStep(s) PROVE TypeOK'
  BY <1>a, <1>h, <1>1, <1>2, <1>3, <1>4, <1>5, <1>6, <1>7, <1>8, <1>24 DEF SocketStep
<1>25. ASSUME NEW m \in Messages, PublishStep(m) PROVE TypeOK'
  <2>1. CASE AddChannel(m, at[m], "deliver")
    <3>1. at[m] \in Instances
      BY <2>1 DEF AddChannel, Apart
    <3> QED
      BY <1>h, <2>1, <3>1
  <2> QED
    BY <1>12, <1>14, <1>15, <1>16, <1>17, <1>25, <2>1 DEF PublishStep
<1> QED
  BY <1>9, <1>10, <1>11, <1>19, <1>20, <1>21, <1>22, <1>23, <1>24, <1>25
     DEF Next, ListenerStep

-------------------------------------------------------------------------------
\* The initial states satisfy it.
LEMMA SocketInit == Init => SocketInv
<1> SUFFICES ASSUME Init PROVE SocketInv
  OBVIOUS
<1> USE ClusterAssumption DEF Init, SocketPCs, MessagePCs
<1>1. TypeOK
  <2>1. queue \in [Instances -> [Slots -> Seq(Messages)]]
    OBVIOUS
  <2> QED
    BY <2>1 DEF TypeOK, Holding
<1>2. Apart /\ ConnOK /\ RecordedOK
  BY DEF Apart, ConnOK, RecordedOK
<1> QED
  BY <1>1, <1>2 DEF SocketInv

\* Who is still due an event after the map entry of an instance has changed is connected
\* to another instance.
LEMMA ReplaceKeeps ==
    ASSUME SocketInv, NEW i \in Instances, NEW c,
           channel' = [channel EXCEPT ![i] = c], UNCHANGED subs, NoLongerFound(i)
    PROVE  \A m \in Messages : \A s \in recorded'[m] :
             /\ s \in recorded[m] /\ Home[s] # i
             /\ channel'[Home[s]] = channel[Home[s]]
             /\ (s \in Local(Home[s]))'
<1> SUFFICES ASSUME NEW m \in Messages, NEW s \in recorded'[m]
             PROVE  /\ s \in recorded[m] /\ Home[s] # i
                    /\ channel'[Home[s]] = channel[Home[s]]
                    /\ (s \in Local(Home[s]))'
  OBVIOUS
<1>1. s \in recorded[m] \ Local(i)
  BY DEF NoLongerFound
<1>2. s \in Local(Home[s]) /\ Home[s] \in Instances
  BY <1>1, ClusterAssumption DEF SocketInv, RecordedOK, TypeOK
<1>3. Home[s] # i
  BY <1>1, <1>2
<1>4. channel'[Home[s]] = channel[Home[s]]
  BY <1>2, <1>3 DEF SocketInv, TypeOK
<1> QED
  BY <1>1, <1>2, <1>3, <1>4 DEF Local, Registered

\* A step that takes nobody whom an event is due out of the map, out of Redis or off its
\* way keeps it.
LEMMA SocketQuietStep ==
    ASSUME SocketInv, UNCHANGED at,
           \A s \in Sockets : /\ pc'[s] \in SocketPCs
                              /\ s \notin keyless' => s \notin keyless
                              /\ pc'[s] \notin {"offline", "gone"} /\ s \notin keyless' =>
                                    redisConn'[s] = Home[s],
           \A m \in Messages : pc'[m] \in MessagePCs /\ (pc[m] = "new" <=> pc'[m] = "new"),
           \A m \in Messages : \A s \in recorded'[m] :
                /\ s \in recorded[m] /\ pc'[s] \in {"subscribed", "unsubscribe"}
                /\ s \in redisSubs' /\ (s \in Local(Home[s]))'
    PROVE  (Apart /\ ConnOK /\ RecordedOK)'
<1>1. Apart'
  BY DEF SocketInv, Apart
<1>2. ConnOK'
  BY DEF ConnOK
<1>3. RecordedOK'
  BY DEF SocketInv, RecordedOK
<1> QED
  BY <1>1, <1>2, <1>3

\* Every step of a socket, an event or a listener and every failure keeps it.
LEMMA SocketInvStep == SocketInv /\ [Next]_vars => SocketInv'
<1> SUFFICES ASSUME SocketInv, [Next]_vars PROVE (Apart /\ ConnOK /\ RecordedOK)'
  BY TypeStep DEF SocketInv
<1> DEFINE Inv == Apart /\ ConnOK /\ RecordedOK
<1> USE ClusterAssumption DEF objects, listeners, pubsub, redis, history
<1>a. /\ TypeOK /\ Apart /\ ConnOK /\ RecordedOK
      /\ pc \in [Sockets \cup Messages -> Labels]
      /\ \A s \in Sockets : Home[s] \in Instances /\ s \notin Messages
      /\ recorded \in [Messages -> SUBSET Sockets]
      /\ subs \in [Instances -> [Channels -> SUBSET Sockets]]
      /\ channel \in [Instances -> {NoChannel} \cup Channels]
      /\ NoChannel \notin Channels
  BY DEF SocketInv, TypeOK, Labels, NoChannel, Channels
<1>b. ASSUME UNCHANGED <<channel, subs>> PROVE \A i \in Instances : Local(i)' = Local(i)
  BY <1>b DEF Local, Registered
\* A socket goes on from where nothing is due to it, or from one phase of membership to
\* the next.
<1>c. ASSUME NEW s \in Sockets, NEW label \in SocketPCs \ {"offline"}, NEW c,
             Goto(s, label, c), UNCHANGED <<at, keyless>>,
             label # "gone" => pc[s] \notin {"offline", "gone"} /\ UNCHANGED redisConn,
             \A t \in Sockets \ {s} : redisConn'[t] = redisConn[t],
             \/ label \in {"subscribed", "unsubscribe"} /\ s \in redisSubs'
             \/ \A m \in Messages : s \notin recorded'[m],
             \A m \in Messages : \A t \in recorded'[m] :
                 t \in recorded[m] /\ (t # s => t \in redisSubs') /\ (t \in Local(Home[t]))'
      PROVE  Inv'
  <2>1. \A t \in Sockets : pc'[t] = IF t = s THEN label ELSE pc[t]
    BY <1>a, <1>c DEF Goto
  <2>2. \A m \in Messages : pc'[m] = pc[m]
    BY <1>a, <1>c DEF Goto
  <2>3. ASSUME NEW t \in Sockets
        PROVE  /\ pc'[t] \in SocketPCs
               /\ t \notin keyless' => t \notin keyless
               /\ pc'[t] \notin {"offline", "gone"} /\ t \notin keyless' =>
                    redisConn'[t] = Home[t]
    BY <1>a, <1>c, <2>1 DEF Apart, ConnOK
  <2>4. ASSUME NEW m \in Messages, NEW t \in recorded'[m]
        PROVE  /\ t \in recorded[m] /\ pc'[t] \in {"subscribed", "unsubscribe"}
               /\ t \in redisSubs' /\ (t \in Local(Home[t]))'
    <3>1. t \in recorded[m] /\ t \in Sockets /\ pc[t] \in {"subscribed", "unsubscribe"}
      BY <1>a, <1>c DEF RecordedOK
    <3>2. CASE t = s
      BY <1>c, <2>1, <3>1, <3>2
    <3>3. CASE t # s
      BY <1>c, <2>1, <3>1, <3>3
    <3> QED
      BY <3>2, <3>3
  <2>5. \A m \in Messages : pc'[m] \in MessagePCs /\ (pc[m] = "new" <=> pc'[m] = "new")
    BY <1>a, <2>2 DEF Apart
  <2> QED
    BY <1>c, <2>3, <2>4, <2>5, SocketQuietStep
<1>d. ASSUME NEW s \in Sockets, pc[s] \notin {"subscribed", "unsubscribe"}
      PROVE  \A m \in Messages : s \notin recorded[m]
  BY <1>a, <1>d DEF RecordedOK
<1>e. \A m \in Messages : \A s \in recorded[m] :
        s \in Sockets /\ Home[s] \in Instances /\ s \in redisSubs /\ s \in Local(Home[s])
  BY <1>a DEF RecordedOK
<1>1. ASSUME NEW s \in Sockets, Connect(s) PROVE Inv'
  <2>1. PICK ok \in BOOLEAN :
            /\ redisConn' = [redisConn EXCEPT ![s] = IF ok THEN Home[s] ELSE @]
            /\ keyless' = IF ok THEN keyless ELSE keyless \cup {s}
    BY <1>1, Zenon DEF Connect
  <2>2. /\ pc[s] = "offline" /\ UNCHANGED <<at, recorded, redisSubs, channel, subs>>
        /\ \A t \in Sockets : pc'[t] = IF t = s THEN "up" ELSE pc[t]
        /\ \A m \in Messages : pc'[m] = pc[m]
    BY <1>1, <1>a DEF Connect, Goto
  <2>3. ASSUME NEW t \in Sockets
        PROVE  /\ pc'[t] \in SocketPCs
               /\ t \notin keyless' => t \notin keyless
               /\ pc'[t] \notin {"offline", "gone"} /\ t \notin keyless' =>
                    redisConn'[t] = Home[t]
    <3>1. redisConn'[t] = IF t = s /\ ok THEN Home[s] ELSE redisConn[t]
      BY <1>a, <2>1 DEF TypeOK
    <3> QED
      BY <1>a, <2>1, <2>2, <3>1 DEF Apart, ConnOK, SocketPCs
  <2>4. \A m \in Messages : pc'[m] \in MessagePCs /\ (pc[m] = "new" <=> pc'[m] = "new")
    BY <1>a, <2>2 DEF Apart
  <2>5. \A m \in Messages : \A t \in recorded'[m] :
                /\ t \in recorded[m] /\ pc'[t] \in {"subscribed", "unsubscribe"}
                /\ t \in redisSubs' /\ (t \in Local(Home[t]))'
    BY <1>a, <1>b, <1>e, <2>2 DEF RecordedOK
  <2> QED
    BY <2>2, <2>3, <2>4, <2>5, SocketQuietStep
<1>2. ASSUME NEW s \in Sockets, SubscribeRequest(s) PROVE Inv'
  <2>1. \E label \in SocketPCs \ {"offline", "gone"} : \E c : Goto(s, label, c)
    BY <1>2 DEF SubscribeRequest, FindOrCreate, SocketPCs
  <2> QED
    BY <1>2, <1>b, <1>c, <1>d, <1>e, <2>1 DEF SubscribeRequest
<1>3. ASSUME NEW s \in Sockets, AddChannel(s, Home[s], "subscribe") PROVE Inv'
  <2>1. \A m \in Messages : \A t \in recorded'[m] :
            t \in recorded[m] /\ (t \in Local(Home[t]))'
    BY <1>3, <1>a, ReplaceKeeps DEF AddChannel
  <2> QED
    BY <1>3, <1>c, <1>d, <1>e, <2>1 DEF AddChannel, SocketPCs
<1>4. ASSUME NEW s \in Sockets, ChannelSubscribe(s) PROVE Inv'
  <2>1. \A i \in Instances : Local(i) \subseteq Local(i)'
    BY <1>4, <1>a DEF ChannelSubscribe, Local, Registered
  <2> QED
    BY <1>4, <1>c, <1>d, <1>e, <2>1 DEF ChannelSubscribe, SocketPCs
<1>5. ASSUME NEW s \in Sockets, RedisSubscribe(s) PROVE Inv'
  <2>1. redisSubs \subseteq redisSubs'
    BY <1>5 DEF RedisSubscribe
  <2> QED
    BY <1>5, <1>b, <1>c, <1>d, <1>e, <2>1 DEF RedisSubscribe, SocketPCs
<1>6. ASSUME NEW s \in Sockets, UnsubscribeRequest(s) PROVE Inv'
  <2>1. s \in redisSubs \/ \A m \in Messages : s \notin recorded[m]
    BY <1>e
  <2> QED
    BY <1>6, <1>b, <1>c, <1>e, <2>1 DEF UnsubscribeRequest, SocketPCs
<1>7. ASSUME NEW s \in Sockets, ChannelUnsubscribe(s) PROVE Inv'
  <2>1. \A m \in Messages : recorded'[m] = recorded[m] \ {s}
    BY <1>7 DEF ChannelUnsubscribe, NoLongerDue
  <2>2. \A i \in Instances : Local(i) \ {s} \subseteq Local(i)'
    BY <1>7, <1>a DEF ChannelUnsubscribe, Local, Registered
  <2> QED
    BY <1>7, <1>c, <1>e, <2>1, <2>2 DEF ChannelUnsubscribe, SocketPCs
<1>8. ASSUME NEW s \in Sockets, RedisUnsubscribe(s) PROVE Inv'
  <2>1. redisSubs \ {s} \subseteq redisSubs'
    BY <1>8 DEF RedisUnsubscribe
  <2> QED
    BY <1>8, <1>b, <1>c, <1>d, <1>e, <2>1 DEF RedisUnsubscribe, SocketPCs
<1>9. ASSUME NEW s \in Sockets, CheckOccupied(s) \/ RemoveSubscriber(s) PROVE Inv'
  <2>1. \E label \in SocketPCs \ {"offline", "gone"} : \E c : Goto(s, label, c)
    BY <1>9 DEF CheckOccupied, RemoveSubscriber, SocketPCs
  <2>2. /\ pc[s] \in {"checkOccupied", "removeSubscriber"}
        /\ UNCHANGED <<at, channel, subs, redis, history>>
    BY <1>9 DEF CheckOccupied, RemoveSubscriber
  <2> QED
    BY <1>b, <1>c, <1>d, <1>e, <2>1, <2>2
<1>10. ASSUME NEW s \in Sockets, RemoveChannel(s) PROVE Inv'
  <2>1. \A m \in Messages : \A t \in recorded'[m] :
            t \in recorded[m] /\ (t \in Local(Home[t]))'
    BY <1>10, <1>a, ReplaceKeeps DEF RemoveChannel
  <2> QED
    BY <1>10, <1>c, <1>d, <1>e, <2>1 DEF RemoveChannel, SocketPCs
<1>11. ASSUME NEW s \in Sockets, Unregister(s) PROVE Inv'
  <2>1. \A t \in Sockets \ {s} : redisConn'[t] = redisConn[t]
    BY <1>11, <1>a DEF Unregister, TypeOK
  <2>2. \A m \in Messages : s \notin recorded[m]
    BY <1>11, <1>e DEF Unregister
  <2>3. UNCHANGED <<channel, subs, recorded, keyless, at, redisSubs>> /\ Goto(s, "gone", NoChannel)
    BY <1>11 DEF Unregister
  <2> QED
    BY <1>b, <1>c, <1>e, <2>1, <2>2, <2>3 DEF SocketPCs
<1>12. ASSUME UNCHANGED <<pc, at, channel, subs>>, keyless \subseteq keyless',
              \A t \in Sockets \ keyless' : redisConn'[t] = redisConn[t],
              \A m \in Messages : recorded'[m] \subseteq recorded[m] \cap redisSubs'
       PROVE  Inv'
  <2>1. \A t \in Sockets :
          /\ pc'[t] \in SocketPCs
          /\ t \notin keyless' => t \notin keyless
          /\ pc'[t] \notin {"offline", "gone"} /\ t \notin keyless' => redisConn'[t] = Home[t]
    BY <1>12, <1>a DEF Apart, ConnOK
  <2>2. \A m \in Messages : pc'[m] \in MessagePCs /\ (pc[m] = "new" <=> pc'[m] = "new")
    BY <1>12, <1>a DEF Apart
  <2>3. \A m \in Messages : \A t \in recorded'[m] :
                /\ t \in recorded[m] /\ pc'[t] \in {"subscribed", "unsubscribe"}
                /\ t \in redisSubs' /\ (t \in Local(Home[t]))'
    BY <1>12, <1>a, <1>b, <1>e DEF RecordedOK
  <2> QED
    BY <1>12, <2>1, <2>2, <2>3, SocketQuietStep
<1>13. ASSUME NEW s \in Sockets, Expire(s) PROVE Inv'
  <2>1. \A t \in Sockets \ keyless' : redisConn'[t] = redisConn[t]
    BY <1>13, <1>a DEF Expire, TypeOK
  <2> QED
    BY <1>12, <1>13, <1>e, <2>1 DEF Expire
<1>14. ASSUME ExpireSubscriptions PROVE Inv'
  <2>1. \A m \in Messages : recorded'[m] = recorded[m] \ redisSubs
    BY <1>14 DEF ExpireSubscriptions, NoLongerDue
  <2>2. \A m \in Messages : recorded'[m] = {}
    BY <1>e, <2>1
  <2> QED
    BY <1>12, <1>14, <2>2 DEF ExpireSubscriptions
<1>15. ASSUME NEW m \in Messages, NEW i \in At[m], PublishRequest(m, i) PROVE Inv'
  <2>0. i \in Instances
    OBVIOUS
  <2>1. /\ \A s \in Sockets : pc'[s] = pc[s]
        /\ \A n \in Messages \ {m} : pc'[n] = pc[n] /\ at'[n] = at[n]
        /\ pc'[m] \in {"add", "deliver"} /\ at'[m] = i /\ pc[m] = "new"
    <3>1. \E label \in {"add", "deliver"} : \E c : Goto(m, label, c)
      BY <1>15 DEF PublishRequest, FindOrCreate
    <3> QED
      BY <1>15, <1>a, <3>1 DEF PublishRequest, Goto, TypeOK
  <2>2. \A s \in recorded'[m] :
            /\ pc[s] = "subscribed" /\ s \in redisSubs /\ s # Ignore[m] /\ s \in Local(Home[s])
            /\ s \in Sockets
    BY <1>15, <1>a DEF PublishRequest, TypeOK
  <2>3. \A n \in Messages \ {m} : recorded'[n] = recorded[n]
    BY <1>15, <1>a DEF PublishRequest
  <2>4. UNCHANGED <<channel, subs, redis, keyless>>
    BY <1>15 DEF PublishRequest
  <2>5. Apart'
    BY <1>a, <2>0, <2>1 DEF Apart, MessagePCs
  <2>6. ConnOK'
    BY <1>a, <2>1, <2>4 DEF ConnOK
  <2>7. ASSUME NEW n \in Messages, NEW s \in recorded'[n]
        PROVE  /\ pc'[s] \in {"subscribed", "unsubscribe"} /\ (s \in Local(Home[s]))'
               /\ s \in redisSubs' /\ s # Ignore[n] /\ pc'[n] # "new"
    <3>1. CASE n = m
      BY <1>a, <1>b, <2>1, <2>2, <2>4, <3>1
    <3>2. CASE n # m
      <4>1. s \in recorded[n]
        BY <2>3, <3>2
      <4> QED
        BY <1>a, <1>b, <1>e, <2>1, <2>4, <3>2, <4>1 DEF RecordedOK
    <3> QED
      BY <3>1, <3>2
  <2> QED
    BY <2>5, <2>6, <2>7 DEF RecordedOK
<1>16. ASSUME NEW m \in Messages, UNCHANGED <<at, redis, keyless>>, pc[m] # "new",
              \/ UNCHANGED pc
              \/ \E label \in MessagePCs \ {"new"} : \E c : Goto(m, label, c),
              \A n \in Messages : \A t \in recorded'[n] :
                    t \in recorded[n] /\ (t \in Local(Home[t]))'
       PROVE  Inv'
  <2>1. \A s \in Sockets : pc'[s] = pc[s]
    BY <1>16, <1>a DEF Goto
  <2>2. \A n \in Messages : pc'[n] \in MessagePCs /\ (pc[n] = "new" <=> pc'[n] = "new")
    BY <1>16, <1>a DEF Goto, Apart
  <2>3. \A t \in Sockets :
          /\ pc'[t] \in SocketPCs
          /\ t \notin keyless' => t \notin keyless
          /\ pc'[t] \notin {"offline", "gone"} /\ t \notin keyless' => redisConn'[t] = Home[t]
    BY <1>16, <1>a, <2>1 DEF Apart, ConnOK
  <2>4. \A n \in Messages : \A t \in recorded'[n] :
                /\ t \in recorded[n] /\ pc'[t] \in {"subscribed", "unsubscribe"}
                /\ t \in redisSubs' /\ (t \in Local(Home[t]))'
    BY <1>16, <1>a, <1>e, <2>1 DEF RecordedOK
  <2> QED
    BY <1>16, <2>2, <2>3, <2>4, SocketQuietStep
<1>17. ASSUME NEW m \in Messages, PublishStep(m) PROVE Inv'
  <2>1. pc[m] # "new"
    BY <1>17 DEF PublishStep, AddChannel, PublishLocal, GetChannelSubscriptions,
                 GetConnectionInstance, NoRemoteSubscriber, PublishEvent
  <2>2. CASE AddChannel(m, at[m], "deliver")
    <3>1. at[m] \in Instances
      BY <1>a, <2>1 DEF Apart
    <3>2. \A n \in Messages : \A t \in recorded'[n] :
            t \in recorded[n] /\ (t \in Local(Home[t]))'
      BY <2>2, <3>1, ReplaceKeeps DEF AddChannel
    <3> QED
      BY <1>16, <2>1, <2>2, <3>2 DEF AddChannel, MessagePCs
  <2>3. ASSUME UNCHANGED <<channel, subs, recorded>>
        PROVE  \A n \in Messages : \A t \in recorded'[n] :
                    t \in recorded[n] /\ (t \in Local(Home[t]))'
    BY <1>b, <1>e, <2>3
  <2>4. CASE PublishLocal(m)
    BY <1>16, <2>1, <2>3, <2>4 DEF PublishLocal, MessagePCs
  <2>5. CASE GetChannelSubscriptions(m)
    BY <1>16, <2>1, <2>3, <2>5 DEF GetChannelSubscriptions, MessagePCs
  <2>6. ASSUME NEW s \in Sockets, GetConnectionInstance(m, s) PROVE Inv'
    BY <1>16, <2>1, <2>3, <2>6 DEF GetConnectionInstance, MessagePCs
  <2>7. CASE NoRemoteSubscriber(m)
    BY <1>16, <2>1, <2>3, <2>7 DEF NoRemoteSubscriber, MessagePCs
  <2>8. CASE PublishEvent(m)
    BY <1>16, <2>1, <2>3, <2>8 DEF PublishEvent, MessagePCs
  <2> QED
    BY <1>17, <2>2, <2>4, <2>5, <2>6, <2>7, <2>8 DEF PublishStep
<1>18. CASE UNCHANGED <<pc, at, channel, subs, redis, recorded, keyless>>
  BY <1>12, <1>18, <1>e
<1>19. ASSUME NEW i \in Instances, NEW k \in Slots, ListenerStep(i, k) PROVE Inv'
  BY <1>18, <1>19 DEF ListenerStep, Take, DeliverTaken, Lose
<1>20. ASSUME NEW i \in Instances, Crash(i) PROVE Inv'
  <2> DEFINE cut == {s \in Sockets : Home[s] = i /\ pc[s] # "offline"}
  <2>1. \A s \in Sockets : pc'[s] = IF s \in cut THEN "gone" ELSE pc[s]
    BY <1>20, <1>a DEF Crash
  <2>2. \A m \in Messages :
            pc'[m] \in {pc[m], "lost"} /\ (pc[m] = "new" <=> pc'[m] = "new")
    BY <1>20, <1>a DEF Crash
  <2>3. \A m \in Messages : recorded'[m] = recorded[m] \ cut
    BY <1>20 DEF Crash, NoLongerDue
  <2>4. UNCHANGED <<at, redisSubs, redisConn, keyless>>
    BY <1>20 DEF Crash
  <2>5. \A j \in Instances \ {i} : Local(j)' = Local(j)
    BY <1>20, <1>a DEF Crash, Local, Registered
  <2>6. \A t \in Sockets :
          /\ pc'[t] \in SocketPCs
          /\ t \notin keyless' => t \notin keyless
          /\ pc'[t] \notin {"offline", "gone"} /\ t \notin keyless' => redisConn'[t] = Home[t]
    BY <1>a, <2>1, <2>4 DEF Apart, ConnOK, SocketPCs
  <2>7. ASSUME NEW m \in Messages, NEW t \in recorded'[m]
        PROVE  /\ t \in recorded[m] /\ pc'[t] \in {"subscribed", "unsubscribe"}
               /\ t \in redisSubs' /\ (t \in Local(Home[t]))'
    <3>1. /\ t \in recorded[m] /\ t \notin cut /\ pc[t] \in {"subscribed", "unsubscribe"}
          /\ t \in Sockets
      BY <1>a, <2>3 DEF RecordedOK
    <3>2. Home[t] \in Instances \ {i}
      BY <1>a, <3>1
    <3> QED
      BY <1>e, <2>1, <2>4, <2>5, <3>1, <3>2
  <2> HIDE DEF cut
  <2>8. \A m \in Messages : pc'[m] \in MessagePCs
    BY <1>a, <2>2 DEF Apart, MessagePCs
  <2> QED
    BY <2>2, <2>4, <2>6, <2>7, <2>8, SocketQuietStep
<1>21. CASE UNCHANGED vars
  BY <1>18, <1>21 DEF vars
<1>22. ASSUME NEW s \in Sockets, SocketStep(s) PROVE Inv'
  BY <1>1, <1>2, <1>3, <1>4, <1>5, <1>6, <1>7, <1>8, <1>9, <1>10, <1>11, <1>22 DEF SocketStep
<1> QED
  BY <1>13, <1>14, <1>15, <1>17, <1>19, <1>20, <1>21, <1>22 DEF Next

-------------------------------------------------------------------------------
(* The sender of an event.                                                  *)

\* What a listener has to handle has been published, by a sender that is connected or
\* has been; and the listener leaves out nobody but that sender.
QueuedOK ==
    /\ \A i \in Instances, k \in Slots, m \in Messages :
        Holds(queue[i][k], m) \/ (taken[i][k] # Nothing /\ taken[i][k].msg = m) => pc[m] # "new"
    /\ \A i \in Instances, k \in Slots : taken[i][k] # Nothing =>
        taken[i][k].ignore \in {NoSocket, Ignore[taken[i][k].msg]}
    /\ \A m \in Messages :
        Ignore[m] \in Sockets /\ pc[m] # "new" => pc[Ignore[m]] # "offline"

\* A listener on the sender's own instance leaves it out.
SenderLeftOut ==
    \A i \in Instances, k \in Slots : taken[i][k] # Nothing =>
        LET m == taken[i][k].msg
        IN  /\ Ignore[m] \in Sockets \ keyless /\ m \notin struck
            /\ Home[Ignore[m]] = i /\ pc[Ignore[m]] # "gone"
            => taken[i][k].ignore = Ignore[m]

SenderInv == QueuedOK /\ SenderLeftOut /\ SenderNeverEchoed

\* The initial states satisfy it.
LEMMA SenderInit == Init => SenderInv
<1> SUFFICES ASSUME Init PROVE SenderInv
  OBVIOUS
<1> USE ClusterAssumption DEF Init
<1>1. \A i \in Instances, k \in Slots : taken[i][k] = Nothing /\ queue[i][k] = <<>>
  OBVIOUS
<1>2. \A i \in Instances, k \in Slots, m \in Messages : ~Holds(queue[i][k], m)
  BY <1>1 DEF Holds
<1>3. QueuedOK
  BY <1>1, <1>2 DEF QueuedOK
<1> QED
  BY <1>1, <1>3 DEF SenderInv, SenderLeftOut, SenderNeverEchoed

\* A step that puts nothing new before a listener and delivers nothing to the sender of
\* an event keeps it.
LEMMA SenderQuietStep ==
    ASSUME SocketInv, SenderInv,
           keyless \subseteq keyless', struck \subseteq struck',
           \A i \in Instances, k \in Slots : taken'[i][k] \in {taken[i][k], Nothing},
           \A i \in Instances, k \in Slots, m \in Messages :
                Holds(queue'[i][k], m) => Holds(queue[i][k], m) \/ pc[m] # "new",
           \A m \in Messages : pc[m] # "new" => pc'[m] # "new",
           \A m \in Messages : pc[m] = "new" /\ pc'[m] # "new" /\ Ignore[m] \in Sockets
                => pc[Ignore[m]] # "offline",
           \A s \in Sockets : pc[s] # "offline" => pc'[s] # "offline",
           \A s \in Sockets : pc[s] = "gone" => pc'[s] = "gone",
           \A m \in Messages : Ignore[m] \in Sockets
                => received'[Ignore[m]][m] = received[Ignore[m]][m]
    PROVE  SenderInv'
<1> USE ClusterAssumption DEF SocketInv, SenderInv
<1>1. QueuedOK'
  BY DEF QueuedOK
<1>2. SenderLeftOut'
  <2> SUFFICES ASSUME NEW i \in Instances, NEW k \in Slots, taken'[i][k] # Nothing,
                      Ignore[taken'[i][k].msg] \in Sockets \ keyless',
                      taken'[i][k].msg \notin struck',
                      Home[Ignore[taken'[i][k].msg]] = i,
                      pc'[Ignore[taken'[i][k].msg]] # "gone"
               PROVE  taken'[i][k].ignore = Ignore[taken'[i][k].msg]
    BY DEF SenderLeftOut
  <2>1. taken'[i][k] = taken[i][k]
    OBVIOUS
  <2> QED
    BY <2>1 DEF SenderLeftOut
<1>3. SenderNeverEchoed'
  BY DEF SenderNeverEchoed
<1> QED
  BY <1>1, <1>2, <1>3

\* What a goroutine of a socket leaves alone.
LEMMA SocketGoes ==
    ASSUME SocketInv, NEW s \in Sockets, SocketStep(s)
    PROVE  /\ pc[s] # "gone" /\ pc'[s] # "offline"
           /\ \A t \in Sockets \ {s} : pc'[t] = pc[t]
           /\ \A m \in Messages : pc'[m] = pc[m] /\ cur'[m] = cur[m]
           /\ UNCHANGED <<at, asked, queue, taken, received, earlier, struck>>
           /\ keyless \subseteq keyless'
<1> USE DEF pubsub, history
<1>1. /\ pc[s] # "gone" /\ \E label \in SocketPCs \ {"offline"} : \E c : Goto(s, label, c)
      /\ UNCHANGED <<at, asked, queue, taken, received, earlier, struck>>
      /\ keyless \subseteq keyless'
  <2>1. CASE Connect(s)
    <3>1. keyless \subseteq keyless'
      BY <2>1 DEF Connect
    <3> QED
      BY <2>1, <3>1 DEF Connect, SocketPCs
  <2>2. CASE Unregister(s)
    BY <2>2 DEF Unregister, SocketPCs
  <2>3. CASE SubscribeRequest(s)
    BY <2>3 DEF SubscribeRequest, FindOrCreate, SocketPCs
  <2>4. CASE AddChannel(s, Home[s], "subscribe")
    BY <2>4 DEF AddChannel, SocketPCs
  <2>5. CASE ChannelSubscribe(s)
    BY <2>5 DEF ChannelSubscribe, SocketPCs
  <2>6. CASE RedisSubscribe(s)
    BY <2>6 DEF RedisSubscribe, SocketPCs
  <2>7. CASE UnsubscribeRequest(s)
    BY <2>7 DEF UnsubscribeRequest, SocketPCs
  <2>8. CASE ChannelUnsubscribe(s)
    BY <2>8 DEF ChannelUnsubscribe, SocketPCs
  <2>9. CASE RedisUnsubscribe(s)
    BY <2>9 DEF RedisUnsubscribe, SocketPCs
  <2>10. CASE CheckOccupied(s)
    BY <2>10 DEF CheckOccupied, SocketPCs
  <2>11. CASE RemoveSubscriber(s)
    BY <2>11 DEF RemoveSubscriber, SocketPCs
  <2>12. CASE RemoveChannel(s)
    BY <2>12 DEF RemoveChannel, SocketPCs
  <2> QED
    BY <2>1, <2>2, <2>3, <2>4, <2>5, <2>6, <2>7, <2>8, <2>9, <2>10, <2>11, <2>12 DEF SocketStep
<1>2. PICK label \in SocketPCs \ {"offline"} : \E c : Goto(s, label, c)
  BY <1>1
<1>3. /\ pc \in [Sockets \cup Messages -> SocketPCs \cup MessagePCs]
      /\ cur \in [Sockets \cup Messages -> {NoChannel} \cup Channels]
      /\ \A m \in Messages : m # s
  BY ClusterAssumption DEF SocketInv, TypeOK
<1>4. \A t \in Sockets \cup Messages :
        pc'[t] = (IF t = s THEN label ELSE pc[t]) /\ (t # s => cur'[t] = cur[t])
  BY <1>2, <1>3 DEF Goto
<1>5. pc'[s] # "offline" /\ \A t \in Sockets \ {s} : pc'[t] = pc[t]
  BY <1>4
<1>6. \A m \in Messages : pc'[m] = pc[m] /\ cur'[m] = cur[m]
  BY <1>3, <1>4
<1> QED
  BY <1>1, <1>5, <1>6

\* What publishing leaves alone.
LEMMA EventGoes ==
    ASSUME SocketInv, NEW m \in Messages, PublishStep(m)
    PROVE  /\ pc[m] \notin {"new", "done", "lost"} /\ pc'[m] \notin {"new", "add", "lost"}
           /\ pc'[m] = "deliver" => pc[m] = "add"
           /\ \A n \in Messages \ {m} :
                pc'[n] = pc[n] /\ cur'[n] = cur[n] /\ asked'[n] = asked[n]
           /\ \A s \in Sockets : pc'[s] = pc[s]
           /\ UNCHANGED <<at, subs, taken, redis, earlier, keyless>>
           /\ struck \subseteq struck'
           /\ PublishLocal(m) \/ received' = received
           /\ PublishEvent(m) \/ queue' = queue
           /\ AddChannel(m, at[m], "deliver") \/ UNCHANGED <<channel, started, recorded>>
<1> USE DEF pubsub, history, objects, listeners
<1>1. /\ pc[m] \notin {"new", "done", "lost"}
      /\ \/ UNCHANGED <<pc, cur>> /\ pc[m] = "lookup"
         \/ pc[m] = "add" /\ \E c : Goto(m, "deliver", c)
         \/ \E label \in {"members", "lookup", "publish", "done"} : \E c : Goto(m, label, c)
      /\ UNCHANGED <<at, subs, taken, redis, earlier, keyless>>
      /\ \/ UNCHANGED asked
         \/ \E set : asked' = [asked EXCEPT ![m] = set]
      /\ struck \subseteq struck'
      /\ PublishLocal(m) \/ received' = received
      /\ PublishEvent(m) \/ queue' = queue
      /\ AddChannel(m, at[m], "deliver") \/ UNCHANGED <<channel, started, recorded>>
  <2>1. CASE AddChannel(m, at[m], "deliver")
    BY <2>1 DEF AddChannel
  <2>2. CASE PublishLocal(m)
    BY <2>2 DEF PublishLocal
  <2>3. CASE GetChannelSubscriptions(m)
    BY <2>3 DEF GetChannelSubscriptions, Strike
  <2>4. ASSUME NEW s \in Sockets, GetConnectionInstance(m, s)
        PROVE  /\ pc[m] = "lookup"
               /\ \/ UNCHANGED <<pc, cur>>
                  \/ \E c : Goto(m, "publish", c)
               /\ \E set : asked' = [asked EXCEPT ![m] = set]
               /\ UNCHANGED <<at, subs, taken, redis, earlier, keyless, received, queue,
                              channel, started, recorded>>
               /\ struck \subseteq struck'
    BY <2>4 DEF GetConnectionInstance, Strike
  <2>5. CASE NoRemoteSubscriber(m)
    BY <2>5 DEF NoRemoteSubscriber
  <2>6. CASE PublishEvent(m)
    BY <2>6 DEF PublishEvent, Strike
  <2> QED
    BY <2>1, <2>2, <2>3, <2>4, <2>5, <2>6 DEF PublishStep
<1>3. /\ pc \in [Sockets \cup Messages -> SocketPCs \cup MessagePCs]
      /\ cur \in [Sockets \cup Messages -> {NoChannel} \cup Channels]
      /\ asked \in [Messages -> SUBSET Sockets]
      /\ \A s \in Sockets : m # s
  BY ClusterAssumption DEF SocketInv, TypeOK
<1>4. \/ UNCHANGED <<pc, cur>> /\ pc[m] = "lookup"
      \/ \E label \in {"deliver", "members", "lookup", "publish", "done"} :
            /\ label = "deliver" => pc[m] = "add"
            /\ \A t \in Sockets \cup Messages :
                pc'[t] = (IF t = m THEN label ELSE pc[t]) /\ (t # m => cur'[t] = cur[t])
  BY <1>1, <1>3 DEF Goto
<1>5. /\ pc'[m] \notin {"new", "add", "lost"}
      /\ pc'[m] = "deliver" => pc[m] = "add"
      /\ \A n \in Messages \ {m} : pc'[n] = pc[n] /\ cur'[n] = cur[n]
      /\ \A s \in Sockets : pc'[s] = pc[s]
  <2>1. CASE UNCHANGED <<pc, cur>> /\ pc[m] = "lookup"
    BY <2>1
  <2>2. ASSUME NEW label \in {"deliver", "members", "lookup", "publish", "done"},
               label = "deliver" => pc[m] = "add",
               \A t \in Sockets \cup Messages :
                    pc'[t] = (IF t = m THEN label ELSE pc[t]) /\ (t # m => cur'[t] = cur[t])
        PROVE  /\ pc'[m] \notin {"new", "add", "lost"}
               /\ pc'[m] = "deliver" => pc[m] = "add"
               /\ \A n \in Messages \ {m} : pc'[n] = pc[n] /\ cur'[n] = cur[n]
               /\ \A s \in Sockets : pc'[s] = pc[s]
    BY <1>3, <2>2
  <2> QED
    BY <1>4, <2>1, <2>2
<1>6. \A n \in Messages \ {m} : asked'[n] = asked[n]
  BY <1>1, <1>3
<1> QED
  BY <1>1, <1>5, <1>6

\* What local delivery and a listener's delivery count.
LEMMA PublishLocalGoes ==
    ASSUME SocketInv, NEW m \in Messages, PublishLocal(m)
    PROVE  /\ at[m] \in Instances /\ cur[m] \in Channels
           /\ \A n \in Messages \ {m}, s \in Sockets : received'[s][n] = received[s][n]
           /\ \A s \in Sockets : received'[s][m] \in {received[s][m], received[s][m] + 1}
           /\ \A s \in Sockets : Home[s] # at[m] \/ s = Ignore[m] \/ pc[s] = "gone" =>
                received'[s][m] = received[s][m]
           /\ \A s \in subs[at[m]][cur[m]] : s # Ignore[m] /\ pc[s] # "gone" =>
                received'[s][m] = received[s][m] + 1
           /\ \A n \in Messages, s \in Sockets : received'[s][n] >= received[s][n]
<1>1. TypeOK /\ Deliver(at[m], cur[m], Ignore[m], m)
  BY DEF PublishLocal, SocketInv
<1>2. at[m] \in Instances
  BY DEF PublishLocal, SocketInv, Apart
<1>3. cur[m] \in Channels
  BY DEF PublishLocal, SocketInv, TypeOK, Holding
<1> QED
  BY <1>1, <1>2, <1>3, Delivered

LEMMA DeliverTakenGoes ==
    ASSUME SocketInv, NEW i \in Instances, NEW k \in Slots, DeliverTaken(i, k)
    PROVE  LET m == taken[i][k].msg
               c == taken[i][k].channel
               ignore == taken[i][k].ignore
           IN  /\ taken[i][k] # Nothing /\ m \in Messages /\ c \in Channels
               /\ \A n \in Messages \ {m}, s \in Sockets : received'[s][n] = received[s][n]
               /\ \A s \in Sockets : received'[s][m] \in {received[s][m], received[s][m] + 1}
               /\ \A s \in Sockets : Home[s] # i \/ s = ignore \/ pc[s] = "gone" =>
                    received'[s][m] = received[s][m]
               /\ \A s \in subs[i][c] : s # ignore /\ pc[s] # "gone" =>
                    received'[s][m] = received[s][m] + 1
               /\ \A n \in Messages, s \in Sockets : received'[s][n] >= received[s][n]
<1> DEFINE m == taken[i][k].msg
           c == taken[i][k].channel
           ignore == taken[i][k].ignore
<1>1. TypeOK /\ Deliver(i, c, ignore, m) /\ taken[i][k] # Nothing
  BY DEF DeliverTaken, SocketInv
<1>2. m \in Messages /\ c \in Channels
  BY <1>1 DEF Handled, TypeOK
<1> HIDE DEF m, c, ignore
<1>3. /\ \A n \in Messages \ {m}, s \in Sockets : received'[s][n] = received[s][n]
      /\ \A s \in Sockets : received'[s][m] \in {received[s][m], received[s][m] + 1}
      /\ \A s \in Sockets : Home[s] # i \/ s = ignore \/ pc[s] = "gone" =>
            received'[s][m] = received[s][m]
      /\ \A s \in subs[i][c] : s # ignore /\ pc[s] # "gone" =>
            received'[s][m] = received[s][m] + 1
      /\ \A n \in Messages, s \in Sockets : received'[s][n] >= received[s][n]
  BY <1>1, <1>2, Delivered
<1> QED
  BY <1>1, <1>2, <1>3 DEF m, c, ignore

\* Every step keeps it: the step that matters is a listener that takes an event, which
\* finds the key of a connected sender; the step that shows it is its delivery.
LEMMA SenderInvStep == SocketInv /\ SenderInv /\ [Next]_vars => SenderInv'
<1> SUFFICES ASSUME SocketInv, SenderInv, [Next]_vars PROVE SenderInv'
  OBVIOUS
<1> USE ClusterAssumption DEF SocketInv, TypeOK, Apart, SocketPCs, MessagePCs
<1>2. ASSUME NEW s \in Sockets, SocketStep(s) PROVE SenderInv'
  BY <1>2, SocketGoes, SenderQuietStep
<1>3. ASSUME UNCHANGED <<pc, queue, taken, received, struck>>, keyless \subseteq keyless'
      PROVE  SenderInv'
  BY <1>3, SenderQuietStep
<1>4. ASSUME NEW s \in Sockets, Expire(s) PROVE SenderInv'
  BY <1>3, <1>4 DEF Expire, pubsub
<1>5. CASE ExpireSubscriptions
  BY <1>3, <1>5 DEF ExpireSubscriptions, pubsub
<1>6. ASSUME NEW m \in Messages, NEW i \in At[m], PublishRequest(m, i) PROVE SenderInv'
  <2>1. /\ \A s \in Sockets : pc'[s] = pc[s]
        /\ \A n \in Messages \ {m} : pc'[n] = pc[n]
        /\ pc'[m] # "new"
    <3>1. \E label \in {"add", "deliver"} : \E c : Goto(m, label, c)
      BY <1>6 DEF PublishRequest, FindOrCreate
    <3> QED
      BY <3>1 DEF Goto
  <2>2. Ignore[m] \in Sockets => pc[Ignore[m]] # "offline"
    BY <1>6 DEF PublishRequest
  <2>3. UNCHANGED <<queue, taken, keyless, struck, received>>
    BY <1>6 DEF PublishRequest, pubsub
  <2> QED
    BY <2>1, <2>2, <2>3, SenderQuietStep
<1>7. ASSUME NEW m \in Messages, PublishStep(m) PROVE SenderInv'
  <2>1. /\ \A s \in Sockets : pc'[s] = pc[s]
        /\ \A n \in Messages : pc[n] # "new" <=> pc'[n] # "new"
        /\ UNCHANGED <<taken, keyless>> /\ struck \subseteq struck'
    BY <1>7, EventGoes
  <2>2. \A n \in Messages : Ignore[n] \in Sockets
            => received'[Ignore[n]][n] = received[Ignore[n]][n]
    <3>1. CASE PublishLocal(m)
      <4>1. ASSUME NEW n \in Messages, Ignore[n] \in Sockets
            PROVE  received'[Ignore[n]][n] = received[Ignore[n]][n]
        <5>1. CASE n = m
          BY <3>1, <4>1, <5>1, PublishLocalGoes
        <5>2. CASE n # m
          BY <3>1, <4>1, <5>2, PublishLocalGoes
        <5> QED
          BY <5>1, <5>2
      <4> QED
        BY <4>1
    <3> QED
      BY <1>7, <3>1, EventGoes
  <2>3. \A i \in Instances, k \in Slots, n \in Messages :
            Holds(queue'[i][k], n) => Holds(queue[i][k], n) \/ pc[n] # "new"
    <3>1. CASE UNCHANGED queue
      BY <3>1
    <3>2. CASE PublishEvent(m) /\ SendToListeners(m)
      <4>1. pc[m] # "new"
        BY <3>2 DEF PublishEvent
      <4>2. ASSUME NEW i \in Instances, NEW k \in Slots, NEW n \in Messages,
                   Holds(queue'[i][k], n)
            PROVE  Holds(queue[i][k], n) \/ n = m
        <5>1. queue'[i][k] \in {Append(queue[i][k], m), queue[i][k]}
          BY <3>2 DEF SendToListeners
        <5>2. queue[i][k] \in Seq(Messages)
          OBVIOUS
        <5>3. CASE queue'[i][k] = Append(queue[i][k], m)
          BY <4>2, <5>2, <5>3, HoldsAppend
        <5> QED
          BY <4>2, <5>1, <5>3
      <4> QED
        BY <4>1, <4>2
    <3> QED
      BY <1>7, <3>1, <3>2, EventGoes DEF PublishEvent
  <2> QED
    BY <2>1, <2>2, <2>3, SenderQuietStep
<1>8. ASSUME NEW i \in Instances, NEW k \in Slots, Take(i, k) PROVE SenderInv'
  <2> DEFINE m == Head(queue[i][k])
  <2>1. queue[i][k] \in Seq(Messages) /\ queue[i][k] # <<>>
    BY <1>8 DEF Take
  <2>2. PICK ok \in BOOLEAN :
            /\ Strike(ok, m)
            /\ taken' = [taken EXCEPT ![i][k] =
                 IF ~Registered(i) THEN Nothing
                 ELSE [msg |-> m, channel |-> channel[i],
                       ignore |-> IF ok THEN IgnoreOn(i, m) ELSE NoSocket]]
    BY <1>8, Zenon DEF Take
  <2>3. m \in Messages /\ Holds(queue[i][k], m) /\ pc[m] # "new"
    BY <2>1, HoldsTail DEF SenderInv, QueuedOK
  <2>4. /\ UNCHANGED <<pc, received, keyless>>
        /\ queue' = [queue EXCEPT ![i][k] = Tail(@)]
    BY <1>8 DEF Take
  <2>5. struck' = IF ok THEN struck ELSE struck \cup {m}
    BY <2>2 DEF Strike
  <2> HIDE DEF m
  <2>6. /\ \A j \in Instances, h \in Slots : j # i \/ h # k => taken'[j][h] = taken[j][h]
        /\ \/ taken'[i][k] = Nothing
           \/ taken'[i][k] = [msg |-> m, channel |-> channel[i],
                              ignore |-> IF ok THEN IgnoreOn(i, m) ELSE NoSocket]
    BY <2>2
  <2>7. ASSUME NEW j \in Instances, NEW h \in Slots, NEW n \in Messages, Holds(queue'[j][h], n)
        PROVE  Holds(queue[j][h], n)
    <3>1. CASE j = i /\ h = k
      <4>1. queue'[i][k] = Tail(queue[i][k])
        BY <2>4
      <4> QED
        BY <2>1, <2>7, <3>1, <4>1, HoldsTail
    <3>2. CASE j # i \/ h # k
      BY <2>4, <2>7, <3>2
    <3> QED
      BY <3>1, <3>2
  <2>8. QueuedOK'
    <3>1. IgnoreOn(i, m) \in {NoSocket, Ignore[m]}
      BY DEF IgnoreOn
    <3>2. ASSUME NEW j \in Instances, NEW h \in Slots, taken'[j][h] # Nothing
          PROVE  /\ pc[taken'[j][h].msg] # "new"
                 /\ taken'[j][h].ignore \in {NoSocket, Ignore[taken'[j][h].msg]}
      <4>1. CASE taken'[j][h] = taken[j][h]
        <5>1. taken[j][h].msg \in Messages
          BY <3>2, <4>1 DEF Handled
        <5> QED
          BY <3>2, <4>1, <5>1 DEF SenderInv, QueuedOK
      <4>2. CASE j = i /\ h = k
        BY <2>3, <2>6, <3>1, <3>2, <4>2
      <4> QED
        BY <2>6, <4>1, <4>2
    <3> QED
      BY <2>4, <2>7, <3>2 DEF SenderInv, QueuedOK
  <2>9. SenderLeftOut'
    <3> SUFFICES ASSUME NEW j \in Instances, NEW h \in Slots, taken'[j][h] # Nothing,
                        Ignore[taken'[j][h].msg] \in Sockets \ keyless,
                        taken'[j][h].msg \notin struck',
                        Home[Ignore[taken'[j][h].msg]] = j,
                        pc[Ignore[taken'[j][h].msg]] # "gone"
                 PROVE  taken'[j][h].ignore = Ignore[taken'[j][h].msg]
      BY <2>4 DEF SenderLeftOut
    <3>1. CASE taken'[j][h] = taken[j][h]
      BY <2>5, <3>1 DEF SenderInv, SenderLeftOut
    <3>2. CASE /\ j = i /\ h = k
               /\ taken'[i][k] = [msg |-> m, channel |-> channel[i],
                                  ignore |-> IF ok THEN IgnoreOn(i, m) ELSE NoSocket]
      <4>1. /\ m \notin struck' /\ Ignore[m] \in Sockets \ keyless
            /\ Home[Ignore[m]] = i /\ pc[Ignore[m]] # "gone"
        BY <3>2
      <4>2. ok
        BY <2>5, <4>1
      <4>3. pc[Ignore[m]] \in SocketPCs \ {"offline", "gone"}
        BY <2>3, <4>1 DEF SenderInv, QueuedOK
      <4>4. redisConn[Ignore[m]] = i
        BY <4>1, <4>3 DEF ConnOK
      <4>5. IgnoreOn(i, m) = Ignore[m]
        BY <4>1, <4>4 DEF IgnoreOn
      <4> QED
        BY <3>2, <4>2, <4>5
    <3> QED
      BY <2>6, <3>1, <3>2
  <2>10. SenderNeverEchoed'
    BY <2>4, <2>5 DEF SenderInv, SenderNeverEchoed
  <2> QED
    BY <2>8, <2>9, <2>10 DEF SenderInv
<1>9. ASSUME NEW i \in Instances, NEW k \in Slots, DeliverTaken(i, k) PROVE SenderInv'
  <2> DEFINE m == taken[i][k].msg
             left == taken[i][k].ignore
  <2>1. /\ taken[i][k] # Nothing /\ m \in Messages
        /\ \A n \in Messages \ {m}, s \in Sockets : received'[s][n] = received[s][n]
        /\ \A s \in Sockets : Home[s] # i \/ s = left \/ pc[s] = "gone" =>
                received'[s][m] = received[s][m]
    BY <1>9, DeliverTakenGoes
  <2>2. /\ UNCHANGED <<pc, queue, keyless, struck>>
        /\ taken' = [taken EXCEPT ![i][k] = Nothing]
    BY <1>9 DEF DeliverTaken
  <2>3. ASSUME Ignore[m] \in Sockets \ keyless, m \notin struck
        PROVE  Home[Ignore[m]] # i \/ pc[Ignore[m]] = "gone" \/ left = Ignore[m]
    BY <2>1, <2>3 DEF SenderInv, SenderLeftOut
  <2> HIDE DEF m, left
  <2>4. SenderNeverEchoed'
    <3> SUFFICES ASSUME NEW n \in Messages, Ignore[n] \in Sockets \ keyless, n \notin struck
                 PROVE  received'[Ignore[n]][n] = 0
      BY <2>2 DEF SenderNeverEchoed
    <3>1. received[Ignore[n]][n] = 0
      BY DEF SenderInv, SenderNeverEchoed
    <3>2. received'[Ignore[n]][n] = received[Ignore[n]][n]
      <4>1. CASE n = m
        BY <2>1, <2>3, <4>1
      <4> QED
        BY <2>1, <4>1
    <3> QED
      BY <3>1, <3>2
  <2>5. QueuedOK' /\ SenderLeftOut'
    BY <2>2 DEF SenderInv, QueuedOK, SenderLeftOut
  <2> QED
    BY <2>4, <2>5 DEF SenderInv
<1>10. ASSUME NEW i \in Instances, NEW k \in Slots, Lose(i, k) PROVE SenderInv'
  <2>1. PICK x \in 1 .. Len(queue[i][k]) :
            /\ queue' = [queue EXCEPT ![i][k] = SubSeq(@, 1, x - 1) \o SubSeq(@, x + 1, Len(@))]
            /\ Strike(FALSE, queue[i][k][x])
    BY <1>10 DEF Lose
  <2>2. \A j \in Instances, h \in Slots, n \in Messages :
            Holds(queue'[j][h], n) => Holds(queue[j][h], n)
    BY <2>1, HoldsWithout
  <2>3. UNCHANGED <<pc, taken, received, keyless>> /\ struck \subseteq struck'
    BY <1>10, <2>1 DEF Lose, Strike
  <2> QED
    BY <2>2, <2>3, SenderQuietStep
<1>11. ASSUME NEW i \in Instances, Crash(i) PROVE SenderInv'
  <2>1. /\ \A s \in Sockets : pc'[s] \in {pc[s], "gone"} /\ (pc[s] = "gone" => pc'[s] = "gone")
        /\ \A m \in Messages : pc'[m] \in {pc[m], "lost"}
        /\ \A m \in Messages : pc[m] = "new" => pc'[m] = "new"
    BY <1>11 DEF Crash
  <2>2. /\ \A j \in Instances, k \in Slots : taken'[j][k] \in {taken[j][k], Nothing}
        /\ UNCHANGED <<received, keyless, struck>>
    BY <1>11 DEF Crash
  <2>3. \A j \in Instances, k \in Slots, m \in Messages :
            Holds(queue'[j][k], m) => Holds(queue[j][k], m)
    <3>1. \A j \in Instances, k \in Slots : queue'[j][k] \in {queue[j][k], <<>>}
      BY <1>11 DEF Crash
    <3> QED
      BY <3>1 DEF Holds
  <2> QED
    BY <2>1, <2>2, <2>3, SenderQuietStep
<1>12. CASE UNCHANGED vars
  BY <1>3, <1>12 DEF vars, pubsub, history
<1> QED
  BY <1>2, <1>4, <1>5, <1>6, <1>7, <1>8, <1>9, <1>10, <1>11, <1>12 DEF Next, ListenerStep
-------------------------------------------------------------------------------
(* Who is due an event gets it.                                             *)

\* A copy of m is before or with a listener of i.
OnItsWay(i, m) ==
    \E k \in Slots :
        Holds(queue[i][k], m) \/ (taken[i][k] # Nothing /\ taken[i][k].msg = m)

\* Whoever holds the object of an instance for an event holds the one that has those it
\* is due to.
FoundOK ==
    \A m \in Messages : \A s \in recorded[m] :
        /\ pc[m] = "add" => Home[s] # at[m]
        /\ pc[m] = "deliver" /\ Home[s] = at[m] => cur[m] = channel[Home[s]]
        /\ \A k \in Slots : taken[Home[s]][k] # Nothing /\ taken[Home[s]][k].msg = m =>
             taken[Home[s]][k].channel = channel[Home[s]]

\* What keeps s in reach of m: Publish has still to find it, or a copy is on its way,
\* or a failure has struck.
InReach(s, m) ==
    \/ received[s][m] >= 1
    \/ m \in struck \/ Deaf(Home[s])
    \/ pc[m] \in {"lost", "add", "deliver", "members", "publish"}
    \/ pc[m] = "lookup" /\ s \in asked[m]
    \/ pc[m] = "done" /\ OnItsWay(Home[s], m)

DueOK ==
    \A m \in Messages : \A s \in recorded[m] \ keyless :
        IF Home[s] = at[m] THEN received[s][m] >= 1 \/ pc[m] = "deliver" ELSE InReach(s, m)

\* The initial states satisfy both.
LEMMA DueInit == Init => FoundOK /\ DueOK
BY DEF Init, FoundOK, DueOK

\* While an event is due to a socket, its instance keeps the object and the listeners.
LEMMA StaysFound ==
    ASSUME SocketInv, [Next]_vars
    PROVE  \A m \in Messages : \A s \in recorded'[m] :
             /\ s \in Sockets /\ Home[s] \in Instances
             /\ channel'[Home[s]] = channel[Home[s]] /\ started'[Home[s]] = started[Home[s]]
             /\ s \in recorded[m] \/ \E i \in At[m] : PublishRequest(m, i)
<1> USE ClusterAssumption DEF objects, listeners, pubsub, redis, history
<1>a. /\ \A m \in Messages : recorded[m] \subseteq Sockets
      /\ \A s \in Sockets : Home[s] \in Instances
      /\ redisSubs \subseteq Sockets
  BY DEF SocketInv, TypeOK
<1> DEFINE Stays == \A m \in Messages : \A s \in recorded'[m] :
             /\ s \in Sockets /\ Home[s] \in Instances
             /\ channel'[Home[s]] = channel[Home[s]] /\ started'[Home[s]] = started[Home[s]]
             /\ s \in recorded[m] \/ \E i \in At[m] : PublishRequest(m, i)
<1>1. ASSUME UNCHANGED <<channel, started>>, \A m \in Messages : recorded'[m] \subseteq recorded[m]
      PROVE  Stays
  BY <1>a, <1>1
<1>2. ASSUME NEW t, NEW i \in Instances, NEW next, AddChannel(t, i, next) PROVE Stays
  <2>1. \A m \in Messages : \A s \in recorded'[m] :
            s \in recorded[m] /\ Home[s] # i /\ channel'[Home[s]] = channel[Home[s]]
    <3>1. /\ \E c : channel' = [channel EXCEPT ![i] = c]
          /\ UNCHANGED subs /\ NoLongerFound(i)
      BY <1>2 DEF AddChannel
    <3> QED
      BY <3>1, ReplaceKeeps
  <2>2. \A j \in Instances \ {i} : started'[j] = started[j]
    BY <1>2, SetupTypes DEF AddChannel, SocketInv
  <2> QED
    BY <1>a, <2>1, <2>2
<1>3. ASSUME NEW s \in Sockets, SocketStep(s) PROVE Stays
  <2>1. CASE AddChannel(s, Home[s], "subscribe")
    BY <1>2, <1>a, <2>1
  <2>2. CASE RemoveChannel(s)
    <3>1. \A m \in Messages : \A t \in recorded'[m] :
            t \in recorded[m] /\ channel'[Home[t]] = channel[Home[t]]
      BY <1>a, <2>2, ReplaceKeeps DEF RemoveChannel
    <3> QED
      BY <1>a, <2>2, <3>1 DEF RemoveChannel
  <2>3. CASE ChannelUnsubscribe(s)
    BY <1>1, <2>3 DEF ChannelUnsubscribe, NoLongerDue
  <2> QED
    BY <1>1, <1>3, <2>1, <2>2, <2>3 DEF SocketStep, Connect, Unregister, SubscribeRequest,
       ChannelSubscribe, RedisSubscribe, UnsubscribeRequest, RedisUnsubscribe, CheckOccupied,
       RemoveSubscriber
<1>4. ASSUME NEW s \in Sockets, Expire(s) PROVE Stays
  BY <1>1, <1>4 DEF Expire
<1>5. CASE ExpireSubscriptions
  BY <1>1, <1>5 DEF ExpireSubscriptions, NoLongerDue
<1>6. ASSUME NEW m \in Messages, NEW i \in At[m], PublishRequest(m, i) PROVE Stays
  <2>1. UNCHANGED <<channel, started>>
    BY <1>6 DEF PublishRequest
  <2>2. \A n \in Messages \ {m} : recorded'[n] = recorded[n]
    BY <1>6 DEF PublishRequest, SocketInv, TypeOK
  <2>3. recorded'[m] \subseteq Sockets
    BY <1>6, <1>a DEF PublishRequest, SocketInv, TypeOK
  <2> QED
    BY <1>a, <1>6, <2>1, <2>2, <2>3
<1>7. ASSUME NEW m \in Messages, PublishStep(m) PROVE Stays
  <2>1. CASE AddChannel(m, at[m], "deliver")
    <3>1. at[m] \in Instances
      BY <2>1 DEF AddChannel, SocketInv, Apart
    <3> QED
      BY <1>2, <2>1, <3>1
  <2>2. CASE UNCHANGED <<channel, started, recorded>>
    BY <1>1, <2>2
  <2> QED
    BY <1>7, <2>1, <2>2, EventGoes
<1>8. ASSUME NEW i \in Instances, NEW k \in Slots, ListenerStep(i, k) PROVE Stays
  BY <1>1, <1>8 DEF ListenerStep, Take, DeliverTaken, Lose
<1>9. ASSUME NEW i \in Instances, Crash(i) PROVE Stays
  <2>1. ASSUME NEW m \in Messages, NEW s \in recorded'[m] PROVE s \in recorded[m] /\ Home[s] # i
    <3>1. s \in recorded[m] \ {t \in Sockets : Home[t] = i /\ pc[t] # "offline"}
      BY <1>9, <2>1 DEF Crash, NoLongerDue
    <3>2. pc[s] # "offline"
      BY <3>1 DEF SocketInv, RecordedOK
    <3> QED
      BY <1>a, <3>1, <3>2
  <2>2. \A j \in Instances \ {i} : channel'[j] = channel[j] /\ started'[j] = started[j]
    BY <1>9 DEF Crash, SocketInv, TypeOK
  <2> QED
    BY <1>a, <2>1, <2>2
<1>10. CASE UNCHANGED vars
  BY <1>1, <1>10 DEF vars
<1> QED
  BY <1>3, <1>4, <1>5, <1>6, <1>7, <1>8, <1>9, <1>10 DEF Next

\* Every step keeps it: the object in the map changes only where nobody is due anything
\* any more.
LEMMA FoundStep ==
    ASSUME SocketInv, SocketInv', SenderInv, FoundOK, [Next]_vars
    PROVE  FoundOK'
<1> USE ClusterAssumption DEF objects, listeners, pubsub, redis, history
<1>a. \A m \in Messages : \A s \in recorded'[m] :
             /\ s \in Sockets /\ Home[s] \in Instances
             /\ channel'[Home[s]] = channel[Home[s]]
             /\ s \in recorded[m] \/ \E i \in At[m] : PublishRequest(m, i)
  BY StaysFound
<1>b. ASSUME \A i \in Instances, k \in Slots : taken'[i][k] \in {taken[i][k], Nothing},
             NEW m \in Messages, NEW s \in recorded'[m] \cap recorded[m],
             at'[m] = at[m],
             pc'[m] = "add" => pc[m] = "add",
             pc'[m] = "deliver" /\ Home[s] = at[m] => pc[m] = "deliver" /\ cur'[m] = cur[m]
      PROVE  /\ pc'[m] = "add" => Home[s] # at'[m]
             /\ pc'[m] = "deliver" /\ Home[s] = at'[m] => cur'[m] = channel'[Home[s]]
             /\ \A k \in Slots : taken'[Home[s]][k] # Nothing /\ taken'[Home[s]][k].msg = m =>
                  taken'[Home[s]][k].channel = channel'[Home[s]]
  <2>1. /\ Home[s] \in Instances /\ channel'[Home[s]] = channel[Home[s]]
    BY <1>a
  <2>2. \A k \in Slots : taken'[Home[s]][k] # Nothing => taken'[Home[s]][k] = taken[Home[s]][k]
    BY <1>b, <2>1
  <2> QED
    BY <1>b, <2>1, <2>2 DEF FoundOK
<1>c. ASSUME \A i \in Instances, k \in Slots : taken'[i][k] \in {taken[i][k], Nothing},
             \A m \in Messages, s \in Sockets : s \in recorded'[m] =>
                /\ s \in recorded[m] /\ at'[m] = at[m]
                /\ pc'[m] = "add" => pc[m] = "add"
                /\ pc'[m] = "deliver" /\ Home[s] = at[m] => pc[m] = "deliver" /\ cur'[m] = cur[m]
      PROVE  FoundOK'
  BY <1>a, <1>b, <1>c DEF FoundOK
<1>d. ASSUME \A m \in Messages : ~\E i \in At[m] : PublishRequest(m, i)
      PROVE  \A m \in Messages : \A s \in recorded'[m] : s \in recorded[m]
  BY <1>a, <1>d
<1>e. ASSUME UNCHANGED <<pc, at, cur>>
      PROVE  \A m \in Messages : \A s \in recorded'[m] : s \in recorded[m]
  <2>1. \A m \in Messages : \A i \in At[m] : ~PublishRequest(m, i)
    <3> SUFFICES ASSUME NEW m \in Messages, NEW i \in At[m], PublishRequest(m, i) PROVE FALSE
      OBVIOUS
    <3>1. pc[m] = "new" /\ \E label \in {"add", "deliver"} : \E c : Goto(m, label, c)
      BY DEF PublishRequest, FindOrCreate
    <3> QED
      BY <1>e, <3>1 DEF Goto, SocketInv, TypeOK
  <2> QED
    BY <1>d, <2>1
<1>1. ASSUME UNCHANGED <<pc, at, cur>>,
             \A i \in Instances, k \in Slots : taken'[i][k] \in {taken[i][k], Nothing}
      PROVE  FoundOK'
  BY <1>1, <1>c, <1>e
<1>2. ASSUME NEW s \in Sockets, SocketStep(s) PROVE FoundOK'
  <2>1. \A m \in Messages : pc'[m] = pc[m] /\ cur'[m] = cur[m] /\ at'[m] = at[m]
    BY <1>2, SocketGoes
  <2>2. \A m \in Messages : \A t \in recorded'[m] : t \in recorded[m]
    <3> SUFFICES ASSUME NEW m \in Messages, NEW t \in recorded'[m], NEW i \in At[m],
                        PublishRequest(m, i)
                 PROVE  FALSE
      BY <1>a
    <3>1. pc[m] = "new"
      BY DEF PublishRequest
    <3> QED
      BY <2>1, <3>1 DEF SocketInv, RecordedOK
  <2> QED
    BY <1>2, <1>c, <2>1, <2>2, SocketGoes
<1>3. ASSUME NEW m \in Messages, NEW i \in At[m], PublishRequest(m, i) PROVE FoundOK'
  <2>1. /\ \A n \in Messages \ {m} : pc'[n] = pc[n] /\ cur'[n] = cur[n] /\ at'[n] = at[n]
        /\ at'[m] = i /\ pc[m] = "new"
        /\ \/ Registered(i) /\ pc'[m] = "deliver" /\ cur'[m] = channel[i]
           \/ ~Registered(i) /\ pc'[m] = "add"
    <3>1. /\ at' = [at EXCEPT ![m] = i] /\ pc[m] = "new"
          /\ \/ Registered(i) /\ Goto(m, "deliver", channel[i])
             \/ ~Registered(i) /\ \E c : Goto(m, "add", c)
      BY <1>3 DEF PublishRequest, FindOrCreate
    <3> QED
      BY <3>1 DEF Goto, SocketInv, TypeOK
  <2>2. UNCHANGED <<channel, taken>> /\ \A n \in Messages \ {m} : recorded'[n] = recorded[n]
    BY <1>3 DEF PublishRequest, SocketInv, TypeOK
  <2>3. \A s \in recorded'[m] : s \in Local(Home[s])
    BY <1>3 DEF PublishRequest, SocketInv, TypeOK
  <2>4. ASSUME NEW s \in recorded'[m]
        PROVE  /\ pc'[m] = "add" => Home[s] # at'[m]
               /\ pc'[m] = "deliver" /\ Home[s] = at'[m] => cur'[m] = channel'[Home[s]]
               /\ \A k \in Slots : ~(taken'[Home[s]][k] # Nothing /\ taken'[Home[s]][k].msg = m)
    <3>1. Registered(Home[s]) /\ Home[s] \in Instances
      BY <1>a, <2>3 DEF Local
    <3>2. \A k \in Slots : ~(taken[Home[s]][k] # Nothing /\ taken[Home[s]][k].msg = m)
      BY <2>1, <3>1 DEF SenderInv, QueuedOK
    <3> QED
      BY <2>1, <2>2, <3>1, <3>2
  <2>5. ASSUME NEW n \in Messages \ {m}, NEW s \in recorded'[n]
        PROVE  /\ pc'[n] = "add" => Home[s] # at'[n]
               /\ pc'[n] = "deliver" /\ Home[s] = at'[n] => cur'[n] = channel'[Home[s]]
               /\ \A k \in Slots : taken'[Home[s]][k] # Nothing /\ taken'[Home[s]][k].msg = n =>
                    taken'[Home[s]][k].channel = channel'[Home[s]]
    BY <1>b, <2>1, <2>2
  <2> QED
    BY <2>4, <2>5 DEF FoundOK
<1>4. ASSUME NEW m \in Messages, PublishStep(m) PROVE FoundOK'
  <2>1. /\ pc[m] # "new" /\ pc'[m] # "add" /\ (pc'[m] = "deliver" => pc[m] = "add")
        /\ \A n \in Messages \ {m} : pc'[n] = pc[n] /\ cur'[n] = cur[n]
        /\ UNCHANGED <<at, taken>>
    BY <1>4, EventGoes
  <2>2. \A n \in Messages : \A s \in recorded'[n] : s \in recorded[n]
    <3> SUFFICES ASSUME NEW n \in Messages, NEW s \in recorded'[n], NEW i \in At[n],
                        PublishRequest(n, i)
                 PROVE  FALSE
      BY <1>a
    <3>1. pc[n] = "new"
      BY DEF PublishRequest
    <3>2. pc'[n] = "new"
      BY <2>1, <3>1
    <3> QED
      BY <3>2 DEF SocketInv, RecordedOK
  <2>3. \A s \in recorded[m] : pc[m] = "add" => Home[s] # at[m]
    BY DEF FoundOK
  <2> QED
    BY <1>c, <2>1, <2>2, <2>3
<1>5. ASSUME NEW i \in Instances, NEW k \in Slots, Take(i, k) PROVE FoundOK'
  <2> DEFINE m == Head(queue[i][k])
  <2>1. PICK ignore :
            taken' = [taken EXCEPT ![i][k] =
                 IF ~Registered(i) THEN Nothing
                 ELSE [msg |-> m, channel |-> channel[i], ignore |-> ignore]]
    BY <1>5 DEF Take
  <2>2. UNCHANGED <<pc, at, cur, channel, recorded>>
    BY <1>5 DEF Take
  <2>3. taken \in [Instances -> [Slots -> Handled \cup {Nothing}]]
    BY DEF SocketInv, TypeOK
  <2> HIDE DEF m
  <2>4. /\ \A j \in Instances, h \in Slots : j # i \/ h # k => taken'[j][h] = taken[j][h]
        /\ taken'[i][k] # Nothing => taken'[i][k].channel = channel[i]
    BY <2>1, <2>3
  <2>5. ASSUME NEW n \in Messages, NEW s \in recorded'[n], NEW h \in Slots,
               taken'[Home[s]][h] # Nothing, taken'[Home[s]][h].msg = n
        PROVE  taken'[Home[s]][h].channel = channel'[Home[s]]
    <3>1. s \in recorded[n] /\ Home[s] \in Instances
      BY <1>a, <2>2
    <3>2. CASE Home[s] = i /\ h = k
      BY <2>2, <2>4, <2>5, <3>2
    <3>3. CASE Home[s] # i \/ h # k
      BY <2>2, <2>4, <2>5, <3>1, <3>3 DEF FoundOK
    <3> QED
      BY <3>2, <3>3
  <2>6. \A n \in Messages : \A s \in recorded'[n] :
            /\ pc'[n] = "add" => Home[s] # at'[n]
            /\ pc'[n] = "deliver" /\ Home[s] = at'[n] => cur'[n] = channel'[Home[s]]
    BY <2>2 DEF FoundOK
  <2> QED
    BY <2>5, <2>6 DEF FoundOK
<1>6. ASSUME NEW i \in Instances, NEW k \in Slots, DeliverTaken(i, k) \/ Lose(i, k)
      PROVE  FoundOK'
  <2>1. \A j \in Instances, h \in Slots : taken'[j][h] \in {taken[j][h], Nothing}
    <3>1. taken \in [Instances -> [Slots -> Handled \cup {Nothing}]]
      BY DEF SocketInv, TypeOK
    <3>2. CASE DeliverTaken(i, k)
      BY <3>1, <3>2 DEF DeliverTaken
    <3>3. CASE Lose(i, k)
      BY <3>3 DEF Lose
    <3> QED
      BY <1>6, <3>2, <3>3
  <2>2. UNCHANGED <<pc, at, cur>>
    BY <1>6 DEF DeliverTaken, Lose
  <2> QED
    BY <1>1, <2>1, <2>2
<1>7. ASSUME NEW i \in Instances, Crash(i) PROVE FoundOK'
  <2>1. \A j \in Instances, h \in Slots : taken'[j][h] \in {taken[j][h], Nothing}
    BY <1>7 DEF Crash, SocketInv, TypeOK
  <2>2. \A m \in Messages : pc'[m] = "lost" \/ (pc'[m] = pc[m] /\ cur'[m] = cur[m])
    BY <1>7 DEF Crash, SocketInv, TypeOK
  <2>3. UNCHANGED at
    BY <1>7 DEF Crash
  <2>4. \A m \in Messages : \A s \in recorded'[m] : s \in recorded[m]
    BY <1>7 DEF Crash, NoLongerDue
  <2> QED
    BY <1>c, <2>1, <2>2, <2>3, <2>4
<1>8. CASE UNCHANGED vars
  BY <1>1, <1>8 DEF vars
<1>9. CASE ExpireSubscriptions \/ \E s \in Sockets : Expire(s)
  BY <1>1, <1>9 DEF ExpireSubscriptions, Expire
<1> QED
  BY <1>2, <1>3, <1>4, <1>5, <1>6, <1>7, <1>8, <1>9 DEF Next, ListenerStep

\* A step that adds nobody whom an event is due, and takes nothing away from what keeps
\* the others in reach, keeps it.
LEMMA DueQuietStep ==
    ASSUME SocketInv, DueOK,
           keyless \subseteq keyless', struck \subseteq struck',
           \A m \in Messages : recorded'[m] \subseteq recorded[m],
           \A m \in Messages : pc[m] # "new" => at'[m] = at[m],
           \A m \in Messages, s \in Sockets : received'[s][m] >= received[s][m],
           received' \in [Sockets -> [Messages -> Nat]],
           \A m \in Messages : \A s \in recorded'[m] \ keyless' :
                /\ Home[s] # at[m] /\ InReach(s, m) => InReach(s, m)'
                /\ Home[s] = at[m] /\ pc[m] = "deliver" =>
                        pc'[m] = "deliver" \/ received'[s][m] >= 1
    PROVE  DueOK'
<1> SUFFICES ASSUME NEW m \in Messages, NEW s \in recorded'[m] \ keyless'
             PROVE  IF Home[s] = at'[m] THEN received'[s][m] >= 1 \/ pc'[m] = "deliver"
                                        ELSE InReach(s, m)'
  BY DEF DueOK
<1>1. s \in recorded[m] \ keyless
  OBVIOUS
<1>2. s \in Sockets /\ pc[m] # "new"
  BY <1>1 DEF SocketInv, TypeOK, RecordedOK
<1>3. at'[m] = at[m]
  BY <1>2
<1>4. IF Home[s] = at[m] THEN received[s][m] >= 1 \/ pc[m] = "deliver" ELSE InReach(s, m)
  BY <1>1 DEF DueOK
<1>5. received[s][m] \in Nat /\ received'[s][m] \in Nat /\ received'[s][m] >= received[s][m]
  BY <1>2 DEF SocketInv, TypeOK
<1> QED
  BY <1>3, <1>4, <1>5

\* While the phases, the listeners, the queues and the lookups stay, so does the reach.
LEMMA ReachStays ==
    ASSUME NEW s \in Sockets, NEW m \in Messages, InReach(s, m),
           received'[s][m] >= 1 \/ ~(received[s][m] >= 1),
           m \in struck' \/ m \notin struck,
           Deaf(Home[s])' \/ ~Deaf(Home[s]),
           pc'[m] = pc[m], s \in asked'[m] \/ s \notin asked[m],
           OnItsWay(Home[s], m)' \/ ~OnItsWay(Home[s], m)
    PROVE  InReach(s, m)'
BY DEF InReach

\* Every step keeps it.  Publish finds whom it has to reach because Redis has them and
\* their key names their instance; every listener of that instance is sent the event; and
\* the one that handles it finds the channel and leaves out nobody but the sender.
LEMMA DueStep ==
    SocketInv /\ SocketInv' /\ SenderInv /\ FoundOK /\ DueOK /\ [Next]_vars => DueOK'
<1> SUFFICES ASSUME SocketInv, SenderInv, FoundOK, DueOK, [Next]_vars,
                    received' \in [Sockets -> [Messages -> Nat]], RecordedOK'
             PROVE  DueOK'
  BY DEF SocketInv, TypeOK
<1> USE ClusterAssumption DEF SocketInv, TypeOK, Apart, SocketPCs, MessagePCs
<1>a. \A m \in Messages : \A s \in recorded[m] :
        /\ s \in Sockets /\ pc[m] # "new" /\ pc[s] \in {"subscribed", "unsubscribe"}
        /\ s # Ignore[m] /\ s \in redisSubs /\ s \in Local(Home[s]) /\ Registered(Home[s])
  BY DEF RecordedOK, Local
<1>b. /\ \A m \in Messages : \A s \in recorded'[m] : s \in Sockets /\ Home[s] \in Instances
      /\ \A m \in Messages : \A s \in recorded'[m] : Deaf(Home[s])' <=> Deaf(Home[s])
      /\ \A m \in Messages : pc[m] # "new" \/ pc'[m] = "new" => recorded'[m] \subseteq recorded[m]
  <2>1. ASSUME NEW m \in Messages, NEW s \in recorded'[m]
        PROVE  /\ s \in Sockets /\ Home[s] \in Instances
               /\ channel'[Home[s]] = channel[Home[s]]
               /\ started'[Home[s]] = started[Home[s]]
               /\ pc[m] # "new" => s \in recorded[m]
    BY StaysFound DEF PublishRequest
  <2>2. \A m \in Messages : \A s \in recorded'[m] : pc'[m] # "new"
    BY DEF RecordedOK
  <2>3. \A m \in Messages : \A s \in recorded'[m] : Deaf(Home[s])' <=> Deaf(Home[s])
    BY <2>1 DEF Deaf, Registered
  <2>4. \A m \in Messages : pc[m] # "new" \/ pc'[m] = "new" => recorded'[m] \subseteq recorded[m]
    BY <2>1, <2>2
  <2>5. \A m \in Messages : \A s \in recorded'[m] : s \in Sockets /\ Home[s] \in Instances
    BY <2>1
  <2> QED
    BY <2>3, <2>4, <2>5
<1>1. ASSUME UNCHANGED <<at, queue, taken, asked, received, struck>>,
             \A m \in Messages : pc'[m] = pc[m],
             keyless \subseteq keyless'
      PROVE  DueOK'
  <2>1. \A i \in Instances, m \in Messages : OnItsWay(i, m)' <=> OnItsWay(i, m)
    BY <1>1 DEF OnItsWay
  <2>2. ASSUME NEW m \in Messages, NEW s \in recorded'[m] \ keyless', InReach(s, m)
        PROVE  InReach(s, m)'
    BY <1>1, <1>b, <2>1, <2>2, ReachStays
  <2>3. \A m \in Messages, s \in Sockets : received'[s][m] >= received[s][m]
    BY <1>1
  <2>4. \A m \in Messages : recorded'[m] \subseteq recorded[m]
    BY <1>1, <1>b
  <2> QED
    BY <1>1, <2>2, <2>3, <2>4, DueQuietStep
<1>2. ASSUME NEW s \in Sockets, SocketStep(s) PROVE DueOK'
  BY <1>1, <1>2, SocketGoes
<1>3. ASSUME NEW s \in Sockets, Expire(s) PROVE DueOK'
  BY <1>1, <1>3 DEF Expire, pubsub
<1>4. CASE ExpireSubscriptions
  BY <1>1, <1>4 DEF ExpireSubscriptions, pubsub
<1>5. ASSUME NEW m \in Messages, NEW i \in At[m], PublishRequest(m, i) PROVE DueOK'
  <2>1. /\ \A n \in Messages \ {m} : pc'[n] = pc[n] /\ at'[n] = at[n]
        /\ at'[m] = i /\ pc[m] = "new"
        /\ pc'[m] = IF Registered(i) THEN "deliver" ELSE "add"
    <3>1. /\ at' = [at EXCEPT ![m] = i] /\ pc[m] = "new"
          /\ \/ Registered(i) /\ \E c : Goto(m, "deliver", c)
             \/ ~Registered(i) /\ \E c : Goto(m, "add", c)
      BY <1>5 DEF PublishRequest, FindOrCreate
    <3> QED
      BY <3>1 DEF Goto
  <2>2. UNCHANGED <<queue, taken, asked, keyless, struck, received>>
    BY <1>5 DEF PublishRequest, pubsub
  <2>3. ASSUME NEW n \in Messages \ {m}, NEW s \in recorded'[n] \ keyless'
        PROVE  IF Home[s] = at'[n] THEN received'[s][n] >= 1 \/ pc'[n] = "deliver"
                                   ELSE InReach(s, n)'
    <3>0. recorded'[n] \subseteq recorded[n]
      BY <1>5 DEF PublishRequest
    <3>1. s \in recorded[n] \ keyless /\ s \in Sockets /\ Home[s] \in Instances
      BY <1>b, <2>2, <3>0
    <3>2. IF Home[s] = at[n] THEN received[s][n] >= 1 \/ pc[n] = "deliver" ELSE InReach(s, n)
      BY <3>1 DEF DueOK
    <3>3. OnItsWay(Home[s], n)' <=> OnItsWay(Home[s], n)
      BY <2>2 DEF OnItsWay
    <3>4. InReach(s, n) => InReach(s, n)'
      BY <1>b, <2>1, <2>2, <3>1, <3>3, ReachStays
    <3> QED
      BY <2>1, <2>2, <3>1, <3>2, <3>4
  <2>4. ASSUME NEW s \in recorded'[m] \ keyless'
        PROVE  IF Home[s] = at'[m] THEN received'[s][m] >= 1 \/ pc'[m] = "deliver"
                                   ELSE InReach(s, m)'
    <3>1. s \in Local(Home[s])
      BY <1>5 DEF PublishRequest
    <3>2. CASE Home[s] = i
      BY <2>1, <3>1, <3>2 DEF Local
    <3>3. CASE Home[s] # i
      BY <2>1, <3>3 DEF InReach
    <3> QED
      BY <3>2, <3>3
  <2> SUFFICES ASSUME NEW n \in Messages, NEW s \in recorded'[n] \ keyless'
               PROVE  IF Home[s] = at'[n] THEN received'[s][n] >= 1 \/ pc'[n] = "deliver"
                                          ELSE InReach(s, n)'
    BY DEF DueOK
  <2>5. CASE n = m
    BY <2>4, <2>5
  <2>6. CASE n # m
    BY <2>3, <2>6
  <2> QED
    BY <2>5, <2>6
<1>6. ASSUME NEW m \in Messages, UNCHANGED <<at, keyless>>,
             struck \subseteq struck', pc[m] # "new",
             \A n \in Messages \ {m} : pc'[n] = pc[n] /\ asked'[n] = asked[n],
             \A i \in Instances, n \in Messages : OnItsWay(i, n) => OnItsWay(i, n)',
             \A n \in Messages \ {m}, s \in Sockets : received'[s][n] = received[s][n],
             \A s \in Sockets : received'[s][m] >= received[s][m],
             \A s \in recorded'[m] \ keyless' :
                /\ Home[s] # at[m] /\ InReach(s, m) => InReach(s, m)'
                /\ Home[s] = at[m] /\ pc[m] = "deliver" => received'[s][m] >= 1
      PROVE  DueOK'
  <2>1. ASSUME NEW n \in Messages, NEW s \in recorded'[n] \ keyless'
        PROVE  /\ Home[s] # at[n] /\ InReach(s, n) => InReach(s, n)'
               /\ Home[s] = at[n] /\ pc[n] = "deliver" =>
                        pc'[n] = "deliver" \/ received'[s][n] >= 1
    <3>1. CASE n # m
      BY <1>6, <1>b, <2>1, <3>1, ReachStays
    <3> QED
      BY <1>6, <2>1, <3>1
  <2>2. \A n \in Messages, s \in Sockets : received'[s][n] >= received[s][n]
    <3>1. \A n \in Messages, s \in Sockets : received[s][n] \in Nat
      OBVIOUS
    <3> SUFFICES ASSUME NEW n \in Messages, NEW s \in Sockets
                 PROVE  received'[s][n] >= received[s][n]
      OBVIOUS
    <3>2. CASE n = m
      BY <1>6, <3>2
    <3>3. CASE n # m
      <4>1. received'[s][n] = received[s][n]
        BY <1>6, <3>3
      <4> QED
        BY <3>1, <4>1
    <3> QED
      BY <3>2, <3>3
  <2>3. \A n \in Messages : recorded'[n] \subseteq recorded[n]
    <3>1. \A n \in Messages : pc[n] = "new" => pc'[n] = "new"
      BY <1>6
    <3> QED
      BY <1>b, <3>1
  <2> QED
    BY <1>6, <2>1, <2>2, <2>3, DueQuietStep
<1>16. ASSUME NEW m \in Messages, PublishStep(m),
              ~PublishLocal(m), \A s \in recorded[m] \ keyless : InReach(s, m)',
              \A i \in Instances, n \in Messages : OnItsWay(i, n) => OnItsWay(i, n)',
              pc[m] # "deliver"
       PROVE  DueOK'
  <2>1. /\ \A n \in Messages \ {m} : pc'[n] = pc[n] /\ asked'[n] = asked[n]
        /\ UNCHANGED <<at, keyless, received>> /\ struck \subseteq struck' /\ pc[m] # "new"
    BY <1>16, EventGoes
  <2>2. recorded'[m] \subseteq recorded[m]
    BY <1>b, <2>1
  <2>3. \A n \in Messages, s \in Sockets :
            received'[s][n] = received[s][n] /\ received'[s][n] >= received[s][n]
    BY <2>1
  <2>4. \A s \in recorded'[m] \ keyless' : InReach(s, m)'
    BY <1>16, <2>1, <2>2
  <2>5. \A n \in Messages \ {m} : pc'[n] = pc[n] /\ asked'[n] = asked[n]
    BY <2>1
  <2> QED
    BY <1>6, <1>16, <2>1, <2>3, <2>4, <2>5
<1>17. ASSUME NEW m \in Messages, AddChannel(m, at[m], "deliver") PROVE DueOK'
  <2>1. PublishStep(m) /\ ~PublishLocal(m) /\ pc'[m] = "deliver" /\ pc[m] = "add"
    BY <1>17 DEF PublishStep, PublishLocal, AddChannel, Goto
  <2>2. \A s \in recorded[m] : InReach(s, m)'
    BY <2>1 DEF InReach
  <2>3. \A i \in Instances, n \in Messages : OnItsWay(i, n) => OnItsWay(i, n)'
    BY <1>17 DEF AddChannel, pubsub, OnItsWay
  <2> QED
    BY <1>16, <2>1, <2>2, <2>3
<1>18. ASSUME NEW m \in Messages, PublishLocal(m) PROVE DueOK'
  <2>1. /\ \A n \in Messages \ {m} : pc'[n] = pc[n] /\ asked'[n] = asked[n]
        /\ UNCHANGED <<at, keyless, queue, taken, recorded>> /\ struck \subseteq struck'
        /\ pc[m] # "new"
    BY <1>18, EventGoes DEF PublishStep, PublishLocal, pubsub
  <2>2. pc'[m] = "members" /\ pc[m] = "deliver"
    BY <1>18 DEF PublishLocal, Goto
  <2>3. ASSUME NEW s \in recorded[m] \ keyless
        PROVE  /\ Home[s] # at[m] /\ InReach(s, m) => InReach(s, m)'
               /\ Home[s] = at[m] => received'[s][m] >= 1
    <3>1. CASE Home[s] # at[m]
      BY <2>2, <3>1 DEF InReach
    <3>2. CASE Home[s] = at[m]
      <4>0. cur[m] = channel[Home[s]]
        BY <2>2, <3>2 DEF FoundOK
      <4>1. s \in subs[at[m]][cur[m]]
        BY <1>a, <3>2, <4>0 DEF Local
      <4>2. s # Ignore[m] /\ pc[s] # "gone" /\ s \in Sockets
        BY <1>a
      <4>5. received[s][m] \in Nat
        BY <4>2
      <4>3. received'[s][m] = received[s][m] + 1
        BY <1>18, <4>1, <4>2, PublishLocalGoes
      <4> QED
        BY <3>2, <4>5, <4>3
    <3> QED
      BY <3>1, <3>2
  <2>4. \A i \in Instances, n \in Messages : OnItsWay(i, n) => OnItsWay(i, n)'
    BY <2>1 DEF OnItsWay
  <2>5. /\ \A n \in Messages \ {m}, s \in Sockets : received'[s][n] = received[s][n]
        /\ \A s \in Sockets : received'[s][m] >= received[s][m]
    BY <1>18, PublishLocalGoes
  <2> QED
    BY <1>6, <2>1, <2>3, <2>4, <2>5
<1>7. ASSUME NEW m \in Messages, GetChannelSubscriptions(m) PROVE DueOK'
  <2>1. PICK ok \in BOOLEAN :
            /\ Strike(ok, m)
            /\ asked' = [asked EXCEPT ![m] = IF ok THEN redisSubs ELSE {}]
            /\ Goto(m, IF ok THEN "lookup" ELSE "done", NoChannel)
    BY <1>7, Zenon DEF GetChannelSubscriptions
  <2>2. UNCHANGED <<queue, taken>> /\ pc[m] = "members"
    BY <1>7 DEF GetChannelSubscriptions, pubsub
  <2>3. struck' = IF ok THEN struck ELSE struck \cup {m}
    BY <2>1 DEF Strike
  <2>4. asked'[m] = (IF ok THEN redisSubs ELSE {}) /\ pc'[m] = IF ok THEN "lookup" ELSE "done"
    BY <2>1 DEF Goto
  <2>5. \A s \in recorded[m] : InReach(s, m)'
    BY <1>a, <2>3, <2>4 DEF InReach
  <2>6. \A i \in Instances, n \in Messages : OnItsWay(i, n) => OnItsWay(i, n)'
    BY <2>2 DEF OnItsWay
  <2>7. PublishStep(m) /\ ~PublishLocal(m)
    BY <1>7, <2>2 DEF PublishStep, PublishLocal
  <2> QED
    BY <1>16, <2>2, <2>5, <2>6, <2>7
<1>8. ASSUME NEW m \in Messages, NEW s \in Sockets, GetConnectionInstance(m, s) PROVE DueOK'
  <2>1. PICK ok \in BOOLEAN :
            /\ Strike(ok, m)
            /\ asked' = [asked EXCEPT ![m] = IF ok /\ Remote(m, s) THEN {} ELSE @ \ {s}]
            /\ IF ok /\ Remote(m, s) THEN Goto(m, "publish", NoChannel)
                                     ELSE UNCHANGED <<pc, cur>>
    BY <1>8, Zenon DEF GetConnectionInstance
  <2>2. UNCHANGED <<channel, started, queue, taken, received, at, recorded, keyless>> /\ pc[m] = "lookup"
    BY <1>8 DEF GetConnectionInstance, objects, listeners, pubsub
  <2>3. struck' = IF ok THEN struck ELSE struck \cup {m}
    BY <2>1 DEF Strike
  <2>4. /\ ok /\ Remote(m, s) => pc'[m] = "publish"
        /\ ~(ok /\ Remote(m, s)) => pc'[m] = "lookup" /\ asked'[m] = asked[m] \ {s}
    BY <2>1, <2>2 DEF Goto
  <2>5. ASSUME NEW t \in recorded[m] \ keyless, Home[t] # at[m], InReach(t, m)
        PROVE  InReach(t, m)'
    <3>1. t \in Sockets /\ Home[t] \in Instances /\ pc[t] \in {"subscribed", "unsubscribe"}
      BY <1>a
    <3>2. t = s => Remote(m, s)
      <4>1. redisConn[t] = Home[t]
        BY <2>5, <3>1 DEF ConnOK
      <4> QED
        BY <2>5, <3>1, <4>1 DEF Remote
    <3>3. Deaf(Home[t])' <=> Deaf(Home[t])
      BY <2>2 DEF Deaf, Registered
    <3>4. CASE ok /\ Remote(m, s)
      BY <2>4, <3>4 DEF InReach
    <3>5. CASE ~ok
      <4>1. CASE t = s
        BY <2>3, <3>5 DEF InReach
      <4>2. CASE t # s
        BY <2>2, <2>3, <2>4, <2>5, <3>3, <3>5, <4>2 DEF InReach
      <4>3. m \in struck'
        BY <2>3, <3>5
      <4> QED
        BY <4>3 DEF InReach
    <3>6. CASE ok /\ ~Remote(m, s)
      <4>1. m \in struck => m \in struck'
        BY <2>3
      <4>2. pc'[m] = "lookup" /\ asked'[m] = asked[m] \ {s} /\ t # s /\ received' = received
        BY <2>2, <2>4, <3>2, <3>6
      <4> QED
        BY <2>2, <2>5, <3>3, <4>1, <4>2 DEF InReach
    <3> QED
      BY <3>4, <3>5, <3>6
  <2>6. \A n \in Messages \ {m} : pc'[n] = pc[n] /\ asked'[n] = asked[n]
    BY <2>1 DEF Goto
  <2>7. \A i \in Instances, n \in Messages : OnItsWay(i, n) => OnItsWay(i, n)'
    BY <2>2 DEF OnItsWay
  <2>8. struck \subseteq struck' /\ pc[m] \notin {"new", "deliver"}
    BY <2>2, <2>3
  <2>9. \A n \in Messages, t \in Sockets : received'[t][n] >= received[t][n]
    BY <2>2
  <2> QED
    BY <1>6, <2>2, <2>5, <2>6, <2>7, <2>8, <2>9
<1>9. ASSUME NEW m \in Messages, NoRemoteSubscriber(m) PROVE DueOK'
  <2>1. /\ UNCHANGED <<at, channel, started, queue, taken, received, recorded, keyless, struck, asked>>
        /\ pc[m] = "lookup" /\ asked[m] = {} /\ Goto(m, "done", NoChannel)
    BY <1>9 DEF NoRemoteSubscriber, objects, listeners, pubsub, history
  <2>2. \A s \in recorded[m] : InReach(s, m) => InReach(s, m)'
    BY <2>1 DEF InReach, Deaf, Registered
  <2>3. \A n \in Messages \ {m} : pc'[n] = pc[n] /\ asked'[n] = asked[n]
    BY <2>1 DEF Goto
  <2>4. \A i \in Instances, n \in Messages : OnItsWay(i, n) => OnItsWay(i, n)'
    BY <2>1 DEF OnItsWay
  <2>5. struck \subseteq struck' /\ pc[m] \notin {"new", "deliver"}
    BY <2>1
  <2>6. \A n \in Messages, s \in Sockets : received'[s][n] >= received[s][n]
    BY <2>1
  <2> QED
    BY <1>6, <2>1, <2>2, <2>3, <2>4, <2>5, <2>6
<1>10. ASSUME NEW m \in Messages, PublishEvent(m) PROVE DueOK'
  <2>1. PICK ok \in BOOLEAN :
            /\ Strike(ok, m)
            /\ IF ok THEN SendToListeners(m) ELSE UNCHANGED queue
    BY <1>10, Zenon DEF PublishEvent
  <2>2. /\ UNCHANGED <<at, channel, started, taken, received, recorded, keyless, asked>>
        /\ pc[m] = "publish" /\ Goto(m, "done", NoChannel)
    BY <1>10 DEF PublishEvent, objects, listeners
  <2>3. struck' = IF ok THEN struck ELSE struck \cup {m}
    BY <2>1 DEF Strike
  <2>4. ASSUME NEW i \in Instances, NEW n \in Messages, OnItsWay(i, n) PROVE OnItsWay(i, n)'
    <3>1. PICK k \in Slots : Holds(queue[i][k], n) \/ (taken[i][k] # Nothing /\ taken[i][k].msg = n)
      BY <2>4 DEF OnItsWay
    <3>2. queue'[i][k] \in {queue[i][k], Append(queue[i][k], m)}
      BY <2>1 DEF SendToListeners
    <3>3. Holds(queue[i][k], n) => Holds(Append(queue[i][k], m), n)
      BY HoldsAppend
    <3>4. Holds(queue[i][k], n) => Holds(queue'[i][k], n)
      <4>1. CASE queue'[i][k] = queue[i][k]
        BY <4>1
      <4>2. CASE queue'[i][k] = Append(queue[i][k], m)
        BY <3>3, <4>2
      <4> QED
        BY <3>2, <4>1, <4>2
    <3> QED
      BY <2>2, <3>1, <3>4 DEF OnItsWay
  <2>5. ASSUME NEW s \in recorded[m] \ keyless, ok PROVE Deaf(Home[s])' \/ OnItsWay(Home[s], m)'
    <3>1. Home[s] \in Instances /\ Registered(Home[s])
      BY <1>a
    <3>2. CASE started[Home[s]] = 0
      BY <2>2, <3>1, <3>2 DEF Deaf, Registered
    <3>3. CASE started[Home[s]] # 0
      <4>1. 1 \in Slots /\ 1 <= started[Home[s]]
        BY <3>1, <3>3 DEF Slots
      <4>2. queue'[Home[s]][1] = Append(queue[Home[s]][1], m)
        BY <2>1, <2>5, <3>1, <4>1 DEF SendToListeners
      <4>3. Holds(queue'[Home[s]][1], m)
        BY <3>1, <4>1, <4>2, HoldsAppend
      <4> QED
        BY <4>1, <4>3 DEF OnItsWay
    <3> QED
      BY <3>2, <3>3
  <2>6. pc'[m] = "done" /\ \A n \in Messages \ {m} : pc'[n] = pc[n] /\ asked'[n] = asked[n]
    BY <2>2 DEF Goto
  <2>7. \A s \in recorded[m] \ keyless : InReach(s, m)'
    BY <2>3, <2>5, <2>6 DEF InReach
  <2>8. PublishStep(m) /\ ~PublishLocal(m) /\ pc[m] # "deliver"
    BY <1>10, <2>2 DEF PublishStep, PublishLocal
  <2> QED
    BY <1>16, <2>4, <2>7, <2>8
<1>11. ASSUME NEW i \in Instances, NEW k \in Slots, Take(i, k) PROVE DueOK'
  <2> DEFINE m == Head(queue[i][k])
  <2>1. queue[i][k] \in Seq(Messages) /\ queue[i][k] # <<>> /\ taken[i][k] = Nothing
    BY <1>11 DEF Take
  <2>2. m \in Messages /\ Holds(queue[i][k], m)
    BY <2>1, HoldsTail
  <2>3. pc[m] # "new"
    BY <2>2 DEF SenderInv, QueuedOK
  <2>4. PICK ok \in BOOLEAN :
            /\ Strike(ok, m)
            /\ taken' = [taken EXCEPT ![i][k] =
                 IF ~Registered(i) THEN Nothing
                 ELSE [msg |-> m, channel |-> channel[i],
                       ignore |-> IF ok THEN IgnoreOn(i, m) ELSE NoSocket]]
    BY <1>11, Zenon DEF Take
  <2>5. struck \subseteq struck'
    BY <2>4 DEF Strike
  <2>6. /\ UNCHANGED <<pc, at, received, recorded, keyless, asked>>
        /\ queue' = [queue EXCEPT ![i][k] = Tail(@)]
    BY <1>11 DEF Take
  <2>7. \A n \in Messages : Holds(queue[i][k], n) => n = m \/ Holds(Tail(queue[i][k]), n)
    BY <2>1, HoldsTail
  <2> HIDE DEF m
  <2>8. Registered(i) => taken'[i][k] # Nothing /\ taken'[i][k].msg = m
    <3>1. SUFFICES ASSUME Registered(i)
                   PROVE  taken'[i][k] # Nothing /\ taken'[i][k].msg = m
      OBVIOUS
    <3>2. taken'[i][k] = [msg |-> m, channel |-> channel[i],
                          ignore |-> IF ok THEN IgnoreOn(i, m) ELSE NoSocket]
      BY <2>4, <3>1
    <3>3. taken'[i][k].msg = m
      BY <3>2
    <3>4. "ignore" \in DOMAIN taken'[i][k] /\ "ignore" \notin DOMAIN Nothing
      BY <3>2 DEF Nothing
    <3> QED
      BY <3>3, <3>4
  <2>9. ASSUME NEW j \in Instances, Registered(j), NEW n \in Messages, OnItsWay(j, n) PROVE OnItsWay(j, n)'
    <3>1. PICK h \in Slots : Holds(queue[j][h], n) \/ (taken[j][h] # Nothing /\ taken[j][h].msg = n)
      BY <2>9 DEF OnItsWay
    <3>2. CASE j # i \/ h # k
      <4>1. queue'[j][h] = queue[j][h] /\ taken'[j][h] = taken[j][h]
        BY <2>4, <2>6, <3>2
      <4> QED
        BY <3>1, <4>1 DEF OnItsWay
    <3>3. CASE j = i /\ h = k
      <4>1. n = m \/ Holds(queue'[i][k], n)
        BY <2>1, <2>6, <2>7, <3>1, <3>3
      <4> QED
        BY <2>8, <2>9, <3>3, <4>1 DEF OnItsWay
    <3> QED
      BY <3>2, <3>3
  <2>10. ASSUME NEW n \in Messages, NEW s \in recorded'[n] \ keyless', InReach(s, n)
         PROVE  InReach(s, n)'
    <3>1. s \in Sockets /\ Registered(Home[s]) /\ Home[s] \in Instances
      BY <1>a, <2>6
    <3>2. Deaf(Home[s])' <=> Deaf(Home[s])
      BY <1>b
    <3>3. OnItsWay(Home[s], n) => OnItsWay(Home[s], n)'
      BY <2>9, <3>1
    <3> QED
      BY <2>5, <2>6, <2>10, <3>1, <3>2, <3>3, ReachStays
  <2>11. \A n \in Messages, s \in Sockets : received'[s][n] >= received[s][n]
    BY <2>6
  <2> QED
    BY <2>5, <2>6, <2>10, <2>11, DueQuietStep
<1>12. ASSUME NEW i \in Instances, NEW k \in Slots, DeliverTaken(i, k) PROVE DueOK'
  <2> DEFINE m == taken[i][k].msg
             c == taken[i][k].channel
             left == taken[i][k].ignore
  <2>1. /\ taken[i][k] # Nothing /\ m \in Messages
        /\ \A n \in Messages, s \in Sockets : received'[s][n] >= received[s][n]
        /\ \A s \in subs[i][c] : s # left /\ pc[s] # "gone" =>
                received'[s][m] = received[s][m] + 1
    BY <1>12, DeliverTakenGoes
  <2>2. left \in {NoSocket, Ignore[m]}
    BY <2>1 DEF SenderInv, QueuedOK
  <2>3. /\ UNCHANGED <<pc, at, queue, recorded, keyless, asked, struck>>
        /\ taken' = [taken EXCEPT ![i][k] = Nothing]
    BY <1>12 DEF DeliverTaken
  <2>4. ASSUME NEW j \in Instances, NEW n \in Messages, OnItsWay(j, n), ~(j = i /\ n = m)
        PROVE  OnItsWay(j, n)'
    <3>1. PICK h \in Slots : Holds(queue[j][h], n) \/ (taken[j][h] # Nothing /\ taken[j][h].msg = n)
      BY <2>4 DEF OnItsWay
    <3>2. CASE Holds(queue[j][h], n)
      BY <2>3, <3>2 DEF OnItsWay
    <3>3. CASE taken[j][h] # Nothing /\ taken[j][h].msg = n
      <4>1. j # i \/ h # k
        BY <2>4, <3>3
      <4>2. taken'[j][h] = taken[j][h]
        BY <2>3, <4>1
      <4> QED
        BY <3>3, <4>2 DEF OnItsWay
    <3> QED
      BY <3>1, <3>2, <3>3
  <2>5. \A s \in recorded[m] : Home[s] = i => s \in subs[i][c]
    BY <1>a, <2>1 DEF FoundOK, Local
  <2> HIDE DEF m, c, left
  <2>6. ASSUME NEW n \in Messages, NEW s \in recorded'[n] \ keyless', InReach(s, n)
        PROVE  InReach(s, n)'
    <3>0. s \in recorded[n]
      BY <2>3
    <3>1. s \in Sockets /\ s # Ignore[n] /\ pc[s] # "gone" /\ Home[s] \in Instances
      <4>1. s \in Sockets /\ s # Ignore[n] /\ pc[s] \in {"subscribed", "unsubscribe"}
        BY <1>a, <3>0
      <4>2. Home[s] \in Instances
        BY <1>b
      <4> QED
        BY <4>1, <4>2
    <3>4. received[s][n] \in Nat /\ received'[s][n] \in Nat
      BY <3>1
    <3>2. CASE Home[s] = i /\ n = m
      <4>1. s \in subs[i][c] /\ s # left
        BY <2>2, <2>5, <3>0, <3>1, <3>2
      <4>2. received'[s][n] >= 1
        BY <2>1, <3>1, <3>2, <3>4, <4>1
      <4> QED
        BY <4>2 DEF InReach
    <3>3. CASE ~(Home[s] = i /\ n = m)
      <4>1. Deaf(Home[s])' <=> Deaf(Home[s])
        BY <1>b
      <4>2. received[s][n] \in Nat /\ received'[s][n] \in Nat
        BY <3>1
      <4>3. received[s][n] >= 1 => received'[s][n] >= 1
        BY <2>1, <3>1, <4>2
      <4> QED
        BY <2>3, <2>4, <2>6, <3>1, <3>3, <4>1, <4>3, ReachStays
    <3> QED
      BY <3>2, <3>3
  <2> QED
    BY <2>1, <2>3, <2>6, DueQuietStep
<1>13. ASSUME NEW i \in Instances, NEW k \in Slots, Lose(i, k) PROVE DueOK'
  <2>1. PICK x \in 1 .. Len(queue[i][k]) :
            /\ queue' = [queue EXCEPT ![i][k] = SubSeq(@, 1, x - 1) \o SubSeq(@, x + 1, Len(@))]
            /\ Strike(FALSE, queue[i][k][x])
    BY <1>13 DEF Lose
  <2> DEFINE lost == queue[i][k][x]
  <2>2. struck' = struck \cup {lost}
    BY <2>1 DEF Strike
  <2>3. UNCHANGED <<pc, at, taken, received, recorded, keyless, asked>>
    BY <1>13 DEF Lose
  <2>4. \A j \in Instances, h \in Slots, n \in Messages :
            Holds(queue[j][h], n) => n = lost \/ Holds(queue'[j][h], n)
    <3> SUFFICES ASSUME NEW j \in Instances, NEW h \in Slots, NEW n \in Messages,
                        Holds(queue[j][h], n)
                 PROVE  n = lost \/ Holds(queue'[j][h], n)
      OBVIOUS
    <3>1. CASE j = i /\ h = k
      <4> DEFINE rest == SubSeq(queue[i][k], 1, x - 1)
                             \o SubSeq(queue[i][k], x + 1, Len(queue[i][k]))
      <4>0. queue' = [queue EXCEPT ![i][k] = rest]
        BY <2>1
      <4> HIDE DEF rest
      <4>1. queue'[i][k] = rest
        BY <4>0
      <4>2. queue[i][k] \in Seq(Messages)
        OBVIOUS
      <4> QED
        BY <3>1, <4>1, <4>2, HoldsWithout DEF rest
    <3>2. CASE j # i \/ h # k
      <4>1. queue'[j][h] = queue[j][h]
        BY <2>1, <3>2
      <4> QED
        BY <4>1
    <3> QED
      BY <3>1, <3>2
  <2> HIDE DEF lost
  <2>5. \A j \in Instances, n \in Messages \ {lost} : OnItsWay(j, n) => OnItsWay(j, n)'
    BY <2>3, <2>4 DEF OnItsWay
  <2>6. ASSUME NEW n \in Messages, NEW s \in recorded'[n] \ keyless', InReach(s, n)
        PROVE  InReach(s, n)'
    <3>1. s \in Sockets /\ Home[s] \in Instances
      BY <1>a, <2>3
    <3>2. CASE n = lost
      BY <2>2, <3>2 DEF InReach
    <3>3. CASE n # lost
      <4>1. Deaf(Home[s])' <=> Deaf(Home[s])
        BY <1>b
      <4> QED
        BY <2>2, <2>3, <2>5, <2>6, <3>1, <3>3, <4>1, ReachStays
    <3> QED
      BY <3>2, <3>3
  <2>7. \A n \in Messages, s \in Sockets : received'[s][n] >= received[s][n]
    BY <2>3
  <2> QED
    BY <2>2, <2>3, <2>6, <2>7, DueQuietStep
<1>14. ASSUME NEW i \in Instances, Crash(i) PROVE DueOK'
  <2> DEFINE cut == {s \in Sockets : Home[s] = i /\ pc[s] # "offline"}
             interrupted == {m \in Messages : at[m] = i /\ pc[m] \notin {"new", "done"}}
  <2>1. /\ pc' = [t \in Sockets \cup Messages |->
                    IF t \in cut THEN "gone" ELSE IF t \in interrupted THEN "lost" ELSE pc[t]]
        /\ asked' = [m \in Messages |-> IF m \in interrupted THEN {} ELSE asked[m]]
        /\ recorded' = [m \in Messages |-> recorded[m] \ cut]
        /\ UNCHANGED <<at, received, keyless, struck>>
    BY <1>14 DEF Crash, NoLongerDue
  <2>2. \A j \in Instances \ {i} :
            queue'[j] = queue[j] /\ taken'[j] = taken[j]
    BY <1>14 DEF Crash
  <2>2a. ASSUME NEW j \in Instances \ {i}, NEW m \in Messages, OnItsWay(j, m)
        PROVE  OnItsWay(j, m)'
    <3>1. queue'[j] = queue[j] /\ taken'[j] = taken[j]
      BY <2>2
    <3> QED
      BY <2>2a, <3>1 DEF OnItsWay
  <2>3. \A m \in Messages : m \in interrupted => pc'[m] = "lost"
    BY <2>1
  <2>4. \A m \in Messages : m \notin interrupted => pc'[m] = pc[m] /\ asked'[m] = asked[m]
    BY <2>1
  <2>5. \A m \in Messages : \A s \in recorded'[m] : s \in Sockets /\ Home[s] # i
    BY <1>a, <2>1
  <2>10. \A m \in Messages : \A s \in recorded'[m] : Home[s] = at[m] => m \notin interrupted
    BY <2>5
  <2> HIDE DEF cut, interrupted
  <2>6. ASSUME NEW m \in Messages, NEW s \in recorded'[m] \ keyless', InReach(s, m)
        PROVE  InReach(s, m)'
    <3>1. s \in Sockets /\ Home[s] \in Instances /\ Home[s] # i
      BY <1>a, <2>1, <2>5
    <3>2. CASE m \in interrupted
      BY <2>3, <3>2 DEF InReach
    <3>3. CASE m \notin interrupted
      <4>1. Deaf(Home[s]) => Deaf(Home[s])'
        BY <1>b
      <4>2. OnItsWay(Home[s], m) => OnItsWay(Home[s], m)'
        BY <2>2a, <3>1
      <4> QED
        BY <2>1, <2>4, <2>6, <3>1, <3>3, <4>1, <4>2, ReachStays
    <3> QED
      BY <3>2, <3>3
  <2>7. \A n \in Messages, s \in Sockets : received'[s][n] >= received[s][n]
    BY <2>1
  <2>8. \A m \in Messages : recorded'[m] \subseteq recorded[m]
    BY <2>1
  <2>9. \A m \in Messages : \A s \in recorded'[m] : Home[s] = at[m] => pc'[m] = pc[m]
    BY <2>4, <2>10
  <2> QED
    BY <2>1, <2>6, <2>7, <2>8, <2>9, DueQuietStep
<1>15. CASE UNCHANGED vars
  BY <1>1, <1>15 DEF vars, pubsub, history
<1> QED
  BY <1>2, <1>3, <1>4, <1>5, <1>7, <1>8, <1>9, <1>10, <1>11, <1>12, <1>13, <1>14, <1>15,
     <1>17, <1>18
     DEF Next, PublishStep, ListenerStep

-------------------------------------------------------------------------------
(* How often an event reaches a client.                                     *)

\* Listener k of i has m in its hands.
Took(i, k, m) == taken[i][k] # Nothing /\ taken[i][k].msg = m

\* The listeners of i that have a copy of m before or with them.
Pending(i, m) == {k \in Slots : Holds(queue[i][k], m) \/ Took(i, k, m)}

\* q has m at most once.
Once(q, m) == \A x, y \in 1 .. Len(q) : q[x] = m /\ q[y] = m => x = y

\* The copy that Publish itself delivers.
FromPublisher(s, m) == IF Home[s] = at[m] THEN 1 ELSE 0

\* A listener is sent an event once, and nobody is sent one before its PUBLISH.
SentOnce ==
    \A i \in Instances, k \in Slots, m \in Messages :
        /\ Once(queue[i][k], m)
        /\ Took(i, k, m) => ~Holds(queue[i][k], m)
        /\ pc[m] # "done" => k \notin Pending(i, m)

\* Where an event is that nobody has been sent.
Undelivered == {"new", "add", "deliver"}

\* What a client has received and what is on its way to it are no more than the bound.
Allowed ==
    \A s \in Sockets, m \in Messages :
        /\ pc[m] \in Undelivered => received[s][m] = 0
        /\ pc[m] # "done" => received[s][m] <= FromPublisher(s, m)
        /\ received[s][m] + Cardinality(Pending(Home[s], m)) <= MaxListeners + FromPublisher(s, m)

CopiesInv == SentOnce /\ Allowed

\* No more copies of an event are on their way to the listeners of an instance than it has
\* slots for listeners.
LEMMA PendingCount ==
    ASSUME NEW i, NEW m
    PROVE  /\ IsFiniteSet(Pending(i, m))
           /\ Cardinality(Pending(i, m)) \in Nat
           /\ Cardinality(Pending(i, m)) <= MaxListeners
           /\ \A P \in SUBSET Pending(i, m) : 
                IsFiniteSet(P) /\ Cardinality(P) \in Nat /\ Cardinality(P) <= Cardinality(Pending(i, m))
<1>1. IsFiniteSet(Slots) /\ Cardinality(Slots) = MaxListeners
  BY FS_Interval, ClusterAssumption DEF Slots
<1>2. Pending(i, m) \subseteq Slots
  BY DEF Pending
<1>3. IsFiniteSet(Pending(i, m)) /\ Cardinality(Pending(i, m)) <= MaxListeners
  BY <1>1, <1>2, FS_Subset
<1> QED
  BY <1>3, FS_Subset, FS_CardinalityType

\* And so in the next state.
LEMMA PendingCountPrimed ==
    ASSUME NEW i, NEW m
    PROVE  Cardinality(Pending(i, m)') \in Nat /\ Cardinality(Pending(i, m)') <= MaxListeners
<1>1. IsFiniteSet(Slots) /\ Cardinality(Slots) = MaxListeners
  BY FS_Interval, ClusterAssumption DEF Slots
<1>2. Pending(i, m)' \subseteq Slots
  BY DEF Pending
<1> QED
  BY <1>1, <1>2, FS_Subset, FS_CardinalityType

\* An event that is new in a queue is in it once after it is sent (SendToListeners).
LEMMA OnceAppend ==
    ASSUME NEW q \in Seq(Messages), NEW n \in Messages, NEW m, Once(q, m), m = n => ~Holds(q, m)
    PROVE  Once(Append(q, n), m)
<1>1. /\ Len(Append(q, n)) = Len(q) + 1
      /\ \A x \in 1 .. Len(q) : Append(q, n)[x] = q[x]
      /\ Append(q, n)[Len(q) + 1] = n
      /\ Len(q) \in Nat
  OBVIOUS
<1> QED
  BY <1>1 DEF Once, Holds

\* The oldest event of a queue is not in it again.
LEMMA OnceTail ==
    ASSUME NEW q \in Seq(Messages), q # <<>>, NEW m, Once(q, m)
    PROVE  Once(Tail(q), m) /\ (m = Head(q) => ~Holds(Tail(q), m))
<1>1. /\ Len(Tail(q)) = Len(q) - 1
      /\ \A x \in 1 .. Len(q) - 1 : Tail(q)[x] = q[x + 1]
      /\ Head(q) = q[1]
      /\ Len(q) \in Nat /\ Len(q) >= 1
  OBVIOUS
<1>2. \A x \in 1 .. Len(Tail(q)) : x + 1 \in 1 .. Len(q) /\ x + 1 # 1 /\ Tail(q)[x] = q[x + 1] /\ x \in Int
  BY <1>1
<1>3. 1 \in 1 .. Len(q)
  BY <1>1
<1>4. ASSUME NEW x \in 1 .. Len(Tail(q)), NEW y \in 1 .. Len(Tail(q)), Tail(q)[x] = m, Tail(q)[y] = m
      PROVE  x = y
  <2>1. x + 1 = y + 1
    BY <1>2, <1>4 DEF Once
  <2> QED
    BY <1>2, <2>1
<1>5. ASSUME m = Head(q), NEW x \in 1 .. Len(Tail(q)), Tail(q)[x] = m PROVE FALSE
  BY <1>1, <1>2, <1>3, <1>5 DEF Once
<1> QED
  BY <1>4, <1>5 DEF Once, Holds

\* Losing an event does not double another.
LEMMA OnceWithout ==
    ASSUME NEW q \in Seq(Messages), NEW x \in 1 .. Len(q), NEW m, Once(q, m)
    PROVE  Once(SubSeq(q, 1, x - 1) \o SubSeq(q, x + 1, Len(q)), m)
<1> DEFINE r == SubSeq(q, 1, x - 1) \o SubSeq(q, x + 1, Len(q))
           From(y) == IF y < x THEN y ELSE y + 1
<1>0. Len(q) \in Nat /\ x \in Nat /\ x >= 1 /\ x <= Len(q)
  OBVIOUS
<1>1. /\ Len(r) = Len(q) - 1
      /\ \A y \in 1 .. x - 1 : r[y] = q[y]
      /\ \A y \in x .. Len(q) - 1 : r[y] = q[y + 1]
  BY WithoutOne
<1> HIDE DEF r
<1>2. \A y \in 1 .. Len(r) : From(y) \in 1 .. Len(q) /\ r[y] = q[From(y)]
  BY <1>0, <1>1
<1>3. \A y, z \in 1 .. Len(r) : From(y) = From(z) => y = z
  BY <1>0, <1>1
<1> HIDE DEF From
<1>4. Once(r, m)
  BY <1>2, <1>3 DEF Once
<1> QED
  BY <1>4 DEF r

\* Nothing is on its way at first.
LEMMA CopiesInit == Init => CopiesInv
<1> SUFFICES ASSUME Init PROVE CopiesInv
  OBVIOUS
<1> USE ClusterAssumption DEF Init
<1>1. \A i \in Instances, k \in Slots, m \in Messages :
        /\ queue[i][k] = <<>> /\ taken[i][k] = Nothing
  OBVIOUS
<1>2. \A i \in Instances, m \in Messages : Pending(i, m) = {}
  BY <1>1 DEF Pending, Holds, Took
<1>3. \A s \in Sockets, m \in Messages :
        received[s][m] = 0 /\ Cardinality(Pending(Home[s], m)) = 0
  BY <1>2, FS_EmptySet
<1> QED
  BY <1>1, <1>2, <1>3 DEF CopiesInv, SentOnce, Allowed, Undelivered, Once, Took, FromPublisher

\* With no more copies on their way than before, a client that is not sent one now keeps
\* within the bound.
LEMMA CopiesShrink ==
    ASSUME SocketInv, CopiesInv, SentOnce',
           UNCHANGED <<at, received>>,
           \A m \in Messages : pc'[m] \in Undelivered => pc[m] \in Undelivered,
           \A m \in Messages : pc'[m] # "done" => pc[m] # "done",
           \A i \in Instances, m \in Messages : Pending(i, m)' \subseteq Pending(i, m)
    PROVE  CopiesInv'
<1> SUFFICES ASSUME NEW s \in Sockets, NEW m \in Messages
             PROVE  received[s][m] + Cardinality(Pending(Home[s], m)') <= MaxListeners + FromPublisher(s, m)
  BY DEF CopiesInv, Allowed, FromPublisher
<1>1. /\ Home[s] \in Instances /\ MaxListeners \in Nat
      /\ received[s][m] \in Nat /\ FromPublisher(s, m) \in Nat
  BY ClusterAssumption DEF SocketInv, TypeOK, FromPublisher
<1>2. /\ Cardinality(Pending(Home[s], m)') <= Cardinality(Pending(Home[s], m))
      /\ Cardinality(Pending(Home[s], m)') \in Nat /\ Cardinality(Pending(Home[s], m)) \in Nat
  BY <1>1, PendingCount
<1>3. received[s][m] + Cardinality(Pending(Home[s], m)) <= MaxListeners + FromPublisher(s, m)
  BY DEF CopiesInv, Allowed
<1> QED
  BY <1>1, <1>2, <1>3

\* A step that only takes events away from listeners keeps it.
LEMMA CopiesQuietStep ==
    ASSUME SocketInv, CopiesInv,
           UNCHANGED <<at, received>>,
           \A m \in Messages : pc'[m] \in Undelivered => pc[m] \in Undelivered,
           \A m \in Messages : pc'[m] # "done" => pc[m] # "done",
           \A i \in Instances, k \in Slots : taken'[i][k] \in {taken[i][k], Nothing},
           \A i \in Instances, k \in Slots : queue'[i][k] \in {queue[i][k], <<>>}
    PROVE  CopiesInv'
<1>1. \A i \in Instances, k \in Slots, m \in Messages :
        /\ Once(queue[i][k], m) => Once(queue'[i][k], m)
        /\ Holds(queue'[i][k], m) => Holds(queue[i][k], m)
        /\ Took(i, k, m)' => Took(i, k, m)
  BY DEF Once, Holds, Took
<1>2. \A i \in Instances, m \in Messages : Pending(i, m)' \subseteq Pending(i, m)
  BY <1>1 DEF Pending
<1>3. SentOnce'
  BY <1>1, <1>2 DEF CopiesInv, SentOnce
<1> QED
  BY <1>2, <1>3, CopiesShrink

\* Every step keeps it: PUBLISH sends an event to each listener once, and a listener that
\* delivers it has it no more.
LEMMA CopiesStep == SocketInv /\ SocketInv' /\ CopiesInv /\ [Next]_vars => CopiesInv'
<1> SUFFICES ASSUME SocketInv, SocketInv', CopiesInv, [Next]_vars PROVE CopiesInv'
  OBVIOUS
<1> USE ClusterAssumption DEF SocketInv, TypeOK
<1>1. ASSUME NEW s \in Sockets, SocketStep(s) \/ Expire(s) PROVE CopiesInv'
  <2>1. UNCHANGED <<at, received, queue, taken>> /\ \A m \in Messages : pc'[m] = pc[m]
    BY <1>1, SocketGoes DEF Expire, pubsub
  <2> QED
    BY <2>1, CopiesQuietStep
<1>2. CASE ExpireSubscriptions \/ UNCHANGED vars
  <2>1. UNCHANGED <<at, received, queue, taken, pc>>
    BY <1>2 DEF ExpireSubscriptions, pubsub, vars, history
  <2> QED
    BY <2>1, CopiesQuietStep
<1>3. ASSUME NEW m \in Messages, NEW i \in At[m], PublishRequest(m, i) PROVE CopiesInv'
  <2>1. /\ pc[m] = "new" /\ pc'[m] \in {"add", "deliver"}
        /\ \A n \in Messages \ {m} : pc'[n] = pc[n] /\ at'[n] = at[n]
        /\ UNCHANGED <<queue, taken, received>>
    <3>1. \E label \in {"add", "deliver"} : \E c : Goto(m, label, c)
      BY <1>3 DEF PublishRequest, FindOrCreate
    <3> QED
      BY <1>3, <3>1 DEF PublishRequest, Goto, pubsub
  <2>2. \A j \in Instances, n \in Messages : Pending(j, n)' = Pending(j, n)
    BY <2>1 DEF Pending, Took
  <2>3. SentOnce'
    BY <2>1, <2>2 DEF CopiesInv, SentOnce, Took
  <2>4. ASSUME NEW s \in Sockets
        PROVE  /\ received'[s][m] = 0 /\ 0 <= FromPublisher(s, m)'
               /\ received'[s][m] + Cardinality(Pending(Home[s], m)') <= MaxListeners + FromPublisher(s, m)'
    <3>1. received'[s][m] = 0 /\ Home[s] \in Instances
      BY <2>1 DEF CopiesInv, Allowed, Undelivered
    <3>2. Pending(Home[s], m)' = {}
      BY <2>1, <2>2, <3>1 DEF CopiesInv, SentOnce, Pending
    <3>3. Cardinality(Pending(Home[s], m)') = 0
      BY <3>2, FS_EmptySet
    <3>4. FromPublisher(s, m)' \in {0, 1}
      BY DEF FromPublisher
    <3> QED
      BY <3>1, <3>3, <3>4
  <2>5. ASSUME NEW s \in Sockets, NEW n \in Messages \ {m}
        PROVE  /\ received'[s][n] = received[s][n] /\ FromPublisher(s, n)' = FromPublisher(s, n)
               /\ Pending(Home[s], n)' = Pending(Home[s], n)
    BY <2>1, <2>2 DEF FromPublisher
  <2>6. Allowed'
    <3> SUFFICES ASSUME NEW s \in Sockets, NEW n \in Messages
                 PROVE  /\ pc'[n] \in Undelivered => received'[s][n] = 0
                        /\ pc'[n] # "done" => received'[s][n] <= FromPublisher(s, n)'
                        /\ received'[s][n] + Cardinality(Pending(Home[s], n)') <= MaxListeners + FromPublisher(s, n)'
      BY DEF Allowed
    <3>1. CASE n = m
      BY <2>1, <2>4, <3>1
    <3>2. CASE n # m
      BY <2>1, <2>5, <3>2 DEF CopiesInv, Allowed
    <3> QED
      BY <3>1, <3>2
  <2> QED
    BY <2>3, <2>6 DEF CopiesInv
<1>10. ASSUME NEW m \in Messages, PublishLocal(m) PROVE CopiesInv'
  <2>1. /\ pc[m] = "deliver" /\ pc'[m] = "members" /\ \A n \in Messages \ {m} : pc'[n] = pc[n]
        /\ UNCHANGED <<at, queue, taken>>
    BY <1>10 DEF PublishLocal, Goto, pubsub
  <2>2. /\ \A n \in Messages \ {m}, s \in Sockets : received'[s][n] = received[s][n]
        /\ \A s \in Sockets : received'[s][m] \in {received[s][m], received[s][m] + 1}
        /\ \A s \in Sockets : Home[s] # at[m] => received'[s][m] = received[s][m]
    BY <1>10, PublishLocalGoes
  <2>3. \A j \in Instances, n \in Messages : Pending(j, n)' = Pending(j, n)
    BY <2>1 DEF Pending, Took
  <2>4. SentOnce'
    BY <2>1, <2>3 DEF CopiesInv, SentOnce, Took
  <2>5. ASSUME NEW s \in Sockets
        PROVE  /\ received'[s][m] <= FromPublisher(s, m)'
               /\ received'[s][m] + Cardinality(Pending(Home[s], m)') <= MaxListeners + FromPublisher(s, m)'
    <3>1. received[s][m] = 0 /\ Home[s] \in Instances
      BY <2>1 DEF CopiesInv, Allowed, Undelivered
    <3>2. Pending(Home[s], m)' = {}
      BY <2>1, <2>3, <3>1 DEF CopiesInv, SentOnce, Pending
    <3>3. received'[s][m] <= FromPublisher(s, m)' /\ received'[s][m] \in Nat /\ FromPublisher(s, m)' \in Nat
      <4>1. received'[s][m] \in {0, 1} /\ (Home[s] # at[m] => received'[s][m] = 0)
        BY <2>2, <3>1
      <4>2. FromPublisher(s, m)' = IF Home[s] = at[m] THEN 1 ELSE 0
        BY <2>1 DEF FromPublisher
      <4> QED
        BY <4>1, <4>2
    <3>4. Cardinality(Pending(Home[s], m)') = 0
      BY <3>2, FS_EmptySet
    <3> QED
      BY <3>3, <3>4
  <2>6. ASSUME NEW s \in Sockets, NEW n \in Messages \ {m}
        PROVE  /\ received'[s][n] = received[s][n] /\ FromPublisher(s, n)' = FromPublisher(s, n)
               /\ Pending(Home[s], n)' = Pending(Home[s], n)
    BY <2>1, <2>2, <2>3 DEF FromPublisher
  <2>7. Allowed'
    <3> SUFFICES ASSUME NEW s \in Sockets, NEW n \in Messages
                 PROVE  /\ pc'[n] \in Undelivered => received'[s][n] = 0
                        /\ pc'[n] # "done" => received'[s][n] <= FromPublisher(s, n)'
                        /\ received'[s][n] + Cardinality(Pending(Home[s], n)') <= MaxListeners + FromPublisher(s, n)'
      BY DEF Allowed
    <3>1. CASE n = m
      BY <2>1, <2>5, <3>1 DEF Undelivered
    <3>2. CASE n # m
      BY <2>1, <2>6, <3>2 DEF CopiesInv, Allowed
    <3> QED
      BY <3>1, <3>2
  <2> QED
    BY <2>4, <2>7 DEF CopiesInv
<1>4. ASSUME NEW m \in Messages, PublishStep(m), ~PublishLocal(m), UNCHANGED queue
      PROVE  CopiesInv'
  <2>1. /\ pc[m] # "done" /\ pc'[m] \notin {"new", "add"} /\ (pc'[m] = "deliver" => pc[m] = "add")
        /\ \A n \in Messages \ {m} : pc'[n] = pc[n]
        /\ UNCHANGED <<at, received, taken>>
    <3> HIDE DEF SocketInv, TypeOK
    <3> QED
      BY <1>4, EventGoes
  <2>2. \A n \in Messages : /\ pc'[n] \in Undelivered => pc[n] \in Undelivered
                            /\ pc'[n] # "done" => pc[n] # "done"
    BY <2>1 DEF Undelivered
  <2> QED
    BY <1>4, <2>1, <2>2, CopiesQuietStep
<1>5. ASSUME NEW m \in Messages, PublishEvent(m), SendToListeners(m) PROVE CopiesInv'
  <2>1. /\ pc[m] = "publish" /\ pc'[m] = "done" /\ \A n \in Messages \ {m} : pc'[n] = pc[n]
        /\ UNCHANGED <<at, received, taken>>
    BY <1>5 DEF PublishEvent, Goto
  <2>2. \A i \in Instances, k \in Slots : queue'[i][k] \in {queue[i][k], Append(queue[i][k], m)}
    BY <1>5 DEF SendToListeners
  <2>3. \A i \in Instances, k \in Slots : ~Holds(queue[i][k], m) /\ ~Took(i, k, m)
    BY <2>1 DEF CopiesInv, SentOnce, Pending
  <2>4. \A i \in Instances, k \in Slots, n \in Messages : n # m => (Holds(queue'[i][k], n) <=> Holds(queue[i][k], n))
    <3> SUFFICES ASSUME NEW i \in Instances, NEW k \in Slots, NEW n \in Messages, n # m
                 PROVE  Holds(queue'[i][k], n) <=> Holds(queue[i][k], n)
      OBVIOUS
    <3>1. queue[i][k] \in Seq(Messages)
      OBVIOUS
    <3>2. Holds(Append(queue[i][k], m), n) <=> Holds(queue[i][k], n)
      BY <3>1, HoldsAppend
    <3>3. CASE queue'[i][k] = queue[i][k]
      BY <3>3
    <3>4. CASE queue'[i][k] = Append(queue[i][k], m)
      BY <3>2, <3>4
    <3> QED
      BY <2>2, <3>3, <3>4
  <2>5. \A i \in Instances, k \in Slots, n \in Messages : Once(queue'[i][k], n)
    <3> SUFFICES ASSUME NEW i \in Instances, NEW k \in Slots, NEW n \in Messages
                 PROVE  Once(queue'[i][k], n)
      OBVIOUS
    <3>1. queue[i][k] \in Seq(Messages) /\ Once(queue[i][k], n)
      BY DEF CopiesInv, SentOnce
    <3>2. Once(Append(queue[i][k], m), n)
      BY <2>3, <3>1, OnceAppend
    <3>3. CASE queue'[i][k] = queue[i][k]
      BY <3>1, <3>3
    <3>4. CASE queue'[i][k] = Append(queue[i][k], m)
      BY <3>2, <3>4
    <3> QED
      BY <2>2, <3>3, <3>4
  <2>6. \A i \in Instances, k \in Slots, n \in Messages : Took(i, k, n)' <=> Took(i, k, n)
    BY <2>1 DEF Took
  <2>7. \A i \in Instances, n \in Messages : n # m => Pending(i, n)' = Pending(i, n)
    BY <2>4, <2>6 DEF Pending
  <2>8. SentOnce'
    <3> SUFFICES ASSUME NEW i \in Instances, NEW k \in Slots, NEW n \in Messages
                 PROVE  /\ Once(queue'[i][k], n)
                        /\ Took(i, k, n)' => ~Holds(queue'[i][k], n)
                        /\ pc'[n] # "done" => k \notin Pending(i, n)'
      BY DEF SentOnce
    <3>1. CASE n = m
      BY <2>1, <2>3, <2>5, <2>6, <3>1
    <3>2. CASE n # m
      BY <2>1, <2>4, <2>5, <2>6, <2>7, <3>2 DEF CopiesInv, SentOnce
    <3> QED
      BY <3>1, <3>2
  <2>9. Allowed'
    <3> SUFFICES ASSUME NEW s \in Sockets, NEW n \in Messages
                 PROVE  /\ pc'[n] \in Undelivered => received[s][n] = 0
                        /\ pc'[n] # "done" => received[s][n] <= FromPublisher(s, n)
                        /\ received[s][n] + Cardinality(Pending(Home[s], n)') <= MaxListeners + FromPublisher(s, n)
      BY <2>1 DEF Allowed, FromPublisher
    <3>1. Home[s] \in Instances /\ received[s][n] \in Nat /\ FromPublisher(s, n) \in Nat
      BY DEF FromPublisher
    <3>2. CASE n = m
      <4>1. received[s][m] <= FromPublisher(s, m)
        BY <2>1 DEF CopiesInv, Allowed
      <4>2. Cardinality(Pending(Home[s], m)') \in Nat /\ Cardinality(Pending(Home[s], m)') <= MaxListeners
        BY PendingCountPrimed
      <4> QED
        BY <2>1, <3>1, <3>2, <4>1, <4>2 DEF Undelivered
    <3>3. CASE n # m
      BY <2>1, <2>7, <3>1, <3>3 DEF CopiesInv, Allowed
    <3> QED
      BY <3>2, <3>3
  <2> QED
    BY <2>8, <2>9 DEF CopiesInv
<1>6. ASSUME NEW i \in Instances, NEW k \in Slots, Take(i, k) PROVE CopiesInv'
  <2> DEFINE q == queue[i][k]
             m == Head(q)
  <2>1. q \in Seq(Messages) /\ q # <<>> /\ UNCHANGED <<pc, at, received>>
    BY <1>6 DEF Take, history
  <2>2. /\ queue'[i][k] = Tail(q)
        /\ \A j \in Instances, h \in Slots : j # i \/ h # k =>
             queue'[j][h] = queue[j][h] /\ taken'[j][h] = taken[j][h]
    BY <1>6 DEF Take
  <2>3. PICK ok \in BOOLEAN :
            taken' = [taken EXCEPT ![i][k] =
                 IF ~Registered(i) THEN Nothing
                 ELSE [msg |-> m, channel |-> channel[i],
                       ignore |-> IF ok THEN IgnoreOn(i, m) ELSE NoSocket]]
    BY <1>6, Zenon DEF Take
  <2>4. \A n \in Messages : Took(i, k, n)' => n = m
    <3>1. taken'[i][k] \in {Nothing, [msg |-> m, channel |-> channel[i],
                                      ignore |-> IF ok THEN IgnoreOn(i, m) ELSE NoSocket]}
      BY <2>3
    <3> QED
      BY <3>1 DEF Took
  <2>5. \A n \in Messages :
            /\ Once(Tail(q), n)
            /\ n = m => ~Holds(Tail(q), n)
            /\ Holds(q, n) <=> n = m \/ Holds(Tail(q), n)
    <3>1. \A n \in Messages : Once(q, n)
      BY DEF CopiesInv, SentOnce
    <3> QED
      BY <2>1, <3>1, OnceTail, HoldsTail
  <2> HIDE DEF q, m
  <2>6. \A j \in Instances, n \in Messages : Pending(j, n)' \subseteq Pending(j, n)
    <3> SUFFICES ASSUME NEW j \in Instances, NEW n \in Messages, NEW h \in Pending(j, n)'
                 PROVE  h \in Pending(j, n)
      OBVIOUS
    <3>1. h \in Slots /\ (Holds(queue'[j][h], n) \/ Took(j, h, n)')
      BY DEF Pending
    <3>2. CASE j # i \/ h # k
      <4>1. queue'[j][h] = queue[j][h] /\ taken'[j][h] = taken[j][h]
        BY <2>2, <3>1, <3>2
      <4> QED
        BY <3>1, <4>1 DEF Pending, Took
    <3>3. CASE j = i /\ h = k
      <4>1. Holds(queue[i][k], n)
        BY <2>2, <2>4, <2>5, <3>1, <3>3 DEF q
      <4> QED
        BY <3>1, <3>3, <4>1 DEF Pending
    <3> QED
      BY <3>2, <3>3
  <2>7. SentOnce'
    <3> SUFFICES ASSUME NEW j \in Instances, NEW h \in Slots, NEW n \in Messages
                 PROVE  /\ Once(queue'[j][h], n)
                        /\ Took(j, h, n)' => ~Holds(queue'[j][h], n)
                        /\ pc[n] # "done" => h \notin Pending(j, n)'
      BY <2>1 DEF SentOnce
    <3> HIDE DEF SocketInv, TypeOK
    <3>1. pc[n] # "done" => h \notin Pending(j, n)'
      BY <2>6 DEF CopiesInv, SentOnce
    <3>2. CASE j # i \/ h # k
      <4>1. queue'[j][h] = queue[j][h] /\ taken'[j][h] = taken[j][h]
        BY <2>2, <3>2
      <4> QED
        BY <3>1, <4>1 DEF CopiesInv, SentOnce, Took
    <3>3. CASE j = i /\ h = k
      BY <2>2, <2>4, <2>5, <3>1, <3>3
    <3> QED
      BY <3>2, <3>3
  <2> QED
    BY <2>1, <2>6, <2>7, CopiesShrink
<1>7. ASSUME NEW i \in Instances, NEW k \in Slots, DeliverTaken(i, k) PROVE CopiesInv'
  <2>0. PICK m \in Messages : m = taken[i][k].msg
    BY <1>7 DEF DeliverTaken, Handled
  <2>1. Took(i, k, m) /\ UNCHANGED <<pc, at, queue>>
    BY <1>7, <2>0 DEF DeliverTaken, Took
  <2>2. taken' = [taken EXCEPT ![i][k] = Nothing]
    BY <1>7 DEF DeliverTaken
  <2>3. \A n \in Messages : Took(i, k, n) => n = m
    BY <2>0 DEF Took
  <2>4. /\ \A j \in Instances, h \in Slots, n \in Messages :
             Took(j, h, n)' <=> Took(j, h, n) /\ (j # i \/ h # k)
    <3>1. taken'[i][k] = Nothing
      BY <2>2
    <3>2. \A j \in Instances, h \in Slots : j # i \/ h # k => taken'[j][h] = taken[j][h]
      BY <2>2
    <3> QED
      BY <3>1, <3>2 DEF Took
  <2>5. /\ \A s \in Sockets, n \in Messages :
             n # m \/ Home[s] # i => received'[s][n] = received[s][n]
        /\ \A s \in Sockets : received'[s][m] \in {received[s][m], received[s][m] + 1}
    <3> HIDE DEF SocketInv, TypeOK
    <3> QED
      BY <1>7, <2>0, DeliverTakenGoes
  <2>6. Pending(i, m)' = Pending(i, m) \ {k} /\ k \in Pending(i, m)
    <3>1. ~Holds(queue[i][k], m)
      BY <2>1 DEF CopiesInv, SentOnce
    <3> QED
      BY <2>1, <2>4, <3>1 DEF Pending
  <2>7. \A j \in Instances, n \in Messages : j # i \/ n # m => Pending(j, n)' = Pending(j, n)
    BY <2>1, <2>3, <2>4 DEF Pending
  <2>8. pc[m] = "done"
    <3> HIDE DEF SocketInv, TypeOK
    <3> QED
      BY <2>1, <2>6 DEF CopiesInv, SentOnce
  <2>9. SentOnce'
    <3>1. \A j \in Instances, n \in Messages : Pending(j, n)' \subseteq Pending(j, n)
      <4>1. Pending(i, m)' \subseteq Pending(i, m)
        BY <2>6
      <4> QED
        <5> SUFFICES ASSUME NEW j \in Instances, NEW n \in Messages
                     PROVE  Pending(j, n)' \subseteq Pending(j, n)
          OBVIOUS
        <5>1. CASE j = i /\ n = m
          BY <4>1, <5>1
        <5>2. CASE j # i \/ n # m
          <6>1. Pending(j, n)' = Pending(j, n)
            BY <2>7, <5>2
          <6> QED
            BY <6>1
        <5> QED
          BY <5>1, <5>2
    <3> HIDE DEF SocketInv, TypeOK
    <3> QED
      BY <2>1, <2>4, <3>1 DEF CopiesInv, SentOnce
  <2>10. Allowed'
    <3> SUFFICES ASSUME NEW s \in Sockets, NEW n \in Messages
                 PROVE  /\ pc[n] \in Undelivered => received'[s][n] = 0
                        /\ pc[n] # "done" => received'[s][n] <= FromPublisher(s, n)
                        /\ received'[s][n] + Cardinality(Pending(Home[s], n)') <= MaxListeners + FromPublisher(s, n)
      BY <2>1 DEF Allowed, FromPublisher
    <3>1. Home[s] \in Instances /\ received[s][n] \in Nat /\ FromPublisher(s, n) \in Nat
      BY DEF FromPublisher
    <3>2. CASE n = m /\ Home[s] = i
      <4>1. /\ Cardinality(Pending(i, m)') = Cardinality(Pending(i, m)) - 1
            /\ Cardinality(Pending(i, m)) \in Nat
        <5>1. IsFiniteSet(Pending(i, m)) /\ Cardinality(Pending(i, m)) \in Nat
          BY PendingCount
        <5>2. \A P : IsFiniteSet(P) /\ k \in P => Cardinality(P \ {k}) = Cardinality(P) - 1
          BY FS_RemoveElement
        <5> QED
          BY <2>6, <5>1, <5>2
      <4>2. received[s][m] + Cardinality(Pending(i, m)) <= MaxListeners + FromPublisher(s, m)
        <5> HIDE DEF SocketInv, TypeOK
        <5> QED
          BY <2>1, <3>2 DEF CopiesInv, Allowed
      <4>3. received'[s][m] + Cardinality(Pending(i, m)') <= MaxListeners + FromPublisher(s, m)
        <5>1. received'[s][m] \in {received[s][m], received[s][m] + 1}
          BY <2>5
        <5> HIDE DEF SocketInv, TypeOK
        <5> QED
          BY <3>1, <3>2, <4>1, <4>2, <5>1, ClusterAssumption
      <4> QED
        BY <2>8, <3>2, <4>3 DEF Undelivered
    <3>3. CASE n # m \/ Home[s] # i
      <4>1. received'[s][n] = received[s][n] /\ Pending(Home[s], n)' = Pending(Home[s], n)
        BY <2>5, <2>7, <3>1, <3>3
      <4> QED
        BY <4>1 DEF CopiesInv, Allowed
    <3> QED
      BY <3>2, <3>3
  <2> QED
    BY <2>9, <2>10 DEF CopiesInv
<1>8. ASSUME NEW i \in Instances, NEW k \in Slots, Lose(i, k) PROVE CopiesInv'
  <2>1. PICK x \in 1 .. Len(queue[i][k]) :
            queue' = [queue EXCEPT ![i][k] = SubSeq(@, 1, x - 1) \o SubSeq(@, x + 1, Len(@))]
    BY <1>8 DEF Lose
  <2>2. UNCHANGED <<pc, at, received, taken>>
    BY <1>8 DEF Lose, history
  <2> DEFINE q == queue[i][k]
             rest == SubSeq(q, 1, x - 1) \o SubSeq(q, x + 1, Len(q))
  <2>3. \A n \in Messages : Once(rest, n) /\ (Holds(rest, n) => Holds(q, n))
    <3>1. q \in Seq(Messages) /\ \A n \in Messages : Once(q, n)
      BY DEF CopiesInv, SentOnce
    <3> QED
      BY <3>1, OnceWithout, HoldsWithout
  <2>4. queue' = [queue EXCEPT ![i][k] = rest]
    BY <2>1
  <2> HIDE DEF rest
  <2>5. \A j \in Instances, h \in Slots, n \in Messages :
            Once(queue'[j][h], n) /\ (Holds(queue'[j][h], n) => Holds(queue[j][h], n))
    <3> SUFFICES ASSUME NEW j \in Instances, NEW h \in Slots, NEW n \in Messages
                 PROVE  Once(queue'[j][h], n) /\ (Holds(queue'[j][h], n) => Holds(queue[j][h], n))
      OBVIOUS
    <3>1. CASE j = i /\ h = k
      <4>1. queue'[j][h] = rest
        BY <2>4, <3>1
      <4> QED
        BY <2>3, <3>1, <4>1
    <3>2. CASE j # i \/ h # k
      <4>1. queue'[j][h] = queue[j][h]
        BY <2>4, <3>2
      <4> QED
        BY <4>1 DEF CopiesInv, SentOnce
    <3> QED
      BY <3>1, <3>2
  <2>6. \A j \in Instances, h \in Slots, n \in Messages : Took(j, h, n)' <=> Took(j, h, n)
    BY <2>2 DEF Took
  <2>7. \A j \in Instances, n \in Messages : Pending(j, n)' \subseteq Pending(j, n)
    BY <2>5, <2>6 DEF Pending
  <2>8. SentOnce'
    BY <2>2, <2>5, <2>6, <2>7 DEF CopiesInv, SentOnce
  <2> QED
    BY <2>2, <2>7, <2>8, CopiesShrink
<1>9. ASSUME NEW i \in Instances, Crash(i) PROVE CopiesInv'
  <2>1. \A m \in Messages : /\ pc'[m] \in Undelivered => pc[m] \in Undelivered
                            /\ pc'[m] # "done" => pc[m] # "done"
    BY <1>9 DEF Crash, Undelivered
  <2>2. /\ \A j \in Instances, k \in Slots : queue'[j][k] \in {queue[j][k], <<>>}
        /\ \A j \in Instances, k \in Slots : taken'[j][k] \in {taken[j][k], Nothing}
    BY <1>9 DEF Crash
  <2>3. UNCHANGED <<at, received>>
    BY <1>9 DEF Crash
  <2> QED
    BY <2>1, <2>2, <2>3, CopiesQuietStep
<1>11. ASSUME NEW m \in Messages, PublishStep(m) PROVE CopiesInv'
  <2>1. CASE PublishLocal(m)
    BY <1>10, <2>1
  <2>2. CASE UNCHANGED queue /\ ~PublishLocal(m)
    BY <1>4, <1>11, <2>2
  <2>3. CASE PublishEvent(m)
    <3>1. UNCHANGED queue \/ SendToListeners(m)
      BY <2>3 DEF PublishEvent
    <3>2. ~PublishLocal(m)
      BY <2>3 DEF PublishEvent, PublishLocal
    <3> QED
      BY <1>5, <2>2, <2>3, <3>1, <3>2
  <2> QED
    BY <1>11, <2>1, <2>2, <2>3, EventGoes
<1> QED
  BY <1>1, <1>2, <1>3, <1>6, <1>7, <1>8, <1>9, <1>11 DEF Next, ListenerStep

-------------------------------------------------------------------------------
(* In which order events reach a client.                                    *)

\* In the queue q every m has an n before it.
Before(q, n, m) ==
    \A x \in 1 .. Len(q) : q[x] = m => \E y \in 1 .. x - 1 : q[y] = n

\* Every listener that may serve s has a copy of n.
Coming(s, n) == \A k \in 1 .. started[Home[s]] : k \in Pending(Home[s], n)

\* Where s is, m has not arrived, and is behind n with every listener.
Behind(s, n, m) ==
    /\ received[s][m] = 0
    /\ \A k \in Slots :
        /\ ~Took(Home[s], k, m)
        /\ Took(Home[s], k, n) \/ Before(queue[Home[s]][k], n, m)

\* What is earlier has been published.
EarlierOK == \A m \in Messages : \A n \in earlier[m] : pc[n] = "done"

\* A Publish that has returned has left a copy with every listener of its recipients.
Reaching ==
    \A n \in Messages \ struck : pc[n] = "done" =>
        \A s \in recorded[n] \ keyless : Home[s] # at[n] =>
            received[s][n] >= 1 \/ Coming(s, n)

\* An event is behind the earlier ones on its way to their recipients.
OrderOK ==
    \A m \in Messages : \A n \in earlier[m] \ struck : at[n] = at[m] =>
        \A s \in recorded[n] \ keyless : Home[s] # at[n] =>
            received[s][n] >= 1 \/ Behind(s, n, m)

OrderInv == EarlierOK /\ Reaching /\ OrderOK

\* An event sent to a listener goes behind those it has (SendToListeners).
LEMMA BeforeAppend ==
    ASSUME NEW q \in Seq(Messages), NEW e \in Messages, NEW n, NEW m,
           Before(q, n, m), e = m => Holds(q, n)
    PROVE  Before(Append(q, e), n, m)
<1>1. /\ Len(Append(q, e)) = Len(q) + 1
      /\ \A x \in 1 .. Len(q) : Append(q, e)[x] = q[x]
      /\ Append(q, e)[Len(q) + 1] = e
      /\ Len(q) \in Nat
  OBVIOUS
<1> SUFFICES ASSUME NEW x \in 1 .. Len(q) + 1, Append(q, e)[x] = m
             PROVE  \E y \in 1 .. x - 1 : Append(q, e)[y] = n
  BY <1>1 DEF Before
<1>2. CASE x = Len(q) + 1
  <2>1. PICK y \in 1 .. Len(q) : q[y] = n
    BY <1>1, <1>2 DEF Holds
  <2> QED
    BY <1>1, <1>2, <2>1
<1>3. CASE x # Len(q) + 1
  <2>1. x \in 1 .. Len(q) /\ q[x] = m
    BY <1>1, <1>3
  <2>2. PICK y \in 1 .. x - 1 : q[y] = n
    BY <2>1 DEF Before
  <2> QED
    BY <1>1, <2>1, <2>2
<1> QED
  BY <1>2, <1>3

\* A listener takes no event before the one that is ahead of it (Take).
LEMMA BeforeTail ==
    ASSUME NEW q \in Seq(Messages), q # <<>>, NEW n, NEW m, Before(q, n, m)
    PROVE  Head(q) # m /\ (Head(q) = n \/ Before(Tail(q), n, m))
<1>1. /\ Len(Tail(q)) = Len(q) - 1
      /\ \A x \in 1 .. Len(q) - 1 : Tail(q)[x] = q[x + 1]
      /\ Head(q) = q[1]
      /\ Len(q) \in Nat /\ Len(q) >= 1
  OBVIOUS
<1>2. Head(q) # m
  BY <1>1 DEF Before
<1>3. ASSUME Head(q) # n, NEW x \in 1 .. Len(Tail(q)), Tail(q)[x] = m
      PROVE  \E y \in 1 .. x - 1 : Tail(q)[y] = n
  <2>1. x + 1 \in 1 .. Len(q) /\ q[x + 1] = m /\ x \in Nat
    BY <1>1, <1>3
  <2>2. PICK y \in 1 .. (x + 1) - 1 : q[y] = n
    BY <2>1 DEF Before
  <2>3. y # 1 /\ y \in Nat /\ y >= 1 /\ y <= x
    BY <1>1, <1>3, <2>1, <2>2
  <2>4. y - 1 \in 1 .. x - 1 /\ y - 1 \in 1 .. Len(q) - 1 /\ (y - 1) + 1 = y
    BY <1>1, <2>1, <2>3
  <2> QED
    BY <1>1, <2>2, <2>4
<1> QED
  BY <1>2, <1>3 DEF Before

\* An event that is lost leaves the others in their order (Lose).
LEMMA BeforeWithout ==
    ASSUME NEW q \in Seq(Messages), NEW x \in 1 .. Len(q), NEW n, NEW m,
           Before(q, n, m), q[x] # n
    PROVE  Before(SubSeq(q, 1, x - 1) \o SubSeq(q, x + 1, Len(q)), n, m)
<1> DEFINE r == SubSeq(q, 1, x - 1) \o SubSeq(q, x + 1, Len(q))
<1>0. Len(q) \in Nat /\ x \in Nat /\ x >= 1 /\ x <= Len(q)
  OBVIOUS
<1>1. /\ Len(r) = Len(q) - 1
      /\ \A y \in 1 .. x - 1 : r[y] = q[y]
      /\ \A y \in x .. Len(q) - 1 : r[y] = q[y + 1]
  BY WithoutOne
<1> HIDE DEF r
<1>2. ASSUME NEW z \in 1 .. Len(r), r[z] = m PROVE \E y \in 1 .. z - 1 : r[y] = n
  <2>1. CASE z < x
    <3>1. z \in 1 .. Len(q) /\ q[z] = m /\ z \in Nat
      BY <1>0, <1>1, <1>2, <2>1
    <3>2. PICK y \in 1 .. z - 1 : q[y] = n
      BY <3>1 DEF Before
    <3> QED
      BY <1>0, <1>1, <2>1, <3>1, <3>2
  <2>2. CASE z >= x
    <3>1. z + 1 \in 1 .. Len(q) /\ q[z + 1] = m /\ z \in Nat
      BY <1>0, <1>1, <1>2, <2>2
    <3>2. PICK y \in 1 .. (z + 1) - 1 : q[y] = n
      BY <3>1 DEF Before
    <3>3. y # x /\ y \in Nat /\ y >= 1 /\ y <= z
      BY <3>1, <3>2
    <3>4. CASE y < x
      BY <1>0, <1>1, <2>2, <3>1, <3>2, <3>3, <3>4
    <3>5. CASE y > x
      <4>1. y - 1 \in x .. Len(q) - 1 /\ y - 1 \in 1 .. z - 1 /\ (y - 1) + 1 = y
        BY <1>0, <1>1, <3>1, <3>3, <3>5
      <4> QED
        BY <1>1, <3>2, <4>1
    <3> QED
      BY <1>0, <3>3, <3>4, <3>5
  <2> QED
    BY <1>0, <1>1, <2>1, <2>2
<1>3. Before(r, n, m)
  BY <1>2 DEF Before
<1> QED
  BY <1>3 DEF r

\* Nothing is published at first.
LEMMA OrderInit == Init => OrderInv
BY DEF Init, OrderInv, EarlierOK, Reaching, OrderOK

\* A step that keeps for each recipient what is on its way to it, and the order it comes
\* in, keeps it.
LEMMA OrderQuietStep ==
    ASSUME SocketInv, OrderInv, UNCHANGED <<at, earlier>>,
           keyless \subseteq keyless', struck \subseteq struck',
           \A m \in Messages : recorded'[m] \subseteq recorded[m],
           \A m \in Messages : pc[m] = "done" => pc'[m] = "done",
           \A n \in Messages \ struck' : \A s \in recorded'[n] \ keyless' : Home[s] # at[n] =>
                /\ received[s][n] >= 1 => received'[s][n] >= 1
                /\ pc'[n] = "done" /\ pc[n] # "done" => received'[s][n] >= 1 \/ Coming(s, n)'
                /\ Coming(s, n) => received'[s][n] >= 1 \/ Coming(s, n)'
                /\ \A m \in Messages :
                     pc[n] = "done" /\ at[m] = at[n] /\ Behind(s, n, m) =>
                        received'[s][n] >= 1 \/ Behind(s, n, m)'
    PROVE  OrderInv'
<1>1. EarlierOK'
  BY DEF OrderInv, EarlierOK, SocketInv, TypeOK
<1>2. ASSUME NEW n \in Messages \ struck', pc'[n] = "done",
             NEW s \in recorded'[n] \ keyless', Home[s] # at[n]
      PROVE  received'[s][n] >= 1 \/ Coming(s, n)'
  <2>1. n \notin struck /\ s \in recorded[n] \ keyless
    OBVIOUS
  <2>2. CASE pc[n] = "done"
    <3>1. received[s][n] >= 1 \/ Coming(s, n)
      BY <1>2, <2>1, <2>2 DEF OrderInv, Reaching
    <3> QED
      BY <1>2, <3>1
  <2>3. CASE pc[n] # "done"
    BY <1>2, <2>3
  <2> QED
    BY <2>2, <2>3
<1>3. ASSUME NEW m \in Messages, NEW n \in earlier[m] \ struck', at[n] = at[m],
             NEW s \in recorded'[n] \ keyless', Home[s] # at[n]
      PROVE  received'[s][n] >= 1 \/ Behind(s, n, m)'
  <2>1. n \in Messages /\ n \notin struck
    BY DEF SocketInv, TypeOK
  <2>2. s \in recorded[n] \ keyless /\ pc[n] = "done"
    BY <2>1 DEF OrderInv, EarlierOK
  <2>3. received[s][n] >= 1 \/ Behind(s, n, m)
    BY <1>3, <2>1, <2>2 DEF OrderInv, OrderOK
  <2> QED
    BY <1>3, <2>1, <2>2, <2>3
<1>4. Reaching'
  BY <1>2 DEF Reaching
<1>5. OrderOK'
  BY <1>3 DEF OrderOK
<1> QED
  BY <1>1, <1>4, <1>5 DEF OrderInv

\* While the listeners of its instance and their queues stay, so does the order.
LEMMA ListenersStay ==
    ASSUME NEW s, NEW n, NEW m,
           started'[Home[s]] = started[Home[s]],
           \A k \in Slots : /\ queue'[Home[s]][k] = queue[Home[s]][k]
                            /\ taken'[Home[s]][k] = taken[Home[s]][k],
           received'[s][m] = received[s][m]
    PROVE  /\ Coming(s, n) => Coming(s, n)'
           /\ Behind(s, n, m) => Behind(s, n, m)'
<1>1. \A e : \A k \in Slots : Took(Home[s], k, e)' <=> Took(Home[s], k, e)
  BY DEF Took
<1>2. \A e : Pending(Home[s], e)' = Pending(Home[s], e)
  BY <1>1 DEF Pending
<1> QED
  BY <1>1, <1>2 DEF Coming, Behind

\* Every step keeps it.  PUBLISH puts an event behind those sent before, a listener takes
\* the oldest first, and one that is lost is struck.
LEMMA OrderStep ==
    ASSUME SocketInv, SocketInv', SenderInv, FoundOK, DueOK, CopiesInv, OrderInv, [Next]_vars
    PROVE  OrderInv'
<1> USE DEF objects, listeners, pubsub, redis, history
<1>a. \A m \in Messages : \A s \in recorded[m] :
        /\ s \in Sockets /\ pc[m] # "new" /\ pc[s] \in {"subscribed", "unsubscribe"}
        /\ s # Ignore[m]
        /\ Home[s] \in Instances /\ s \in Local(Home[s]) /\ Registered(Home[s])
  BY ClusterAssumption DEF SocketInv, TypeOK, RecordedOK, Local
<1>b. /\ \A i \in Instances, k \in Slots : queue[i][k] \in Seq(Messages)
      /\ \A s \in Sockets, m \in Messages : received[s][m] \in Nat
      /\ \A i \in Instances : started[i] \in Nat
      /\ recorded \in [Messages -> SUBSET Sockets]
  BY DEF SocketInv, TypeOK
<1>s. \A m \in Messages : \A s \in recorded'[m] :
        /\ s \in Sockets /\ Home[s] \in Instances /\ started'[Home[s]] = started[Home[s]]
        /\ s \in recorded[m] \/ \E i \in At[m] : PublishRequest(m, i)
  BY StaysFound
<1>t. ASSUME \A m \in Messages : pc[m] = "new" => pc'[m] = "new"
      PROVE  \A m \in Messages : recorded'[m] \subseteq recorded[m]
  <2> SUFFICES ASSUME NEW m \in Messages, NEW s \in recorded'[m], NEW i \in At[m],
                      PublishRequest(m, i)
               PROVE  FALSE
    BY <1>s
  <2>1. pc[m] = "new"
    BY DEF PublishRequest
  <2>2. pc'[m] = "new"
    BY <1>t, <2>1
  <2> QED
    BY <2>2 DEF SocketInv, RecordedOK
<1>1. ASSUME UNCHANGED <<at, earlier, queue, taken, received>>,
             keyless \subseteq keyless', struck \subseteq struck',
             \A m \in Messages : pc[m] = "new" => pc'[m] = "new",
             \A m \in Messages : pc[m] = "done" <=> pc'[m] = "done"
      PROVE  OrderInv'
  <2>0. \A m \in Messages : recorded'[m] \subseteq recorded[m]
    BY <1>1, <1>t
  <2>1. ASSUME NEW n \in Messages \ struck', NEW s \in recorded'[n] \ keyless',
               NEW m \in Messages
        PROVE  /\ Coming(s, n) => Coming(s, n)'
               /\ Behind(s, n, m) => Behind(s, n, m)'
    BY <1>1, <1>s, ListenersStay
  <2> QED
    BY <1>1, <2>0, <2>1, OrderQuietStep
<1>2. ASSUME NEW s \in Sockets, SocketStep(s) PROVE OrderInv'
  BY <1>1, <1>2, SocketGoes
<1>3. CASE ExpireSubscriptions \/ UNCHANGED vars \/ \E s \in Sockets : Expire(s)
  <2>1. UNCHANGED <<pc, at, earlier, queue, taken, received, struck>> /\ keyless \subseteq keyless'
    BY <1>3 DEF ExpireSubscriptions, Expire, vars
  <2> QED
    BY <1>1, <2>1
<1>4. ASSUME NEW m \in Messages, NEW i \in At[m], PublishRequest(m, i) PROVE OrderInv'
  <2>1. /\ pc[m] = "new" /\ pc'[m] # "done" /\ at'[m] = i
        /\ \A n \in Messages \ {m} : pc'[n] = pc[n] /\ at'[n] = at[n]
    <3>1. /\ \E label \in {"add", "deliver"} : \E c : Goto(m, label, c)
          /\ pc[m] = "new" /\ at' = [at EXCEPT ![m] = i]
      BY <1>4 DEF PublishRequest, FindOrCreate
    <3> QED
      BY <3>1 DEF Goto, SocketInv, TypeOK
  <2>2. /\ \A n \in Messages \ {m} : recorded'[n] = recorded[n] /\ earlier'[n] = earlier[n]
        /\ earlier'[m] = {n \in Messages : pc[n] = "done"}
    BY <1>4 DEF PublishRequest, SocketInv, TypeOK
  <2>3. UNCHANGED <<queue, taken, keyless, struck, received>>
    BY <1>4 DEF PublishRequest
  <2>6. EarlierOK'
    <3>1. \A e \in Messages : \A n \in earlier'[e] : n \in Messages /\ pc[n] = "done"
      BY <2>1, <2>2 DEF OrderInv, EarlierOK, SocketInv, TypeOK
    <3> QED
      BY <2>1, <3>1 DEF EarlierOK
  <2>7. ASSUME NEW n \in Messages \ {m}, NEW s \in recorded'[n] \ keyless', NEW e
        PROVE  /\ s \in recorded[n] \ keyless /\ s \in Sockets
               /\ Coming(s, n) => Coming(s, n)'
               /\ Behind(s, n, e) => Behind(s, n, e)'
    <3>1. s \in recorded[n] \ keyless /\ s \in Sockets /\ started'[Home[s]] = started[Home[s]]
      BY <1>s, <2>2, <2>3
    <3> QED
      BY <2>3, <3>1, ListenersStay
  <2>8. Reaching'
    <3> SUFFICES ASSUME NEW n \in Messages \ struck', pc'[n] = "done",
                        NEW s \in recorded'[n] \ keyless', Home[s] # at'[n]
                 PROVE  received'[s][n] >= 1 \/ Coming(s, n)'
      BY DEF Reaching
    <3>1. n # m
      BY <2>1
    <3>2. s \in recorded[n] \ keyless /\ s \in Sockets /\ Home[s] # at[n] /\ pc[n] = "done"
      BY <2>1, <2>7, <3>1
    <3>3. received[s][n] >= 1 \/ Coming(s, n)
      BY <2>3, <3>2 DEF OrderInv, Reaching
    <3> QED
      BY <2>3, <2>7, <3>1, <3>2, <3>3
  <2>9. OrderOK'
    <3> SUFFICES ASSUME NEW e \in Messages, NEW n \in earlier'[e] \ struck', at'[n] = at'[e],
                        NEW s \in recorded'[n] \ keyless', Home[s] # at'[n]
                 PROVE  received'[s][n] >= 1 \/ Behind(s, n, e)'
      BY DEF OrderOK
    <3>1. n \in Messages \ {m}
      BY <2>1, <2>2, <2>6 DEF EarlierOK, OrderInv, SocketInv, TypeOK
    <3>2. s \in recorded[n] \ keyless /\ s \in Sockets
      BY <2>7, <3>1
    <3>3. CASE e # m
      <4>1. received[s][n] >= 1 \/ Behind(s, n, e)
        BY <2>1, <2>2, <2>3, <3>1, <3>2, <3>3 DEF OrderInv, OrderOK
      <4> QED
        BY <2>3, <2>7, <3>1, <3>2, <3>3, <4>1
    <3>4. CASE e = m
      <4>1. Home[s] \in Instances
        BY <1>a, <3>1, <3>2
      <4>2. received'[s][m] = 0
        BY <2>1, <2>3, <3>2 DEF CopiesInv, Allowed, Undelivered
      <4>3. \A k \in Slots : ~Holds(queue[Home[s]][k], m) /\ ~Took(Home[s], k, m)
        BY <2>1, <4>1 DEF CopiesInv, SentOnce, Pending
      <4>4. \A k \in Slots : ~Took(Home[s], k, m)' /\ Before(queue'[Home[s]][k], n, m)
        BY <2>3, <4>3 DEF Took, Holds, Before
      <4> QED
        BY <3>4, <4>2, <4>4 DEF Behind
    <3> QED
      BY <3>3, <3>4
  <2> QED
    BY <2>6, <2>8, <2>9 DEF OrderInv
\* The events published on the instance of a client are delivered there by Publish.
<1>5. ASSUME NEW m \in Messages, PublishLocal(m) PROVE OrderInv'
  <2>1. UNCHANGED <<at, earlier, queue, taken, recorded, keyless, started, struck>>
    BY <1>5 DEF PublishLocal
  <2>2. /\ pc[m] = "deliver" /\ pc'[m] = "members"
        /\ \A n \in Messages \ {m} : pc'[n] = pc[n]
    <3>1. pc[m] = "deliver" /\ Goto(m, "members", NoChannel)
      BY <1>5 DEF PublishLocal
    <3> QED
      BY <3>1 DEF Goto, SocketInv, TypeOK
  <2>3. /\ \A n \in Messages \ {m}, s \in Sockets : received'[s][n] = received[s][n]
        /\ \A s \in Sockets : Home[s] # at[m] => received'[s][m] = received[s][m]
    BY <1>5, PublishLocalGoes
  <2>4. ASSUME NEW n \in Messages \ struck', NEW s \in recorded'[n] \ keyless', Home[s] # at[n]
        PROVE  /\ received[s][n] >= 1 => received'[s][n] >= 1
               /\ pc'[n] = "done" /\ pc[n] # "done" => received'[s][n] >= 1 \/ Coming(s, n)'
               /\ Coming(s, n) => received'[s][n] >= 1 \/ Coming(s, n)'
               /\ \A e \in Messages :
                    pc[n] = "done" /\ at[e] = at[n] /\ Behind(s, n, e) =>
                        received'[s][n] >= 1 \/ Behind(s, n, e)'
    <3>1. s \in Sockets
      BY <1>a, <2>1
    <3>2. received'[s][n] = received[s][n]
      BY <2>3, <2>4, <3>1
    <3>3. \A e \in Messages : at[e] = at[n] => received'[s][e] = received[s][e]
      BY <2>3, <2>4, <3>1
    <3>4. Coming(s, n) => Coming(s, n)'
      BY <2>1 DEF Coming, Pending, Took
    <3>5. \A e \in Messages : at[e] = at[n] /\ Behind(s, n, e) => Behind(s, n, e)'
      BY <2>1, <3>3, ListenersStay
    <3> QED
      BY <2>2, <3>2, <3>4, <3>5
  <2>5. \A n \in Messages : pc[n] = "done" => pc'[n] = "done"
    BY <2>2
  <2> QED
    BY <2>1, <2>4, <2>5, OrderQuietStep
<1>6. ASSUME NEW m \in Messages, PublishEvent(m), SendToListeners(m) PROVE OrderInv'
  <2>1. UNCHANGED <<at, earlier, taken, received, recorded, keyless, started>>
    BY <1>6 DEF PublishEvent
  <2>2. struck \subseteq struck' /\ pc'[m] = "done" /\ \A n \in Messages \ {m} : pc'[n] = pc[n]
    <3>1. Goto(m, "done", NoChannel) /\ struck \subseteq struck'
      BY <1>6 DEF PublishEvent, Strike
    <3> QED
      BY <3>1 DEF Goto, SocketInv, TypeOK
  <2>3. \A j \in Instances, k \in Slots :
            queue'[j][k] = IF k <= started[j] THEN Append(queue[j][k], m) ELSE queue[j][k]
    BY <1>6 DEF SendToListeners
  <2>4. \A j \in Instances, k \in Slots, n \in Messages : Took(j, k, n)' <=> Took(j, k, n)
    BY <2>1 DEF Took
  <2>5. ASSUME NEW j \in Instances, NEW k \in Slots, NEW n \in Messages
        PROVE  /\ k \in Pending(j, n) => k \in Pending(j, n)'
               /\ k <= started[j] => k \in Pending(j, m)'
    <3>1. \A e \in Messages : Holds(Append(queue[j][k], m), e) <=> e = m \/ Holds(queue[j][k], e)
      BY <1>b, HoldsAppend
    <3>2. CASE k <= started[j]
      <4>1. queue'[j][k] = Append(queue[j][k], m)
        BY <2>3, <3>2
      <4> QED
        BY <2>4, <3>1, <4>1 DEF Pending
    <3>3. CASE ~(k <= started[j])
      <4>1. queue'[j][k] = queue[j][k]
        BY <2>3, <3>3
      <4> QED
        BY <2>4, <3>3, <4>1 DEF Pending
    <3> QED
      BY <3>2, <3>3
  <2>6. ASSUME NEW n \in Messages \ struck', NEW s \in recorded'[n] \ keyless', Home[s] # at[n]
        PROVE  /\ received[s][n] >= 1 => received'[s][n] >= 1
               /\ pc'[n] = "done" /\ pc[n] # "done" => received'[s][n] >= 1 \/ Coming(s, n)'
               /\ Coming(s, n) => received'[s][n] >= 1 \/ Coming(s, n)'
               /\ \A e \in Messages :
                    pc[n] = "done" /\ Behind(s, n, e) => received'[s][n] >= 1 \/ Behind(s, n, e)'
    <3>1. Home[s] \in Instances
      BY <1>a, <2>1
    <3>2. \A k \in 1 .. started[Home[s]] : k \in Slots /\ k <= started[Home[s]]
      BY <3>1, ClusterAssumption DEF Slots, SocketInv, TypeOK
    <3>3. Coming(s, n) => Coming(s, n)'
      BY <2>1, <2>5, <3>1, <3>2 DEF Coming
    <3>4. pc'[n] = "done" /\ pc[n] # "done" => Coming(s, n)'
      <4> SUFFICES ASSUME pc'[n] = "done", pc[n] # "done" PROVE Coming(s, n)'
        OBVIOUS
      <4>1. n = m
        BY <2>2
      <4> QED
        BY <2>1, <2>5, <3>1, <3>2, <4>1 DEF Coming
    <3>5. ASSUME NEW e \in Messages, pc[n] = "done", Behind(s, n, e), ~(received[s][n] >= 1)
          PROVE  Behind(s, n, e)'
      <4>1. Coming(s, n)
        BY <2>1, <2>2, <2>6, <3>5 DEF OrderInv, Reaching
      <4>2. ASSUME NEW k \in Slots, ~Took(Home[s], k, n)
            PROVE  Before(queue'[Home[s]][k], n, e)
        <5>1. Before(queue[Home[s]][k], n, e) /\ queue[Home[s]][k] \in Seq(Messages)
          BY <1>b, <3>1, <3>5, <4>2 DEF Behind
        <5>2. CASE k <= started[Home[s]]
          <6>1. k \in 1 .. started[Home[s]]
            BY <1>b, <3>1, <5>2 DEF Slots
          <6>2. Holds(queue[Home[s]][k], n)
            BY <4>1, <4>2, <6>1 DEF Coming, Pending
          <6>3. Before(Append(queue[Home[s]][k], m), n, e)
            BY <5>1, <6>2, BeforeAppend
          <6> QED
            BY <2>3, <3>1, <5>2, <6>3
        <5>3. CASE ~(k <= started[Home[s]])
          <6>1. queue'[Home[s]][k] = queue[Home[s]][k]
            BY <2>3, <3>1, <5>3
          <6> QED
            BY <5>1, <6>1
        <5> QED
          BY <5>2, <5>3
      <4> QED
        BY <2>1, <2>4, <3>1, <3>5, <4>2 DEF Behind
    <3> QED
      BY <2>1, <3>3, <3>4, <3>5
  <2>7. \A n \in Messages : pc[n] = "done" => pc'[n] = "done"
    BY <2>2
  <2> QED
    BY <2>1, <2>2, <2>6, <2>7, OrderQuietStep
<1>7. ASSUME NEW i \in Instances, NEW k \in Slots, Take(i, k) PROVE OrderInv'
  <2>1. PICK q \in Seq(Messages), h \in Messages : q = queue[i][k] /\ h = Head(q) /\ q # <<>>
    BY <1>7, <1>b, HoldsTail DEF Take
  <2>2. UNCHANGED <<pc, at, earlier, received, recorded, keyless, started>>
    BY <1>7 DEF Take
  <2>3. /\ taken[i][k] = Nothing
        /\ queue'[i][k] = Tail(q)
        /\ \A j \in Instances, g \in Slots : j # i \/ g # k =>
             queue'[j][g] = queue[j][g] /\ taken'[j][g] = taken[j][g]
    BY <1>7, <2>1 DEF Take, SocketInv, TypeOK
  <2>4. PICK ok \in BOOLEAN :
            /\ Strike(ok, h)
            /\ taken' = [taken EXCEPT ![i][k] =
                 IF ~Registered(i) THEN Nothing
                 ELSE [msg |-> h, channel |-> channel[i],
                       ignore |-> IF ok THEN IgnoreOn(i, h) ELSE NoSocket]]
    BY <1>7, <2>1, Zenon DEF Take
  <2>5. struck \subseteq struck'
    BY <2>4 DEF Strike
  <2>6. Registered(i) => \A n \in Messages : Took(i, k, n)' <=> n = h
    <3> SUFFICES ASSUME Registered(i), NEW n \in Messages PROVE Took(i, k, n)' <=> n = h
      OBVIOUS
    <3>1. taken'[i][k] = [msg |-> h, channel |-> channel[i],
                          ignore |-> IF ok THEN IgnoreOn(i, h) ELSE NoSocket]
      BY <2>4 DEF SocketInv, TypeOK
    <3>2. taken'[i][k].msg = h
      BY <3>1
    <3>3. "ignore" \in DOMAIN taken'[i][k] /\ "ignore" \notin DOMAIN Nothing
      BY <3>1 DEF Nothing
    <3> QED
      BY <3>2, <3>3 DEF Took
  <2>7. ASSUME NEW n \in Messages \ struck', NEW s \in recorded'[n] \ keyless', NEW m \in Messages
        PROVE  /\ Coming(s, n) => Coming(s, n)'
               /\ Behind(s, n, m) => Behind(s, n, m)'
    <3>1. Home[s] \in Instances /\ Registered(Home[s])
      BY <1>a, <2>2
    <3>2. CASE Home[s] # i
      BY <2>2, <2>3, <3>1, <3>2, ListenersStay
    <3>3. CASE Home[s] = i
      <4>1. \A g \in Slots \ {k}, e \in Messages :
                /\ Took(i, g, e)' <=> Took(i, g, e)
                /\ queue'[i][g] = queue[i][g]
        BY <2>3 DEF Took
      <4>2. Holds(q, n) => n = h \/ Holds(Tail(q), n)
        BY <2>1, HoldsTail
      <4>3. \A e \in Messages : ~Took(i, k, e)
        BY <2>3 DEF Took
      <4>4. Coming(s, n) => Coming(s, n)'
        <5> SUFFICES ASSUME Coming(s, n), NEW g \in 1 .. started[i] PROVE g \in Pending(i, n)'
          BY <2>2, <3>3 DEF Coming
        <5>1. g \in Slots /\ (Holds(queue[i][g], n) \/ Took(i, g, n))
          BY <3>3 DEF Coming, Pending
        <5>2. CASE g # k
          BY <4>1, <5>1, <5>2 DEF Pending
        <5>3. CASE g = k
          BY <2>1, <2>3, <2>6, <3>1, <3>3, <4>2, <4>3, <5>1, <5>3 DEF Pending
        <5> QED
          BY <5>2, <5>3
      <4>5. ASSUME Behind(s, n, m) PROVE Behind(s, n, m)'
        <5>1. /\ Before(q, n, m)
              /\ \A g \in Slots : ~Took(i, g, m) /\ (Took(i, g, n) \/ Before(queue[i][g], n, m))
          BY <2>1, <3>3, <4>3, <4>5 DEF Behind
        <5>2. h # m /\ (h = n \/ Before(Tail(q), n, m))
          BY <2>1, <5>1, BeforeTail
        <5>3. ~Took(i, k, m)' /\ (Took(i, k, n)' \/ Before(queue'[i][k], n, m))
          BY <2>3, <2>6, <3>1, <3>3, <5>2
        <5> QED
          BY <2>2, <3>3, <4>1, <4>5, <5>1, <5>3 DEF Behind
      <4> QED
        BY <4>4, <4>5
    <3> QED
      BY <3>2, <3>3
  <2> QED
    BY <2>2, <2>5, <2>7, OrderQuietStep
<1>8. ASSUME NEW i \in Instances, NEW k \in Slots, DeliverTaken(i, k) PROVE OrderInv'
  <2> DEFINE h == taken[i][k].msg
             c == taken[i][k].channel
             left == taken[i][k].ignore
  <2>1. /\ taken[i][k] # Nothing /\ h \in Messages
        /\ \A n \in Messages \ {h}, s \in Sockets : received'[s][n] = received[s][n]
        /\ \A s \in Sockets : Home[s] # i => received'[s][h] = received[s][h]
        /\ \A s \in subs[i][c] : s # left /\ pc[s] # "gone" =>
                received'[s][h] = received[s][h] + 1
        /\ \A n \in Messages, s \in Sockets : received'[s][n] >= received[s][n]
    BY <1>8, DeliverTakenGoes
  <2>2. UNCHANGED <<pc, at, earlier, queue, recorded, keyless, started, struck>>
    BY <1>8 DEF DeliverTaken
  <2>3. taken' = [taken EXCEPT ![i][k] = Nothing]
    BY <1>8 DEF DeliverTaken
  <2>4. left \in {NoSocket, Ignore[h]}
    BY <2>1 DEF SenderInv, QueuedOK
  <2>5. /\ \A n \in Messages : Took(i, k, n) <=> n = h
        /\ \A j \in Instances, g \in Slots, n \in Messages :
             j # i \/ g # k => (Took(j, g, n)' <=> Took(j, g, n)) /\ taken'[j][g] = taken[j][g]
        /\ \A n \in Messages : ~Took(i, k, n)'
    BY <2>1, <2>3 DEF Took, SocketInv, TypeOK
  <2>6. \A s \in recorded[h] : Home[s] = i => s \in subs[i][c]
    BY <1>a, <2>1 DEF FoundOK, Local
  <2> HIDE DEF h, c, left
  <2>7. ASSUME NEW n \in Messages \ struck', NEW s \in recorded'[n] \ keyless', NEW m \in Messages
        PROVE  /\ received[s][n] >= 1 => received'[s][n] >= 1
               /\ Coming(s, n) => received'[s][n] >= 1 \/ Coming(s, n)'
               /\ Behind(s, n, m) => received'[s][n] >= 1 \/ Behind(s, n, m)'
    <3>1. /\ s \in Sockets /\ Home[s] \in Instances /\ s # Ignore[n] /\ pc[s] # "gone"
          /\ s \in recorded[n]
      <4>1. s \in Sockets /\ Home[s] \in Instances /\ s # Ignore[n]
            /\ pc[s] \in {"subscribed", "unsubscribe"}
        BY <1>a, <2>2
      <4> QED
        BY <2>2, <4>1
    <3>2. received[s][n] >= 1 => received'[s][n] >= 1
      <4>1. received[s][n] \in Nat /\ received'[s][n] \in Nat
        BY <3>1 DEF SocketInv, TypeOK
      <4> QED
        BY <2>1, <3>1, <4>1
    <3>3. CASE Home[s] # i
      <4>1. \A e \in Messages : received'[s][e] = received[s][e]
        BY <2>1, <3>1, <3>3
      <4>2. \A g \in Slots : queue'[Home[s]][g] = queue[Home[s]][g]
                            /\ taken'[Home[s]][g] = taken[Home[s]][g]
        BY <2>2, <2>5, <3>1, <3>3
      <4>3. started'[Home[s]] = started[Home[s]]
        BY <2>2
      <4> QED
        BY <3>2, <4>1, <4>2, <4>3, ListenersStay
    <3>4. CASE Home[s] = i /\ n = h
      <4>1. s # NoSocket
        BY <3>1, ClusterAssumption
      <4> QED
        <5>1. s \in subs[i][c] /\ s # left
          BY <2>4, <2>6, <3>1, <3>4, <4>1
        <5>2. received'[s][n] = received[s][n] + 1
          BY <2>1, <3>1, <3>4, <5>1
        <5> QED
          BY <1>b, <3>1, <5>2
    <3>5. CASE Home[s] = i /\ n # h
      <4>1. \A g \in Slots : Took(i, g, n)' <=> Took(i, g, n)
        BY <2>5, <3>5
      <4>2. Coming(s, n) => Coming(s, n)'
        BY <2>2, <3>5, <4>1 DEF Coming, Pending
      <4>3. ASSUME Behind(s, n, m) PROVE Behind(s, n, m)'
        <5>1. m # h
          BY <2>5, <3>5, <4>3 DEF Behind
        <5>2. received'[s][m] = 0
          BY <2>1, <3>1, <4>3, <5>1 DEF Behind
        <5>3. \A g \in Slots : Took(i, g, m)' => Took(i, g, m)
          BY <2>5
        <5> QED
          BY <2>2, <3>5, <4>1, <4>3, <5>2, <5>3 DEF Behind
      <4> QED
        BY <3>2, <4>2, <4>3
    <3> QED
      BY <3>3, <3>4, <3>5
  <2> QED
    BY <2>2, <2>7, OrderQuietStep
<1>9. ASSUME NEW i \in Instances, NEW k \in Slots, Lose(i, k) PROVE OrderInv'
  <2>1. PICK x \in 1 .. Len(queue[i][k]) :
            /\ queue' = [queue EXCEPT ![i][k] = SubSeq(@, 1, x - 1) \o SubSeq(@, x + 1, Len(@))]
            /\ Strike(FALSE, queue[i][k][x])
    BY <1>9 DEF Lose
  <2>2. UNCHANGED <<pc, at, earlier, taken, received, recorded, keyless, started>>
    BY <1>9 DEF Lose
  <2>3. PICK q \in Seq(Messages) : q = queue[i][k]
    BY <1>b
  <2>4. struck' = struck \cup {q[x]}
    BY <2>1, <2>3 DEF Strike
  <2> DEFINE rest == SubSeq(q, 1, x - 1) \o SubSeq(q, x + 1, Len(q))
  <2>5. queue' = [queue EXCEPT ![i][k] = rest]
    BY <2>1, <2>3
  <2>6. \A n \in Messages \ struck' :
            /\ Holds(q, n) => Holds(rest, n)
            /\ \A m \in Messages : Before(q, n, m) => Before(rest, n, m)
    BY <2>3, <2>4, HoldsWithout, BeforeWithout
  <2> HIDE DEF rest
  <2>7. \A j \in Instances, g \in Slots :
            queue'[j][g] = IF j = i /\ g = k THEN rest ELSE queue[j][g]
    BY <2>5 DEF SocketInv, TypeOK
  <2>8. \A j \in Instances, g \in Slots, n \in Messages : Took(j, g, n)' <=> Took(j, g, n)
    BY <2>2 DEF Took
  <2>9. ASSUME NEW n \in Messages \ struck', NEW s \in recorded'[n] \ keyless', NEW m \in Messages
        PROVE  /\ Coming(s, n) => Coming(s, n)'
               /\ Behind(s, n, m) => Behind(s, n, m)'
    <3>1. Home[s] \in Instances
      BY <1>a, <2>2
    <3>2. \A g \in Slots :
            /\ Holds(queue[Home[s]][g], n) => Holds(queue'[Home[s]][g], n)
            /\ Before(queue[Home[s]][g], n, m) => Before(queue'[Home[s]][g], n, m)
      BY <2>3, <2>6, <2>7, <3>1
    <3> QED
      BY <2>2, <2>8, <3>1, <3>2 DEF Coming, Behind, Pending
  <2> QED
    BY <2>2, <2>4, <2>9, OrderQuietStep
<1>10. ASSUME NEW i \in Instances, Crash(i) PROVE OrderInv'
  <2>1. /\ UNCHANGED <<at, earlier, received, keyless, struck>>
        /\ \A m \in Messages : recorded'[m] \subseteq recorded[m]
        /\ \A m \in Messages, s \in Sockets : s \in recorded'[m] => Home[s] # i
    BY <1>10, <1>a DEF Crash, NoLongerDue, SocketInv, TypeOK
  <2>2. /\ \A m \in Messages : pc[m] = "done" => pc'[m] = "done"
        /\ \A m \in Messages : pc'[m] = "done" => pc[m] = "done"
    BY <1>10, ClusterAssumption DEF Crash
  <2>3. \A j \in Instances \ {i} :
            started'[j] = started[j] /\ queue'[j] = queue[j] /\ taken'[j] = taken[j]
    BY <1>10 DEF Crash, SocketInv, TypeOK
  <2>4. ASSUME NEW n \in Messages \ struck', NEW s \in recorded'[n] \ keyless', NEW m \in Messages
        PROVE  /\ Coming(s, n) => Coming(s, n)'
               /\ Behind(s, n, m) => Behind(s, n, m)'
    <3>1. Home[s] \in Instances \ {i}
      BY <1>a, <2>1
    <3> QED
      BY <2>1, <2>3, <3>1, ListenersStay
  <2> QED
    BY <2>1, <2>2, <2>4, OrderQuietStep
<1>11. ASSUME NEW m \in Messages, PublishStep(m), ~PublishLocal(m),
              ~(PublishEvent(m) /\ SendToListeners(m))
       PROVE  OrderInv'
  <2>1. /\ UNCHANGED <<at, earlier, taken, received, keyless>> /\ struck \subseteq struck'
        /\ \A n \in Messages \ {m} : pc'[n] = pc[n]
        /\ pc[m] \notin {"new", "done"}
    BY <1>11, EventGoes
  <2>2. UNCHANGED queue
    <3>1. CASE PublishEvent(m)
      BY <1>11, <3>1 DEF PublishEvent
    <3> QED
      BY <1>11, <3>1, EventGoes
  <2>3. \A n \in Messages : recorded'[n] \subseteq recorded[n]
    <3>1. \A n \in Messages : pc[n] = "new" => pc'[n] = "new"
      BY <2>1
    <3> QED
      BY <1>t, <3>1
  <2>4. pc'[m] # "done" \/ m \in struck' \/ (pc[m] = "lookup" /\ asked[m] = {})
    <3>0. pc \in [Sockets \cup Messages -> SocketPCs \cup MessagePCs]
      BY DEF SocketInv, TypeOK
    <3>1. CASE GetChannelSubscriptions(m)
      <4>1. PICK ok \in BOOLEAN :
                Strike(ok, m) /\ Goto(m, IF ok THEN "lookup" ELSE "done", NoChannel)
        BY <3>1, Zenon DEF GetChannelSubscriptions
      <4> QED
        BY <3>0, <4>1 DEF Strike, Goto
    <3>2. ASSUME NEW s \in Sockets, GetConnectionInstance(m, s) PROVE pc'[m] # "done"
      <4>1. pc[m] = "lookup" /\ (Goto(m, "publish", NoChannel) \/ UNCHANGED pc)
        BY <3>2 DEF GetConnectionInstance
      <4> QED
        BY <3>0, <4>1 DEF Goto
    <3>3. CASE PublishEvent(m)
      BY <1>11, <3>3 DEF PublishEvent, Strike
    <3>4. CASE AddChannel(m, at[m], "deliver")
      <4>1. Goto(m, "deliver", cur[m])
        BY <3>4 DEF AddChannel
      <4> QED
        BY <3>0, <4>1 DEF Goto
    <3> QED
      BY <1>11, <3>1, <3>2, <3>3, <3>4 DEF PublishStep, NoRemoteSubscriber
  <2>5. ASSUME NEW n \in Messages \ struck', NEW s \in recorded'[n] \ keyless',
               Home[s] # at[n], pc'[n] = "done", pc[n] # "done"
        PROVE  received'[s][n] >= 1 \/ Coming(s, n)'
    <3>1. n = m /\ pc[m] = "lookup" /\ asked[m] = {} /\ m \notin struck
      BY <2>1, <2>4, <2>5
    <3>2. s \in recorded[m] \ keyless
      BY <2>1, <2>3, <2>5, <3>1
    <3>3. received[s][m] >= 1 \/ Deaf(Home[s])
      BY <2>5, <3>1, <3>2 DEF DueOK, InReach
    <3>4. Deaf(Home[s]) => Coming(s, n)'
      BY <1>s DEF Deaf, Coming
    <3> QED
      BY <2>1, <3>1, <3>3, <3>4
  <2>6. ASSUME NEW n \in Messages, NEW s \in recorded'[n], NEW e
        PROVE  /\ Coming(s, n) => Coming(s, n)'
               /\ Behind(s, n, e) => Behind(s, n, e)'
    BY <1>s, <2>1, <2>2, ListenersStay
  <2>7. \A n \in Messages : pc[n] = "done" => pc'[n] = "done"
    BY <2>1
  <2> QED
    BY <2>1, <2>3, <2>5, <2>6, <2>7, OrderQuietStep
<1> QED
  <2>1. ASSUME NEW m \in Messages, PublishStep(m) PROVE OrderInv'
    BY <1>5, <1>6, <1>11, <2>1
  <2> QED
    BY <1>2, <1>3, <1>4, <1>7, <1>8, <1>9, <1>10, <2>1 DEF Next, ListenerStep

-------------------------------------------------------------------------------
\* All of it holds in every state.
THEOREM Invariance ==
    Spec => [](SocketInv /\ SenderInv /\ FoundOK /\ DueOK /\ CopiesInv /\ OrderInv)
<1> DEFINE Inv == SocketInv /\ SenderInv /\ FoundOK /\ DueOK /\ CopiesInv /\ OrderInv
<1>1. Init => Inv
  BY SocketInit, SenderInit, DueInit, CopiesInit, OrderInit
<1>2. Inv /\ [Next]_vars => Inv'
  <2> SUFFICES ASSUME Inv, [Next]_vars PROVE Inv'
    OBVIOUS
  <2>1. SocketInv' /\ SenderInv'
    BY SocketInvStep, SenderInvStep
  <2>2. FoundOK' /\ DueOK'
    BY <2>1, FoundStep, DueStep
  <2>3. CopiesInv' /\ OrderInv'
    BY <2>1, CopiesStep, OrderStep
  <2> QED
    BY <2>1, <2>2, <2>3
<1> QED
  BY <1>1, <1>2, PTL DEF Spec

\* The variables of the cluster keep their types: every socket in an object of an instance,
\* whether the map has the object or not, is connected to that instance (app.go:481-487).
THEOREM ClusterTypeCorrect == Spec => []TypeOK
<1>1. SocketInv => TypeOK
  BY DEF SocketInv
<1> QED
  BY <1>1, Invariance, PTL

\* No listener and no publisher sends an event back to the socket it came from, whatever
\* crashes, as long as its connection key lives and no command about the event has
\* failed (app.go:330-341, channel.go:288-298).
THEOREM NoEcho == Spec => []SenderNeverEchoed
<1>1. SenderInv => SenderNeverEchoed
  BY DEF SenderInv
<1> QED
  BY <1>1, Invariance, PTL

\* Whom Redis had as a subscriber when an event was published, and whose channel stays in
\* the map of its instance, has the event once no copy is on its way, unless a failure
\* struck it or left the instance without a listener: whoever publishes, delivers or
\* listens finds that object, while others create, replace and remove theirs
\* (app.go:235-283, 305, 351-374, 395-447).
THEOREM SubscribersGetEvents == Spec => []SubscribersReceive
<1>1. SocketInv /\ SenderInv /\ DueOK => SubscribersReceive
  <2> SUFFICES ASSUME SocketInv, DueOK, NEW m \in Messages, Settled(m),
                      NEW s \in recorded[m] \ keyless
               PROVE  \/ received[s][m] >= 1
                      \/ Home[s] # at[m] /\ (m \in struck \/ Deaf(Home[s]))
    BY DEF SubscribersReceive
  <2>1. Home[s] \in Instances
    BY ClusterAssumption DEF SocketInv, TypeOK
  <2>2. ~OnItsWay(Home[s], m)
    BY <2>1 DEF Settled, OnItsWay, Holds
  <2>3. pc[m] = "done"
    BY DEF Settled
  <2> QED
    BY <2>2, <2>3 DEF DueOK, InReach
<1> QED
  BY <1>1, Invariance, PTL

\* An event reaches a client at most once from its publisher and once from each listener
\* its instance has ever started: PUBLISH is called once, however many of its subscribers
\* are remote, and a listener handles its copy once (app.go:330-343, 395-447).
THEOREM CopiesAreBounded == Spec => []CopiesBounded
<1>1. SocketInv /\ CopiesInv => CopiesBounded
  <2> SUFFICES ASSUME SocketInv, CopiesInv, NEW s \in Sockets, NEW m \in Messages
               PROVE  received[s][m] <= MaxListeners + FromPublisher(s, m)
    BY DEF CopiesBounded, FromPublisher
  <2>1. received[s][m] + Cardinality(Pending(Home[s], m)) <= MaxListeners + FromPublisher(s, m)
    BY DEF CopiesInv, Allowed
  <2>2. Cardinality(Pending(Home[s], m)) \in Nat
    BY PendingCount
  <2>3. received[s][m] \in Nat /\ MaxListeners \in Nat /\ FromPublisher(s, m) \in Nat
    BY ClusterAssumption DEF SocketInv, TypeOK, FromPublisher
  <2> QED
    BY <2>1, <2>2, <2>3
<1> QED
  BY <1>1, Invariance, PTL

\* Two events published one after the other on an instance arrive in that order at
\* whoever Redis had as a subscriber, unless a failure struck the first: Publish returns
\* after PUBLISH, and a listener handles one event at a time (app.go:301-346, 395-447).
THEOREM EventsInOrder == Spec => []InOrder
<1>1. SocketInv /\ DueOK /\ OrderInv => InOrder
  <2> SUFFICES ASSUME SocketInv, DueOK, OrderInv, NEW m \in Messages,
                      NEW n \in earlier[m] \ struck, at[n] = at[m],
                      NEW s \in recorded[n] \ keyless, received[s][m] >= 1
               PROVE  received[s][n] >= 1
    BY DEF InOrder
  <2>1. n \in Messages /\ pc[n] = "done"
    BY DEF SocketInv, TypeOK, OrderInv, EarlierOK
  <2>2. CASE Home[s] = at[n]
    BY <2>1, <2>2 DEF DueOK
  <2>3. CASE Home[s] # at[n]
    <3>1. received[s][n] >= 1 \/ received[s][m] = 0
      BY <2>3 DEF OrderInv, OrderOK, Behind
    <3> QED
      BY <3>1
  <2> QED
    BY <2>2, <2>3
<1> QED
  BY <1>1, Invariance, PTL
===============================================================================
