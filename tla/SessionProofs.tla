----------------------------- MODULE SessionProofs -----------------------------
(***************************************************************************)
(* What a session may subscribe to and publish, and what is left of it,    *)
(* for any set of channel names of any kinds, after frames of any number   *)
(* and order.                                                              *)
(***************************************************************************)
EXTENDS Session, TLAPS

\* Before the read loop starts nothing is subscribed.
NotYet == phase \in {"upgraded", "connected"} => subscribed = {} /\ stranded = {}

\* The range of Disconnect has not passed over a channel that the socket is in.
Leaving == phase = "leaving" => subscribed \subseteq todo

\* Outside that loop it has nothing to produce.
Idle == phase # "leaving" => todo = {}

SessionInv ==
    TypeOK /\ NotYet /\ Leaving /\ Idle /\ NothingLeft /\ SubscriptionsSigned /\ ClientEventsProtected

\* The socket enters a channel whose signature was valid, or that needs none.
LEMMA SubscribeSigned ==
    ASSUME TypeOK, SubscriptionsSigned, NEW f \in Frames, Subscribe(f)
    PROVE  SubscriptionsSigned'
<1>1. CASE registered /\ Accepted(f)
  <2>1. f.channel \in Protected => f.signed
    BY <1>1 DEF Accepted
  <2>2. (subscribed \cup stranded)' \subseteq subscribed \cup stranded \cup {f.channel}
    BY <1>1 DEF Subscribe, Enter
  <2>3. signed' = IF f.signed THEN signed \cup {f.channel} ELSE signed
    BY DEF Subscribe
  <2> QED
    BY <2>1, <2>2, <2>3 DEF SubscriptionsSigned, Protected
<1>2. CASE ~(registered /\ Accepted(f))
  BY <1>2 DEF Subscribe, members, SubscriptionsSigned, Protected
<1> QED
  BY <1>1, <1>2

\* Leaving a channel makes no subscription, in the map or out of it.
LEMMA LeaveMembers ==
    ASSUME TypeOK, NEW c \in Channels, Leave(c)
    PROVE  /\ exists' \subseteq Channels /\ subscribed' \subseteq exists'
           /\ subscribed' = subscribed \ {c} /\ stranded' = stranded
BY DEF Leave, TypeOK

\* Neither does the removal or the replacement of a channel by others.
LEMMA DropMembers ==
    ASSUME TypeOK, SubscriptionsSigned, NEW c \in Channels, Drop(c)
    PROVE  /\ stranded' \subseteq Channels
           /\ subscribed' = subscribed \ {c}
           /\ SubscriptionsSigned'
BY DEF Drop, TypeOK, SubscriptionsSigned, Protected

\* A client event is published by the kind of its channel, whatever frame gave it its
\* event name.
LEMMA PublishProtected ==
    ASSUME ClientEventsProtected, NEW f \in Frames, ClientEvent(f)
    PROVE  ClientEventsProtected'
<1>1. CASE Publishable(f)
  <2>1. published' = published \cup {<<f.channel, f.event>>} /\ f.channel \in Protected
    BY <1>1 DEF ClientEvent, Publishable
  <2> QED
    BY <2>1 DEF ClientEventsProtected, Protected
<1>2. CASE ~Publishable(f)
  BY <1>2 DEF ClientEvent, ClientEventsProtected, Protected
<1> QED
  BY <1>1, <1>2

-------------------------------------------------------------------------------
\* The initial states satisfy the invariant.
LEMMA InvInit == Init => SessionInv
BY DEF Init, SessionInv, TypeOK, NotYet, Leaving, Idle, NothingLeft, SubscriptionsSigned,
   ClientEventsProtected, Events, Connected

\* Every frame, every end of the session and every step of others keeps it.
LEMMA InvStep == SessionInv /\ [Next]_vars => SessionInv'
<1> SUFFICES ASSUME SessionInv, [Next]_vars PROVE SessionInv'
  OBVIOUS
<1> USE DEF SessionInv, Connected
<1>1. ASSUME NEW r \in Requests, Open(r) PROVE SessionInv'
  BY <1>1 DEF Open, members, TypeOK, Connected, NotYet, Leaving, Idle,
     NothingLeft, SubscriptionsSigned, ClientEventsProtected, Protected
<1>2. ASSUME Establish PROVE SessionInv'
  BY <1>2 DEF Establish, members, TypeOK, Connected, NotYet, Leaving, Idle,
     NothingLeft, SubscriptionsSigned, ClientEventsProtected, Protected
<1>3. ASSUME NEW f \in Frames, Receive(f) PROVE event' \in Events \cup {"absent"}
  BY <1>3 DEF Receive, Decoded, Frames, TypeOK
<1>4. ASSUME NEW f \in Frames, Answer(f) PROVE SessionInv'
  BY <1>3, <1>4 DEF Answer, application, members, TypeOK, Connected, NotYet, Leaving, Idle,
     NothingLeft, SubscriptionsSigned, ClientEventsProtected, Protected
<1>5. ASSUME NEW f \in Frames, Subscribe(f) PROVE SessionInv'
  <2>1. phase = "serving" /\ phase' = phase /\ event' \in Events \cup {"absent"}
        /\ todo' = todo
    BY <1>3, <1>5 DEF Subscribe, Receive
  <2>2. f.channel \in Channels
    BY DEF Frames
  <2>3. exists' \subseteq Channels /\ exists \subseteq exists' /\ subscribed' \subseteq exists'
        /\ stranded' \subseteq Channels
    BY <1>5, <2>2 DEF Subscribe, Enter, members, TypeOK
  <2>4. TypeOK'
    BY <1>5, <2>1, <2>2, <2>3 DEF Subscribe, TypeOK
  <2>5. (NotYet /\ Leaving /\ Idle /\ NothingLeft)'
    BY <2>1 DEF NotYet, Leaving, Idle, NothingLeft
  <2>6. ClientEventsProtected'
    BY <1>5 DEF Subscribe, ClientEventsProtected, Protected
  <2> QED
    BY <1>5, <2>4, <2>5, <2>6, SubscribeSigned
<1>6. ASSUME NEW f \in Frames, Unsubscribe(f) PROVE SessionInv'
  <2>1. phase = "serving" /\ phase' = phase /\ event' \in Events \cup {"absent"}
        /\ UNCHANGED <<config, socket, registered, todo, signed, published>>
    BY <1>3, <1>6 DEF Unsubscribe, Receive
  <2>2. todo = {} => TypeOK' /\ SubscriptionsSigned'
    <3>1. CASE UNCHANGED members
      BY <2>1, <3>1 DEF members, TypeOK, SubscriptionsSigned, Protected
    <3>2. CASE Leave(f.channel)
      BY <2>1, <3>2, LeaveMembers DEF Frames, TypeOK, SubscriptionsSigned, Protected
    <3> QED
      BY <1>6, <3>1, <3>2 DEF Unsubscribe
  <2>3. (NotYet /\ Leaving /\ Idle /\ NothingLeft)'
    BY <2>1 DEF NotYet, Leaving, Idle, NothingLeft
  <2>4. ClientEventsProtected'
    BY <2>1 DEF ClientEventsProtected, Protected
  <2> QED
    BY <2>1, <2>2, <2>3, <2>4 DEF Idle
<1>7. ASSUME NEW f \in Frames, ClientEvent(f) PROVE SessionInv'
  <2>1. phase = "serving" /\ phase' = phase /\ event' \in Events \cup {"absent"}
    BY <1>3, <1>7 DEF ClientEvent, Receive
  <2>2. f.channel \in Channels /\ f.event \in Events \cup {"absent"}
    BY DEF Frames
  <2>3. TypeOK'
    BY <1>7, <2>1, <2>2 DEF ClientEvent, application, members, TypeOK
  <2>4. (NotYet /\ Leaving /\ Idle /\ NothingLeft /\ SubscriptionsSigned)'
    BY <1>7, <2>1 DEF ClientEvent, application, members, NotYet, Leaving, Idle, NothingLeft,
       SubscriptionsSigned, Protected
  <2> QED
    BY <1>7, <2>3, <2>4, PublishProtected
<1>8. ASSUME NEW f \in Frames, Garbage(f) PROVE SessionInv'
  BY <1>8 DEF Garbage, application, members, TypeOK, Connected, NotYet, Leaving, Idle,
     NothingLeft, SubscriptionsSigned, ClientEventsProtected, Protected
<1>9. ASSUME ReadError PROVE SessionInv'
  BY <1>9 DEF ReadError, application, members, TypeOK, Connected, NotYet, Leaving, Idle,
     NothingLeft, SubscriptionsSigned, ClientEventsProtected, Protected
<1>10. ASSUME OnClose PROVE SessionInv'
  BY <1>10 DEF OnClose, members, TypeOK, Connected, NotYet, Leaving, Idle,
     NothingLeft, SubscriptionsSigned, ClientEventsProtected, Protected
<1>11. ASSUME NEW c \in Channels, Visit(c) PROVE SessionInv'
  <2>1. phase = "leaving" /\ c \in todo /\ todo' = todo \ {c}
        /\ UNCHANGED <<config, phase, socket, registered, event, signed, published>>
    BY <1>11 DEF Visit
  <2>2. CASE c \notin subscribed /\ UNCHANGED members
    BY <2>1, <2>2 DEF members, TypeOK, Connected, NotYet, Leaving, Idle,
     NothingLeft, SubscriptionsSigned, ClientEventsProtected, Protected
  <2>3. CASE Leave(c)
    <3>1. exists' \in {exists, exists \ {c}}
      BY <2>3 DEF Leave
    <3> QED
      BY <2>1, <2>3, <3>1, LeaveMembers DEF TypeOK, Connected, NotYet, Leaving, Idle,
     NothingLeft, SubscriptionsSigned, ClientEventsProtected, Protected
  <2> QED
    BY <1>11, <2>2, <2>3 DEF Visit
<1>12. ASSUME Disconnected PROVE SessionInv'
  BY <1>12 DEF Disconnected, members, TypeOK, Connected, NotYet, Leaving, Idle,
     NothingLeft, SubscriptionsSigned, ClientEventsProtected, Protected
<1>13. ASSUME SocketCloses PROVE SessionInv'
  BY <1>13 DEF SocketCloses, application, members, TypeOK, Connected, NotYet, Leaving, Idle,
     NothingLeft, SubscriptionsSigned, ClientEventsProtected, Protected
<1>14. ASSUME NEW c \in Channels, OthersCreate(c) PROVE SessionInv'
  BY <1>14 DEF OthersCreate, TypeOK, Connected, NotYet, Leaving, Idle,
     NothingLeft, SubscriptionsSigned, ClientEventsProtected, Protected
<1>15. ASSUME NEW c \in Channels, OthersRemove(c) PROVE SessionInv'
  <2>1. /\ UNCHANGED <<config, phase, socket, registered, event, signed, published>>
        /\ exists' = exists \ {c} /\ todo' = todo \ {c} /\ Drop(c)
    BY <1>15 DEF OthersRemove, Drop
  <2>2. TypeOK'
    BY <2>1, DropMembers DEF TypeOK
  <2>3. NotYet'
    BY <1>15 DEF OthersRemove, Drop, NotYet
  <2>4. (Leaving /\ Idle /\ NothingLeft /\ ClientEventsProtected)'
    BY <2>1, DropMembers DEF Leaving, Idle, NothingLeft, ClientEventsProtected, Protected
  <2> QED
    BY <2>1, <2>2, <2>3, <2>4, DropMembers
<1>16. ASSUME NEW c \in Channels, OthersReplace(c) PROVE SessionInv'
  <2>1. /\ UNCHANGED <<config, phase, socket, registered, event, signed, published>>
        /\ exists' = exists /\ todo' = todo /\ Drop(c)
    BY <1>16 DEF OthersReplace, Drop
  <2>2. TypeOK'
    BY <2>1, DropMembers DEF TypeOK
  <2>3. NotYet'
    BY <1>16 DEF OthersReplace, Drop, NotYet
  <2>4. (Leaving /\ Idle /\ NothingLeft /\ ClientEventsProtected)'
    BY <2>1, DropMembers DEF Leaving, Idle, NothingLeft, ClientEventsProtected, Protected
  <2> QED
    BY <2>1, <2>2, <2>3, <2>4, DropMembers
<1>17. CASE UNCHANGED vars
  BY <1>17 DEF vars, application, members, TypeOK, Connected, NotYet, Leaving, Idle,
     NothingLeft, SubscriptionsSigned, ClientEventsProtected, Protected
<1> QED
  BY <1>1, <1>2, <1>4, <1>5, <1>6, <1>7, <1>8, <1>9, <1>10, <1>11, <1>12, <1>13, <1>14, <1>15,
     <1>16, <1>17 DEF Next, Handle

-------------------------------------------------------------------------------
\* The invariant holds in every reachable state.
THEOREM Invariance == Spec => []SessionInv
BY InvInit, InvStep, PTL DEF Spec

\* Whatever others add, remove and replace, what the map has of a session is in the map,
\* and the application knows its socket from Connect to the end of Disconnect.
THEOREM SessionTypeCorrect == Spec => []TypeOK
BY Invariance, PTL DEF SessionInv

\* However a session ends, its connection and its subscriptions are gone from the map:
\* the range of Disconnect passes over none, although channels are added, removed and
\* replaced behind it.
THEOREM SessionLeavesNothing == Spec => []NothingLeft
BY Invariance, PTL DEF SessionInv

\* A session is in a private or presence channel only if a frame signed for that channel
\* has come, although the read loop keeps the event of the frame before.
THEOREM OnlySignedSubscriptions == Spec => []SubscriptionsSigned
BY Invariance, PTL DEF SessionInv

\* No client event is ever published to a public channel.
THEOREM OnlyProtectedClientEvents == Spec => []ClientEventsProtected
BY Invariance, PTL DEF SessionInv
===============================================================================
