----------------------------- MODULE ChannelProofs -----------------------------
(***************************************************************************)
(* What Channel promises of its broadcasts, its rosters and its webhooks,  *)
(* for any number of sockets, publishers and users, and that it implements *)
(* Room.                                                                   *)
(***************************************************************************)
EXTENDS Channel, TLAPS

\* The roster goes by user id, so what it shows of a member is settled only as long as
\* no other socket subscribes as the same user (channel.go:301 removes the user when
\* the first of them leaves).
OneSocketPerUser == \A s, t \in Sockets : UserOf[s] = UserOf[t] => s = t

\* A subscription lives from Insert to Delete, both steps of its own goroutine.
Subscribing == {"decode", "identify", "announce", "announcing", "copy", "confirm", "count",
                "occupied"}
Leaving == {"retract", "retracting", "countLeft", "vacated"}

PhasesMatch ==
    \A s \in Sockets :
        /\ pc[s] \in Subscribing => s \in subs
        /\ pc[s] \in Leaving => s \notin subs

\* An empty channel that was announced as occupied has a socket on its way to vacated.
VacatedComes ==
    subs = {} => lastHook # "occupied" \/ \E s \in Sockets : pc[s] \in Leaving

\* Only a subscription whose data is JSON gets a user id, and that of its socket.
IdentsOwn ==
    \A s \in Sockets :
        /\ ident[s] \in {Blank, UserOf[s]}
        /\ s \in garbled => s \in subs /\ ident[s] = Blank
        /\ pc[s] = "identify" => s \notin garbled

\* s knows of t, or a frame of t is on its way to s, or s has still to copy the roster
\* t is in, or to send what it has copied.
Told(s, t) ==
    \/ UserOf[t] \in roster[s]
    \/ pc[t] = "announce"
    \/ pc[t] = "announcing" /\ s \in todo[t]
    \/ pc[s] \in {"announce", "announcing", "copy"}
    \/ pc[s] = "confirm" /\ UserOf[t] \in snap[s]

MembersTold ==
    \A s, t \in subs : s # t /\ ident[s] # Blank /\ ident[t] # Blank => Told(s, t)

-------------------------------------------------------------------------------
\* The initial states keep every invariant of this module.
LEMMA ChannelInit ==
    Init => TypeOK /\ RangeStable /\ PhasesMatch /\ VacatedComes /\ IdentsOwn /\ MembersTold
BY DEF Init, TypeOK, RangeStable, PhasesMatch, VacatedComes, IdentsOwn, MembersTold, PCs,
   Goroutines, Subscribing, Leaving

\* The steps of Subscribe keep the types.
LEMMA SubscribeTypes ==
    ASSUME TypeOK, NEW s \in Sockets,
           \/ Subscribe(s) \/ Insert(s) \/ Decode(s) \/ Identify(s) \/ Announce(s)
           \/ Announced(s) \/ Copy(s) \/ Confirm(s) \/ CountSubscribers(s) \/ Occupied(s)
    PROVE  TypeOK'
<1> USE SocketAssumption DEF TypeOK, PCs, Goto, Goroutines, lock, range
<1>1. CASE Subscribe(s)
  BY <1>1 DEF Subscribe
<1>2. CASE Insert(s)
  <2>1. garbled' \subseteq Sockets
    BY <1>2 DEF Insert
  <2> QED
    BY <1>2, <2>1 DEF Insert, Locked
<1>3. CASE Decode(s)
  BY <1>3 DEF Decode
<1>4. CASE Identify(s)
  BY <1>4 DEF Identify, Locked
<1>5. CASE Announce(s)
  BY <1>5 DEF Announce, EnterRange
<1>6. CASE Announced(s)
  BY <1>6 DEF Announced, LeaveRange
<1>7. CASE Copy(s)
  <2>1. {ident[r] : r \in subs \ garbled} \in SUBSET (Users \cup {Blank})
    OBVIOUS
  <2> QED
    BY <1>7, <2>1 DEF Copy, Locked
<1>8. CASE Confirm(s)
  BY <1>8 DEF Confirm
<1>9. CASE CountSubscribers(s)
  BY <1>9 DEF CountSubscribers
<1>10. CASE Occupied(s)
  BY <1>10 DEF Occupied
<1> QED
  BY <1>1, <1>2, <1>3, <1>4, <1>5, <1>6, <1>7, <1>8, <1>9, <1>10

\* So do those of Unsubscribe and the calls of Lock.
LEMMA UnsubscribeTypes ==
    ASSUME TypeOK, NEW s \in Sockets,
           \/ Unsubscribe(s) \/ Delete(s) \/ Retract(s) \/ Retracted(s) \/ CountLeft(s)
           \/ Vacated(s) \/ \E at \in PCs : WaitLock(s, at)
    PROVE  TypeOK'
<1> USE SocketAssumption DEF TypeOK, PCs, Goto, Goroutines, lock, range
<1>1. CASE Unsubscribe(s)
  BY <1>1 DEF Unsubscribe
<1>2. CASE Delete(s)
  BY <1>2 DEF Delete, Locked
<1>3. CASE Retract(s)
  BY <1>3 DEF Retract, EnterRange
<1>4. CASE Retracted(s)
  BY <1>4 DEF Retracted, LeaveRange
<1>5. CASE CountLeft(s)
  BY <1>5 DEF CountLeft
<1>6. CASE Vacated(s)
  BY <1>6 DEF Vacated
<1>7. CASE \E at \in PCs : WaitLock(s, at)
  BY <1>7 DEF WaitLock
<1> QED
  BY <1>1, <1>2, <1>3, <1>4, <1>5, <1>6, <1>7

\* So do the frames of broadcasts and the steps of Publish.
LEMMA BroadcastTypes ==
    ASSUME TypeOK, NEW t \in Goroutines,
           \/ t \in Sockets /\ \E r \in Sockets : AnnounceTo(t, r) \/ RetractFrom(t, r)
           \/ t \in Publishers /\ \E r \in Sockets : PublishTo(t, r)
           \/ t \in Publishers /\ \E i \in Sockets \cup {NoSocket} : Publish(t, i)
           \/ t \in Publishers /\ Published(t)
    PROVE  TypeOK'
<1> USE SocketAssumption DEF TypeOK, PCs, Goto, Goroutines, lock, range
<1>1. ASSUME NEW r \in Sockets, NextInRange(t, r)
      PROVE  /\ readers' \subseteq Goroutines /\ waiting' \subseteq Sockets
             /\ todo' \in [Goroutines -> SUBSET Sockets]
             /\ reached' \in [Goroutines -> SUBSET Sockets]
             /\ skip' \in [Goroutines -> Sockets \cup {NoSocket}]
  BY <1>1 DEF NextInRange
<1>2. ASSUME NEW r \in Sockets, t \in Sockets, AnnounceTo(t, r) PROVE TypeOK'
  <2>1. roster' \in [Sockets -> SUBSET (Users \cup {Blank})]
    BY <1>2 DEF AnnounceTo
  <2> QED
    BY <1>1, <1>2, <2>1 DEF AnnounceTo
<1>3. ASSUME NEW r \in Sockets, t \in Sockets, RetractFrom(t, r) PROVE TypeOK'
  <2>1. roster' \in [Sockets -> SUBSET (Users \cup {Blank})]
    BY <1>3 DEF RetractFrom
  <2> QED
    BY <1>1, <1>3, <2>1 DEF RetractFrom
<1>4. ASSUME NEW r \in Sockets, PublishTo(t, r) PROVE TypeOK'
  BY <1>1, <1>4 DEF PublishTo
<1>5. ASSUME NEW i \in Sockets \cup {NoSocket}, Publish(t, i) PROVE TypeOK'
  BY <1>5 DEF Publish, EnterRange
<1>6. CASE Published(t)
  BY <1>6 DEF Published, LeaveRange
<1> QED
  BY <1>2, <1>3, <1>4, <1>5, <1>6

\* Every step keeps the types.
LEMMA TypeStep == TypeOK /\ [Next]_vars => TypeOK'
<1> SUFFICES ASSUME TypeOK, [Next]_vars PROVE TypeOK'
  OBVIOUS
<1>1. CASE UNCHANGED vars
  BY <1>1 DEF vars, lock, range, TypeOK
<1>2. ASSUME NEW t \in Goroutines, Request(t) PROVE TypeOK'
  BY <1>2, SubscribeTypes, UnsubscribeTypes, BroadcastTypes DEF Request
<1>3. ASSUME NEW t \in Goroutines, Serve(t) PROVE TypeOK'
  <2>1. {"insert", "identify", "copy", "delete"} \subseteq PCs
    BY DEF PCs
  <2> QED
    BY <1>3, <2>1, SubscribeTypes, UnsubscribeTypes, BroadcastTypes DEF Serve
<1> QED
  BY <1>1, <1>2, <1>3 DEF Next

-------------------------------------------------------------------------------
\* Subscriptions change in a section under the write lock, when nobody ranges over them;
\* else a range begins, proceeds or ends.
LEMMA RangeStep == TypeOK /\ RangeStable /\ [Next]_vars => RangeStable'
<1> SUFFICES ASSUME TypeOK, RangeStable, [Next]_vars PROVE RangeStable'
  OBVIOUS
<1>1. ASSUME NEW s \in Sockets, NEW at, Locked(s, at) PROVE RangeStable'
  BY <1>1 DEF Locked, RangeStable
<1>2. ASSUME NEW t \in Goroutines, NEW i, EnterRange(t, i), UNCHANGED subs
      PROVE  RangeStable'
  BY <1>2 DEF EnterRange, RangeStable, TypeOK
<1>3. ASSUME NEW t \in Goroutines, NEW r \in Sockets, NextInRange(t, r), UNCHANGED subs
      PROVE  RangeStable'
  BY <1>3 DEF NextInRange, RangeStable, TypeOK, lock
<1>4. ASSUME NEW t \in Goroutines, LeaveRange(t), UNCHANGED subs PROVE RangeStable'
  BY <1>4 DEF LeaveRange, RangeStable, TypeOK
<1>5. CASE UNCHANGED <<subs, readers, range>>
  BY <1>5 DEF RangeStable, range
<1>6. ASSUME NEW t \in Goroutines, Request(t) PROVE RangeStable'
  BY <1>2, <1>5, <1>6 DEF Request, Subscribe, Unsubscribe, Publish, lock
<1>7. ASSUME NEW t \in Goroutines, Serve(t) PROVE RangeStable'
  <2>1. CASE t \in Sockets /\ \/ \E at \in {"insert", "identify", "copy", "delete"} : WaitLock(t, at)
                              \/ Decode(t) \/ Confirm(t) \/ CountSubscribers(t) \/ Occupied(t)
                              \/ CountLeft(t) \/ Vacated(t)
    BY <1>5, <2>1 DEF WaitLock, Decode, Confirm, CountSubscribers, Occupied, CountLeft, Vacated,
       lock
  <2>2. CASE t \in Sockets /\ (Insert(t) \/ Identify(t) \/ Copy(t) \/ Delete(t))
    BY <1>1, <2>2 DEF Insert, Identify, Copy, Delete
  <2>3. CASE t \in Sockets /\ (Announce(t) \/ Retract(t))
    BY <1>2, <2>3 DEF Announce, Retract
  <2>4. CASE (t \in Sockets /\ (Announced(t) \/ Retracted(t))) \/ Published(t)
    BY <1>4, <2>4 DEF Announced, Retracted, Published
  <2>5. CASE \E r \in Sockets : AnnounceTo(t, r) \/ RetractFrom(t, r) \/ PublishTo(t, r)
    BY <1>3, <2>5 DEF AnnounceTo, RetractFrom, PublishTo
  <2> QED
    BY <1>7, <2>1, <2>2, <2>3, <2>4, <2>5 DEF Serve
<1>8. CASE UNCHANGED vars
  BY <1>5, <1>8 DEF vars, lock
<1> QED
  BY <1>6, <1>7, <1>8 DEF Next

-------------------------------------------------------------------------------
\* What a step of t that is no frame of a broadcast does to the phases: t goes from one
\* to the next, and enters or leaves the subscriptions on the way.
LEMMA PhaseStep == TypeOK /\ PhasesMatch /\ [Next]_vars => PhasesMatch'
<1> SUFFICES ASSUME TypeOK, PhasesMatch, [Next]_vars PROVE PhasesMatch'
  OBVIOUS
<1> USE DEF PhasesMatch, TypeOK, Goto, Goroutines, Subscribing, Leaving
<1>1. ASSUME NEW s \in Sockets, Subscribe(s) \/ Unsubscribe(s) PROVE PhasesMatch'
  BY <1>1 DEF Subscribe, Unsubscribe
<1>2. ASSUME NEW s \in Sockets, Insert(s) PROVE PhasesMatch'
  BY <1>2 DEF Insert
<1>3. ASSUME NEW s \in Sockets, Decode(s) \/ Identify(s) \/ Announce(s) PROVE PhasesMatch'
  BY <1>3 DEF Decode, Identify, Locked, Announce
<1>4. ASSUME NEW s \in Sockets, Announced(s) \/ Copy(s) \/ Confirm(s) PROVE PhasesMatch'
  BY <1>4 DEF Announced, Copy, Locked, Confirm
<1>5. ASSUME NEW s \in Sockets, CountSubscribers(s) \/ Occupied(s) PROVE PhasesMatch'
  BY <1>5 DEF CountSubscribers, Occupied
<1>6. ASSUME NEW s \in Sockets, Delete(s) PROVE PhasesMatch'
  BY <1>6 DEF Delete
<1>7. ASSUME NEW s \in Sockets, Retract(s) \/ Retracted(s) PROVE PhasesMatch'
  BY <1>7 DEF Retract, Retracted
<1>8. ASSUME NEW s \in Sockets, CountLeft(s) \/ Vacated(s) PROVE PhasesMatch'
  BY <1>8 DEF CountLeft, Vacated
<1>9. ASSUME NEW t \in Publishers, NEW i, Publish(t, i) \/ Published(t) PROVE PhasesMatch'
  BY <1>9, SocketAssumption DEF Publish, Published
<1>10. ASSUME NEW t \in Goroutines, NEW r \in Sockets,
              AnnounceTo(t, r) \/ RetractFrom(t, r) \/ PublishTo(t, r)
       PROVE  PhasesMatch'
  BY <1>10 DEF AnnounceTo, RetractFrom, PublishTo
<1>11. ASSUME NEW s \in Sockets, NEW at, WaitLock(s, at) PROVE PhasesMatch'
  BY <1>11 DEF WaitLock
<1>12. CASE UNCHANGED vars
  BY <1>12 DEF vars
<1> QED
  BY <1>1, <1>2, <1>3, <1>4, <1>5, <1>6, <1>7, <1>8, <1>9, <1>10, <1>11, <1>12
     DEF Next, Request, Serve

\* The last to leave goes on to count the subscriptions and to fire vacated; who fires
\* occupied is in the channel.
LEMMA VacatedStep == TypeOK /\ PhasesMatch /\ VacatedComes /\ [Next]_vars => VacatedComes'
<1> SUFFICES ASSUME TypeOK, PhasesMatch, VacatedComes, [Next]_vars PROVE VacatedComes'
  OBVIOUS
<1> USE DEF VacatedComes, TypeOK, Goto, Goroutines, Leaving
<1>1. ASSUME NEW s \in Sockets, Subscribe(s) \/ Unsubscribe(s) PROVE VacatedComes'
  BY <1>1 DEF Subscribe, Unsubscribe
<1>2. ASSUME NEW s \in Sockets, Insert(s) PROVE VacatedComes'
  BY <1>2 DEF Insert
<1>3. ASSUME NEW s \in Sockets, Decode(s) \/ Identify(s) \/ Announce(s) PROVE VacatedComes'
  BY <1>3 DEF Decode, Identify, Locked, Announce
<1>4. ASSUME NEW s \in Sockets, Announced(s) \/ Copy(s) \/ Confirm(s) PROVE VacatedComes'
  BY <1>4 DEF Announced, Copy, Locked, Confirm
<1>5. ASSUME NEW s \in Sockets, CountSubscribers(s) PROVE VacatedComes'
  BY <1>5 DEF CountSubscribers
<1>6. ASSUME NEW s \in Sockets, Occupied(s) PROVE VacatedComes'
  BY <1>6 DEF Occupied, PhasesMatch, Subscribing
<1>7. ASSUME NEW s \in Sockets, Delete(s) PROVE VacatedComes'
  <2>1. pc'[s] \in Leaving
    BY <1>7 DEF Delete
  <2> QED
    BY <2>1
<1>8. ASSUME NEW s \in Sockets, Retract(s) \/ Retracted(s) PROVE VacatedComes'
  <2>1. pc'[s] \in Leaving
    BY <1>8 DEF Retract, Retracted
  <2> QED
    BY <2>1
<1>9. ASSUME NEW s \in Sockets, CountLeft(s) PROVE VacatedComes'
  BY <1>9 DEF CountLeft
<1>10. ASSUME NEW s \in Sockets, Vacated(s) PROVE VacatedComes'
  BY <1>10 DEF Vacated
<1>11. ASSUME NEW t \in Publishers, NEW i, Publish(t, i) \/ Published(t) PROVE VacatedComes'
  BY <1>11, SocketAssumption DEF Publish, Published
<1>12. ASSUME NEW t \in Goroutines, NEW r \in Sockets,
              AnnounceTo(t, r) \/ RetractFrom(t, r) \/ PublishTo(t, r)
       PROVE  VacatedComes'
  BY <1>12 DEF AnnounceTo, RetractFrom, PublishTo
<1>13. ASSUME NEW s \in Sockets, NEW at, WaitLock(s, at) PROVE VacatedComes'
  BY <1>13 DEF WaitLock
<1>14. CASE UNCHANGED vars
  BY <1>14 DEF vars
<1> QED
  BY <1>1, <1>2, <1>3, <1>4, <1>5, <1>6, <1>7, <1>8, <1>9, <1>10, <1>11, <1>12, <1>13, <1>14
     DEF Next, Request, Serve

-------------------------------------------------------------------------------
\* A user id is set by Identify only, after the data has been found to be JSON.
LEMMA IdentStep == TypeOK /\ PhasesMatch /\ IdentsOwn /\ [Next]_vars => IdentsOwn'
<1> SUFFICES ASSUME TypeOK, PhasesMatch, IdentsOwn, [Next]_vars PROVE IdentsOwn'
  OBVIOUS
<1> USE DEF IdentsOwn, TypeOK, Goto, Goroutines
<1>1. ASSUME NEW s \in Sockets, Insert(s) PROVE IdentsOwn'
  <2>1. /\ subs' = subs \cup {s}
        /\ ident' = [ident EXCEPT ![s] = Blank]
        /\ garbled' \subseteq garbled \cup {s}
        /\ pc' = [pc EXCEPT ![s] = IF IsPresence THEN "decode" ELSE "confirm"]
    BY <1>1 DEF Insert
  <2> QED
    BY <2>1
<1>2. ASSUME NEW s \in Sockets, Decode(s) PROVE IdentsOwn'
  BY <1>2 DEF Decode
<1>3. ASSUME NEW s \in Sockets, Identify(s) PROVE IdentsOwn'
  BY <1>3 DEF Identify, Locked
<1>4. ASSUME NEW s \in Sockets, Delete(s) PROVE IdentsOwn'
  BY <1>4 DEF Delete
<1>5. ASSUME UNCHANGED <<subs, ident, garbled>>, NEW t \in Goroutines, NEW label,
             label # "identify", pc' = [pc EXCEPT ![t] = label] \/ pc' = pc
      PROVE  IdentsOwn'
  BY <1>5
<1>6. ASSUME NEW s \in Sockets,
             \/ Subscribe(s) \/ Unsubscribe(s) \/ Announce(s) \/ Announced(s) \/ Copy(s)
             \/ Confirm(s) \/ Occupied(s) \/ Retract(s) \/ Retracted(s) \/ Vacated(s)
      PROVE  IdentsOwn'
  BY <1>5, <1>6 DEF Subscribe, Unsubscribe, Announce, Announced, Copy, Confirm, Occupied,
     Retract, Retracted, Vacated
<1>7. ASSUME NEW s \in Sockets, CountSubscribers(s) \/ CountLeft(s) PROVE IdentsOwn'
  BY <1>7 DEF CountSubscribers, CountLeft
<1>8. ASSUME NEW t \in Publishers, NEW i, Publish(t, i) \/ Published(t) PROVE IdentsOwn'
  BY <1>5, <1>8 DEF Publish, Published
<1>9. ASSUME NEW t \in Goroutines, NEW r \in Sockets,
             AnnounceTo(t, r) \/ RetractFrom(t, r) \/ PublishTo(t, r)
      PROVE  IdentsOwn'
  BY <1>9 DEF AnnounceTo, RetractFrom, PublishTo
<1>10. ASSUME NEW s \in Sockets, NEW at, WaitLock(s, at) PROVE IdentsOwn'
  BY <1>10 DEF WaitLock
<1>11. CASE UNCHANGED vars
  BY <1>11 DEF vars
<1> QED
  BY <1>1, <1>2, <1>3, <1>4, <1>6, <1>7, <1>8, <1>9, <1>10, <1>11 DEF Next, Request, Serve

\* A member goes on being told of, or about to be: by its own broadcast, by the copy a
\* newcomer takes after it, and never taken back by the leaving of another user.
LEMMA MembersStep ==
    ASSUME OneSocketPerUser, TypeOK, PhasesMatch, IdentsOwn, MembersTold, [Next]_vars
    PROVE  MembersTold'
<1> SUFFICES ASSUME NEW s \in subs', NEW t \in subs', s # t, ident'[s] # Blank,
                    ident'[t] # Blank
             PROVE  Told(s, t)'
  BY DEF MembersTold
<1>1. s \in Sockets /\ t \in Sockets
  BY TypeStep DEF TypeOK
<1>2. ASSUME subs' \subseteq subs, ident' = ident PROVE Told(s, t) /\ ident[t] = UserOf[t]
  BY <1>1, <1>2 DEF MembersTold, IdentsOwn
<1> USE SocketAssumption, <1>1 DEF TypeOK, Goto, Goroutines
<1>3. ASSUME NEW u \in Sockets, Insert(u) PROVE Told(s, t)'
  <2>1. u # s /\ u # t
    BY <1>3 DEF Insert
  <2>2. Told(s, t)
    BY <1>3, <2>1 DEF Insert, MembersTold
  <2> QED
    BY <1>3, <2>1, <2>2 DEF Insert, range, Told
<1>4. ASSUME NEW u \in Sockets, Identify(u) PROVE Told(s, t)'
  <2>1. CASE u \in {s, t}
    BY <1>4, <2>1 DEF Identify, Told
  <2>2. CASE u \notin {s, t}
    <3>1. Told(s, t)
      BY <1>4, <2>2 DEF Identify, MembersTold
    <3> QED
      BY <1>4, <2>2, <3>1 DEF Identify, range, Told
  <2> QED
    BY <2>1, <2>2
<1>5. ASSUME NEW u \in Sockets, Announce(u) PROVE Told(s, t)'
  BY <1>2, <1>5 DEF Announce, EnterRange, Told
<1>6. ASSUME NEW u \in Sockets, NEW r \in Sockets, AnnounceTo(u, r) PROVE Told(s, t)'
  BY <1>2, <1>6 DEF AnnounceTo, NextInRange, Told
<1>7. ASSUME NEW u \in Sockets, Announced(u) PROVE Told(s, t)'
  BY <1>2, <1>7 DEF Announced, LeaveRange, Told
<1>8. ASSUME NEW u \in Sockets, Copy(u) PROVE Told(s, t)'
  <2>1. t \in subs \ garbled
    BY <1>8 DEF Copy, IdentsOwn
  <2>2. CASE u = s
    <3>1. UserOf[t] \in snap'[s]
      BY <1>2, <1>8, <2>1, <2>2 DEF Copy
    <3> QED
      BY <1>8, <2>2, <3>1 DEF Copy, Told
  <2>3. CASE u # s
    BY <1>2, <1>8, <2>3 DEF Copy, Locked, range, Told
  <2> QED
    BY <2>2, <2>3
<1>9. ASSUME NEW u \in Sockets, Confirm(u) PROVE Told(s, t)'
  BY <1>2, <1>9 DEF Confirm, range, Told
<1>10. ASSUME NEW u \in Sockets, Delete(u) PROVE Told(s, t)'
  <2>1. u # s /\ u # t
    BY <1>10 DEF Delete
  <2> QED
    BY <1>2, <1>10, <2>1 DEF Delete, range, Told
<1>11. ASSUME NEW u \in Sockets, Retract(u) PROVE Told(s, t)'
  <2>1. Told(s, t) /\ u # t
    BY <1>2, <1>11 DEF Retract, PhasesMatch, Leaving, EnterRange
  <2> QED
    BY <1>11, <2>1 DEF Retract, EnterRange, Told
<1>12. ASSUME NEW u \in Sockets, NEW r \in Sockets, RetractFrom(u, r) PROVE Told(s, t)'
  <2>1. Told(s, t) /\ subs' = subs
    BY <1>2, <1>12 DEF RetractFrom
  <2>2. u # t
    BY <1>12, <2>1 DEF RetractFrom, PhasesMatch, Leaving
  <2>3. ident[u] # UserOf[t]
    BY <2>2 DEF IdentsOwn, OneSocketPerUser
  <2>4. UserOf[t] \in roster[s] => UserOf[t] \in roster'[s]
    BY <1>12, <2>3 DEF RetractFrom
  <2> QED
    BY <1>12, <2>1, <2>2, <2>4 DEF RetractFrom, NextInRange, Told
<1>13. ASSUME NEW u \in Sockets, Retracted(u) PROVE Told(s, t)'
  BY <1>2, <1>13 DEF Retracted, LeaveRange, Told
<1>14. ASSUME NEW u \in Sockets,
              \/ Subscribe(u) \/ Unsubscribe(u) \/ Decode(u) \/ CountSubscribers(u)
              \/ Occupied(u) \/ CountLeft(u) \/ Vacated(u)
       PROVE  Told(s, t)'
  BY <1>2, <1>14 DEF Subscribe, Unsubscribe, Decode, CountSubscribers, Occupied, CountLeft,
     Vacated, range, Told
<1>15. ASSUME NEW u \in Publishers, NEW i, NEW r,
              Publish(u, i) \/ PublishTo(u, r) \/ Published(u)
       PROVE  Told(s, t)'
  <2>1. u # s /\ u # t
    OBVIOUS
  <2>2. Told(s, t) /\ roster' = roster /\ snap' = snap /\ pc'[s] = pc[s] /\ pc'[t] = pc[t]
    BY <1>2, <1>15, <2>1 DEF Publish, PublishTo, Published
  <2>3. todo'[t] = todo[t]
    BY <1>15, <2>1 DEF Publish, PublishTo, Published, EnterRange, NextInRange, LeaveRange
  <2> QED
    BY <2>2, <2>3 DEF Told
<1>16. ASSUME NEW u \in Sockets, NEW at, WaitLock(u, at) PROVE Told(s, t)'
  BY <1>2, <1>16 DEF WaitLock, range, Told
<1>17. CASE UNCHANGED vars
  BY <1>2, <1>17 DEF vars, range, Told
<1> QED
  BY <1>3, <1>4, <1>5, <1>6, <1>7, <1>8, <1>9, <1>10, <1>11, <1>12, <1>13, <1>14, <1>15,
     <1>16, <1>17 DEF Next, Request, Serve

-------------------------------------------------------------------------------
\* The variables of the channel keep their types.
THEOREM ChannelTypeCorrect == Spec => []TypeOK
BY ChannelInit, TypeStep, PTL DEF Spec

\* A broadcast reaches exactly who was subscribed when it took the read lock, whatever
\* goroutines wait for the write lock or publish beside it.
THEOREM BroadcastsReachAll == Spec => []RangeStable
BY ChannelInit, TypeStep, RangeStep, PTL DEF Spec

\* An empty channel is never left announced as occupied by its webhooks.
THEOREM EmptyIsVacated == Spec => []LastHookVacated
<1>1. VacatedComes => LastHookVacated
  BY DEF VacatedComes, LastHookVacated, Leaving
<1> QED
  BY <1>1, ChannelInit, TypeStep, PhaseStep, VacatedStep, PTL DEF Spec

\* As long as every socket subscribes as a user of its own, two subscribers that have
\* returned from Subscribe know of each other, however their calls overlapped.
THEOREM MembersKnowEachOther == OneSocketPerUser /\ Spec => []NoMissingMember
<1>1. TypeOK /\ MembersTold => NoMissingMember
  BY DEF TypeOK, MembersTold, NoMissingMember, Told
<1>2. OneSocketPerUser /\ TypeOK /\ PhasesMatch /\ IdentsOwn /\ MembersTold /\ [Next]_vars
      => MembersTold'
  BY MembersStep
<1>3. SUFFICES ASSUME OneSocketPerUser PROVE Spec => []NoMissingMember
  OBVIOUS
<1> QED
  BY <1>1, <1>2, <1>3, ChannelInit, TypeStep, PhaseStep, IdentStep, PTL DEF Spec

-------------------------------------------------------------------------------
(* A channel implements Room.                                               *)

\* The phases of a broadcast.
Ranging == {"announcing", "retracting", "publishing"}

\* Who ranges over the subscriptions holds the read lock, and who deletes one has it.
Held ==
    /\ \A t \in Goroutines : t \in readers <=> pc[t] \in Ranging
    /\ \A s \in Sockets : pc[s] = "delete" => s \in subs

\* Every step keeps it.
LEMMA HeldStep == TypeOK /\ Held /\ [Next]_vars => Held'
<1> SUFFICES ASSUME TypeOK, Held, [Next]_vars PROVE Held'
  OBVIOUS
<1> USE SocketAssumption DEF Held, Ranging, TypeOK, Goto, Goroutines
<1>1. ASSUME NEW s \in Sockets, Subscribe(s) \/ Unsubscribe(s) PROVE Held'
  BY <1>1 DEF Subscribe, Unsubscribe, lock
<1>2. ASSUME NEW s \in Sockets, Insert(s) PROVE Held'
  BY <1>2 DEF Insert, Locked
<1>3. ASSUME NEW s \in Sockets, Decode(s) \/ Identify(s) PROVE Held'
  BY <1>3 DEF Decode, Identify, Locked, lock
<1>4. ASSUME NEW s \in Sockets, Copy(s) \/ Confirm(s) PROVE Held'
  BY <1>4 DEF Copy, Locked, Confirm, lock
<1>5. ASSUME NEW s \in Sockets, CountSubscribers(s) \/ Occupied(s) PROVE Held'
  BY <1>5 DEF CountSubscribers, Occupied, lock
<1>6. ASSUME NEW s \in Sockets, Delete(s) PROVE Held'
  <2>1. /\ subs' = subs \ {s} /\ UNCHANGED readers
        /\ pc[s] = "delete" /\ \E l \in {"retract", "countLeft"} : pc' = [pc EXCEPT ![s] = l]
    BY <1>6 DEF Delete, Locked
  <2> QED
    BY <2>1
<1>7. ASSUME NEW s \in Sockets, Announce(s) \/ Retract(s) PROVE Held'
  BY <1>7 DEF Announce, Retract, EnterRange
<1>8. ASSUME NEW s \in Sockets, Announced(s) \/ Retracted(s) PROVE Held'
  BY <1>8 DEF Announced, Retracted, LeaveRange
<1>9. ASSUME NEW s \in Sockets, CountLeft(s) \/ Vacated(s) PROVE Held'
  BY <1>9 DEF CountLeft, Vacated, lock
<1>10. ASSUME NEW t \in Publishers, NEW i, Publish(t, i) PROVE Held'
  BY <1>10 DEF Publish, EnterRange
<1>11. ASSUME NEW t \in Publishers, Published(t) PROVE Held'
  BY <1>11 DEF Published, LeaveRange
<1>12. ASSUME NEW t \in Goroutines, NEW r \in Sockets,
              AnnounceTo(t, r) \/ RetractFrom(t, r) \/ PublishTo(t, r)
       PROVE  Held'
  BY <1>12 DEF AnnounceTo, RetractFrom, PublishTo, NextInRange, lock
<1>13. ASSUME NEW s \in Sockets, NEW at, WaitLock(s, at) PROVE Held'
  BY <1>13 DEF WaitLock
<1>14. CASE UNCHANGED vars
  BY <1>14 DEF vars, lock
<1> QED
  BY <1>1, <1>2, <1>3, <1>4, <1>5, <1>6, <1>7, <1>8, <1>9, <1>10, <1>11, <1>12, <1>13, <1>14
     DEF Next, Request, Serve

\* A section under the write lock has the channel to itself.
LEMMA NobodyRanges == ASSUME NEW s, NEW at, Locked(s, at) PROVE Frames = {} /\ Frames' = {}
BY DEF Locked, Frames

\* The sections that write are the moments at which the members change.
LEMMA SectionIsRoomStep ==
    ASSUME TypeOK, PhasesMatch, Held, NEW s \in Sockets,
           Insert(s) \/ Identify(s) \/ Copy(s) \/ Delete(s)
    PROVE  [AsRoom!Next]_(AsRoom!vars)
<1>0. Frames = {} /\ Frames' = {}
  BY NobodyRanges DEF Insert, Identify, Copy, Delete
<1> USE DEF TypeOK
<1>1. CASE Insert(s)
  <2>1. subs' = subs \cup {s} /\ Named' = Named \ {s}
    BY <1>1 DEF Insert, Named
  <2>2. AsRoom!Enter(s)
    BY <1>0, <2>1 DEF AsRoom!Enter
  <2> QED
    BY <2>2 DEF AsRoom!Next
<1>2. CASE Identify(s)
  <2>1. s \in subs /\ UserOf[s] # Blank
    <3>1. pc[s] = "identify"
      BY <1>2 DEF Identify, Locked
    <3>2. s \in subs
      BY <3>1 DEF PhasesMatch, Subscribing
    <3>3. UserOf[s] \in Users
      BY SocketAssumption
    <3> QED
      BY <3>2, <3>3, SocketAssumption
  <2>2. UNCHANGED subs /\ Named' = Named \cup {s}
    <3>1. UNCHANGED subs /\ ident' = [ident EXCEPT ![s] = UserOf[s]]
      BY <1>2 DEF Identify
    <3>2. \A r \in subs : ident'[r] # Blank <=> r = s \/ ident[r] # Blank
      BY <2>1, <3>1
    <3> QED
      BY <2>1, <3>1, <3>2 DEF Named
  <2>3. AsRoom!Name(s)
    BY <1>0, <2>1, <2>2 DEF AsRoom!Name
  <2> QED
    BY <2>3 DEF AsRoom!Next
<1>3. CASE Copy(s)
  <2>1. UNCHANGED <<subs, Named>>
    BY <1>3 DEF Copy, Named
  <2> QED
    BY <1>0, <2>1 DEF AsRoom!vars
<1>4. CASE Delete(s)
  <2>1. s \in subs
    BY <1>4 DEF Delete, Locked, Held
  <2>2. subs' = subs \ {s} /\ Named' = Named \ {s}
    BY <1>4 DEF Delete, Named
  <2>3. AsRoom!Leave(s)
    BY <1>0, <2>1, <2>2 DEF AsRoom!Leave
  <2> QED
    BY <2>3 DEF AsRoom!Next
<1> QED
  BY <1>1, <1>2, <1>3, <1>4

\* A frame is sent at the moment its caller gets the read lock.
LEMMA EnterIsSend ==
    ASSUME TypeOK, NEW t \in Goroutines, t \notin readers,
           NEW i \in Sockets \cup {NoSocket}, EnterRange(t, i), UNCHANGED <<subs, ident>>
    PROVE  [AsRoom!Next]_(AsRoom!vars)
<1>1. /\ readers' = readers \cup {t}
      /\ todo'[t] = subs /\ reached'[t] = {} /\ skip'[t] = i
      /\ \A u \in readers : /\ todo'[u] = todo[u] /\ reached'[u] = reached[u]
                            /\ skip'[u] = skip[u]
  BY DEF EnterRange, TypeOK
<1>2. Frames' = Frames \cup {<<t, subs \ {i}>>}
  <2>1. Frames' = {<<u, reached'[u] \cup (todo'[u] \ {skip'[u]})>> : u \in readers}
                    \cup {<<t, reached'[t] \cup (todo'[t] \ {skip'[t]})>>}
    BY <1>1 DEF Frames
  <2>2. reached'[t] \cup (todo'[t] \ {skip'[t]}) = subs \ {i}
    BY <1>1
  <2> QED
    BY <1>1, <2>1, <2>2 DEF Frames
<1>3. \A f \in Frames : f[1] # t
  BY DEF Frames
<1>4. UNCHANGED Named
  BY DEF Named
<1>5. AsRoom!Send(t, i)
  BY <1>2, <1>3, <1>4 DEF AsRoom!Send
<1> QED
  BY <1>5 DEF AsRoom!Next

\* It is on its way until the range ends,
LEMMA LeaveIsSent ==
    ASSUME TypeOK, NEW t \in Goroutines, t \in readers, LeaveRange(t),
           UNCHANGED <<subs, ident>>
    PROVE  [AsRoom!Next]_(AsRoom!vars)
<1>1. /\ readers' = readers \ {t} /\ todo' = todo
      /\ \A u \in readers' : reached'[u] = reached[u] /\ skip'[u] = skip[u]
  BY DEF LeaveRange, TypeOK
<1>2. Frames' = {f \in Frames : f[1] # t}
  <2>1. ASSUME NEW f \in Frames' PROVE f \in Frames /\ f[1] # t
    <3>1. PICK u \in readers' : f = <<u, reached'[u] \cup (todo'[u] \ {skip'[u]})>>
      BY DEF Frames
    <3>2. f = <<u, reached[u] \cup (todo[u] \ {skip[u]})>> /\ u \in readers /\ u # t
      BY <1>1, <3>1
    <3> QED
      BY <3>2 DEF Frames
  <2>2. ASSUME NEW f \in Frames, f[1] # t PROVE f \in Frames'
    <3>1. PICK u \in readers : f = <<u, reached[u] \cup (todo[u] \ {skip[u]})>>
      BY DEF Frames
    <3>2. u \in readers'
      BY <1>1, <2>2, <3>1
    <3>3. f = <<u, reached'[u] \cup (todo'[u] \ {skip'[u]})>>
      BY <1>1, <3>1, <3>2
    <3> QED
      BY <3>2, <3>3 DEF Frames
  <2> QED
    BY <2>1, <2>2
<1>3. \E f \in Frames : f[1] = t
  <2>1. <<t, reached[t] \cup (todo[t] \ {skip[t]})>> \in Frames
    BY DEF Frames
  <2> QED
    BY <2>1
<1>4. UNCHANGED Named
  BY DEF Named
<1>5. AsRoom!Sent(t)
  BY <1>2, <1>3, <1>4 DEF AsRoom!Sent
<1> QED
  BY <1>5 DEF AsRoom!Next

\* and what it reaches stays the same while it goes from one subscription to the next.
LEMMA IterationIsStutter ==
    ASSUME TypeOK, NEW t \in Goroutines, NEW r, NextInRange(t, r), UNCHANGED <<subs, ident>>
    PROVE  UNCHANGED AsRoom!vars
<1>1. /\ UNCHANGED <<readers, skip>>
      /\ \A u \in Goroutines \ {t} : todo'[u] = todo[u] /\ reached'[u] = reached[u]
      /\ todo'[t] = todo[t] \ {r} /\ r \in todo[t]
      /\ reached'[t] = IF r = skip[t] THEN reached[t] ELSE reached[t] \cup {r}
  BY DEF NextInRange, TypeOK, lock
<1>2. \A u \in Goroutines : 
        reached'[u] \cup (todo'[u] \ {skip'[u]}) = reached[u] \cup (todo[u] \ {skip[u]})
  BY <1>1
<1>3. readers \subseteq Goroutines
  BY DEF TypeOK
<1>4. UNCHANGED Frames
  BY <1>1, <1>2, <1>3 DEF Frames
<1>5. UNCHANGED Named
  BY DEF Named
<1> QED
  BY <1>4, <1>5 DEF AsRoom!vars

\* Every step is one of the Room, or none.
LEMMA RoomStep ==
    TypeOK /\ PhasesMatch /\ Held /\ [Next]_vars => [AsRoom!Next]_(AsRoom!vars)
<1> SUFFICES ASSUME TypeOK, PhasesMatch, Held, [Next]_vars
             PROVE  [AsRoom!Next]_(AsRoom!vars)
  OBVIOUS
<1>1. ASSUME UNCHANGED <<subs, ident, readers, range>> PROVE UNCHANGED AsRoom!vars
  BY <1>1 DEF AsRoom!vars, Frames, Named, range
<1>2. ASSUME NEW s \in Sockets,
             \/ Subscribe(s) \/ Unsubscribe(s) \/ Decode(s) \/ Confirm(s) \/ Occupied(s)
             \/ CountSubscribers(s) \/ CountLeft(s) \/ Vacated(s) \/ \E at : WaitLock(s, at)
      PROVE  UNCHANGED AsRoom!vars
  BY <1>1, <1>2 DEF Subscribe, Unsubscribe, Decode, Confirm, Occupied, CountSubscribers,
                    CountLeft, Vacated, WaitLock, lock
<1>3. ASSUME NEW s \in Sockets, Announce(s) \/ Retract(s) PROVE [AsRoom!Next]_(AsRoom!vars)
  <2>1. s \in Goroutines /\ s \notin readers
    BY <1>3 DEF Goroutines, Announce, Retract, Held, Ranging
  <2> QED
    BY <1>3, <2>1, EnterIsSend DEF Announce, Retract
<1>4. ASSUME NEW t \in Publishers, NEW i \in Sockets \cup {NoSocket}, Publish(t, i)
      PROVE  [AsRoom!Next]_(AsRoom!vars)
  <2>1. t \in Goroutines /\ t \notin readers
    BY <1>4 DEF Goroutines, Publish, Held, Ranging
  <2> QED
    BY <1>4, <2>1, EnterIsSend DEF Publish
<1>5. ASSUME NEW t \in Goroutines, Announced(t) \/ Retracted(t) \/ Published(t)
      PROVE  [AsRoom!Next]_(AsRoom!vars)
  <2>1. t \in readers
    BY <1>5 DEF Announced, Retracted, Published, Held, Ranging
  <2> QED
    BY <1>5, <2>1, LeaveIsSent DEF Announced, Retracted, Published
<1>6. ASSUME NEW t \in Goroutines, NEW r \in Sockets,
             AnnounceTo(t, r) \/ RetractFrom(t, r) \/ PublishTo(t, r)
      PROVE  UNCHANGED AsRoom!vars
  BY <1>6, IterationIsStutter DEF AnnounceTo, RetractFrom, PublishTo
<1>7. CASE UNCHANGED vars
  BY <1>1, <1>7 DEF vars, lock
<1>8. ASSUME NEW t \in Goroutines, Request(t) PROVE [AsRoom!Next]_(AsRoom!vars)
  BY <1>2, <1>4, <1>8 DEF Request
<1>9. ASSUME NEW t \in Goroutines, Serve(t) PROVE [AsRoom!Next]_(AsRoom!vars)
  <2>1. CASE t \in Sockets /\ \/ \E at \in {"insert", "identify", "copy", "delete"} : WaitLock(t, at)
                              \/ Decode(t) \/ Confirm(t) \/ CountSubscribers(t) \/ Occupied(t)
                              \/ CountLeft(t) \/ Vacated(t)
    BY <1>2, <2>1
  <2>2. CASE t \in Sockets /\ (Insert(t) \/ Identify(t) \/ Copy(t) \/ Delete(t))
    BY <2>2, SectionIsRoomStep
  <2>3. CASE t \in Sockets /\ (Announce(t) \/ Retract(t))
    BY <1>3, <2>3
  <2>4. CASE Announced(t) \/ Retracted(t) \/ Published(t)
    BY <1>5, <2>4
  <2>5. CASE \E r \in Sockets : AnnounceTo(t, r) \/ RetractFrom(t, r) \/ PublishTo(t, r)
    BY <1>6, <2>5
  <2> QED
    BY <1>9, <2>1, <2>2, <2>3, <2>4, <2>5 DEF Serve
<1> QED
  BY <1>7, <1>8, <1>9 DEF Next

\* Subscribe, Unsubscribe, Publish and the two presence broadcasts (channel.go:158-347)
\* are together no more than a Room: the write lock makes members change at single moments,
\* and the read lock keeps them as they are until the last frame of a broadcast.
THEOREM ImplementsRoom == Spec => RoomSpec
<1>1. Init => Held
  BY DEF Init, Held, Ranging, Goroutines
<1>2. Init => AsRoom!Init
  BY DEF Init, AsRoom!Init, Frames, Named
<1> QED
  BY ChannelInit, TypeStep, PhaseStep, HeldStep, RoomStep, <1>1, <1>2, PTL
     DEF Spec, RoomSpec, AsRoom!Spec
===============================================================================
