-------------------------------- MODULE Channel --------------------------------
(***************************************************************************)
(* One channel object (channel/channel.go): its subscriptions behind a     *)
(* sync.RWMutex, the presence roster its subscribers are told, the         *)
(* occupancy webhooks, and Publish.                                        *)
(*                                                                         *)
(* A socket's Subscribe and Unsubscribe run on its own goroutine, Publish  *)
(* runs on goroutines of other requests and of the Pub/Sub listener.  The  *)
(* frames of a broadcast are sent one by one under the read lock, so the   *)
(* steps of several goroutines interleave everywhere but in the sections   *)
(* under the write lock.                                                   *)
(***************************************************************************)
EXTENDS FiniteSets

CONSTANTS
    Sockets,        \* the websocket sessions
    Publishers,     \* goroutines that publish into the channel
    Users,          \* user ids the presence data decodes to: one of them may stand for
                    \* the empty id of data without a user_id
    UserOf,         \* the user each socket subscribes as
    IsPresence      \* the kind of the channel

Goroutines == Sockets \cup Publishers

\* Subscription.ID before the presence data is decoded, and no ignored socket.  The code
\* spells Blank as it spells the id of data without a user_id, and asks for neither.
CONSTANTS Blank, NoSocket

ASSUME SocketAssumption ==
    /\ Sockets \cap Publishers = {}
    /\ NoSocket \notin Goroutines
    /\ UserOf \in [Sockets -> Users]
    /\ Blank \notin Users
    /\ IsPresence \in BOOLEAN

VARIABLES
    subs,       \* keys of Channel.subscriptions
    ident,      \* Subscription.ID of the subscription each socket made last
    garbled,    \* sockets whose subscription came with data that is no JSON
    readers,    \* goroutines in a broadcast, that is, holding the read lock
    waiting,    \* goroutines blocked in Lock: no new reader may enter
    todo,       \* subscriptions the broadcast has still to range over
    reached,    \* subscriptions the broadcast sent its frame to
    skip,       \* the subscription the broadcast leaves out
    snap,       \* ids copied for subscription_succeeded
    roster,     \* users the frames sent to a socket since it subscribed name as
                \* present, the last frame that names a user counting
    lastHook,   \* the last occupancy webhook fired
    pc

lock  == <<readers, waiting>>
range == <<todo, reached, skip>>
vars  == <<subs, ident, garbled, lock, range, snap, roster, lastHook, pc>>

PCs == {"idle", "insert", "decode", "identify", "announce", "announcing", "copy",
        "confirm", "count", "occupied", "delete", "retract", "retracting",
        "countLeft", "vacated", "publishing"}

TypeOK ==
    /\ subs \subseteq Sockets
    /\ ident \in [Sockets -> Users \cup {Blank}]
    /\ garbled \subseteq Sockets
    /\ readers \subseteq Goroutines
    /\ waiting \subseteq Sockets
    /\ todo \in [Goroutines -> SUBSET Sockets]
    /\ reached \in [Goroutines -> SUBSET Sockets]
    /\ skip \in [Goroutines -> Sockets \cup {NoSocket}]
    /\ snap \in [Sockets -> SUBSET (Users \cup {Blank})]
    /\ roster \in [Sockets -> SUBSET (Users \cup {Blank})]
    /\ lastHook \in {"none", "occupied", "vacated"}
    /\ pc \in [Goroutines -> PCs]

Init ==
    /\ subs = {}
    /\ ident = [s \in Sockets |-> Blank]
    /\ garbled = {}
    /\ readers = {}
    /\ waiting = {}
    /\ todo = [t \in Goroutines |-> {}]
    /\ reached = [t \in Goroutines |-> {}]
    /\ skip = [t \in Goroutines |-> NoSocket]
    /\ snap = [s \in Sockets |-> {}]
    /\ roster = [s \in Sockets |-> {}]
    /\ lastHook = "none"
    /\ pc = [t \in Goroutines |-> "idle"]

Goto(t, label) == pc' = [pc EXCEPT ![t] = label]

-------------------------------------------------------------------------------
(* sync.RWMutex.  Lock waits for the readers inside and holds off new ones; *)
(* the sections under the write lock are short and are single actions here. *)

MayRead == waiting = {}

\* Lock is called: the goroutine blocks at "at".
WaitLock(s, at) ==
    /\ s \notin waiting
    /\ pc[s] = at
    /\ waiting' = waiting \cup {s}
    /\ UNCHANGED <<subs, ident, garbled, readers, range, snap, roster, lastHook, pc>>

\* Mutant: the section is entered without the lock.
LockedAnyway(s, at) ==
    /\ pc[s] = at
    /\ s \in waiting
    /\ waiting' = waiting \ {s}
    /\ UNCHANGED readers

Locked(s, at) ==
    /\ pc[s] = at
    /\ s \in waiting
    /\ readers = {}
    /\ waiting' = waiting \ {s}
    /\ UNCHANGED readers

\* The beginning, one iteration and the end of a range over the subscriptions
\* under the read lock.
EnterRange(t, ignore) ==
    /\ MayRead
    /\ readers' = readers \cup {t}
    /\ todo' = [todo EXCEPT ![t] = subs]
    /\ reached' = [reached EXCEPT ![t] = {}]
    /\ skip' = [skip EXCEPT ![t] = ignore]
    /\ UNCHANGED waiting

\* Mutant: the loop ends at the first frame that cannot be sent.
RangeMayStop(t, r) ==
    /\ r \in todo[t]
    /\ \/ /\ todo' = [todo EXCEPT ![t] = @ \ {r}]
          /\ reached' = IF r = skip[t] THEN reached ELSE [reached EXCEPT ![t] = @ \cup {r}]
       \/ /\ todo' = [todo EXCEPT ![t] = {}]
          /\ UNCHANGED reached
    /\ UNCHANGED <<lock, skip>>

NextInRange(t, r) ==
    /\ r \in todo[t]
    /\ todo' = [todo EXCEPT ![t] = @ \ {r}]
    /\ reached' = IF r = skip[t] THEN reached ELSE [reached EXCEPT ![t] = @ \cup {r}]
    /\ UNCHANGED <<lock, skip>>

LeaveRange(t) ==
    /\ todo[t] = {}
    /\ readers' = readers \ {t}
    /\ reached' = [reached EXCEPT ![t] = {}]
    /\ skip' = [skip EXCEPT ![t] = NoSocket]
    /\ UNCHANGED <<waiting, todo>>

-------------------------------------------------------------------------------
(* Subscribe.                                                               *)

Subscribe(s) ==
    /\ pc[s] = "idle"
    /\ Goto(s, "insert")
    /\ UNCHANGED <<subs, ident, garbled, lock, range, snap, roster, lastHook>>

\* A new subscription under the socket's key, blank until its data is decoded.
Insert(s) ==
    /\ Locked(s, "insert")
    /\ subs' = subs \cup {s}
    /\ ident' = [ident EXCEPT ![s] = Blank]
    /\ garbled' \in {garbled \ {s}, IF IsPresence THEN garbled \cup {s} ELSE garbled}
    /\ Goto(s, IF IsPresence THEN "decode" ELSE "confirm")
    /\ UNCHANGED <<range, snap, roster, lastHook>>

\* Data that is no JSON, no object, or has a user_id that is no string, ends Subscribe
\* with an error and leaves the subscription.  Data without a user_id decodes: the member
\* is identified, announced and confirmed under the empty id.
Decode(s) ==
    /\ pc[s] = "decode"
    /\ \/ s \notin garbled /\ Goto(s, "identify")
       \/ Goto(s, "idle")
    /\ UNCHANGED <<subs, ident, garbled, lock, range, snap, roster, lastHook>>

Identify(s) ==
    /\ Locked(s, "identify")
    /\ ident' = [ident EXCEPT ![s] = UserOf[s]]
    /\ Goto(s, "announce")
    /\ UNCHANGED <<subs, garbled, range, snap, roster, lastHook>>

\* Mutant: nobody is told of the new member.
AnnounceToNobody(s) ==
    /\ pc[s] = "announce"
    /\ Goto(s, "copy")
    /\ UNCHANGED <<subs, ident, garbled, lock, range, snap, roster, lastHook>>

\* PublishMemberAddedEvent, to every subscription but the new one; then the
\* member_added webhook.
Announce(s) ==
    /\ pc[s] = "announce"
    /\ EnterRange(s, s)
    /\ Goto(s, "announcing")
    /\ UNCHANGED <<subs, ident, garbled, snap, roster, lastHook>>

AnnounceTo(s, r) ==
    /\ pc[s] = "announcing"
    /\ NextInRange(s, r)
    /\ roster' = IF r = s THEN roster ELSE [roster EXCEPT ![r] = @ \cup {ident[s]}]
    /\ UNCHANGED <<subs, ident, garbled, snap, lastHook, pc>>

Announced(s) ==
    /\ pc[s] = "announcing"
    /\ LeaveRange(s)
    /\ Goto(s, "copy")
    /\ UNCHANGED <<subs, ident, garbled, snap, roster, lastHook>>

\* Mutant: the keys of the subscriptions are copied, not their user ids.
CopyKeys(s) ==
    /\ Locked(s, "copy")
    /\ snap' = [snap EXCEPT ![s] = subs]
    /\ Goto(s, "confirm")
    /\ UNCHANGED <<subs, ident, garbled, range, roster, lastHook>>

\* The subscriptions are copied under the lock and sent after it, those left out
\* whose data is no JSON.
Copy(s) ==
    /\ Locked(s, "copy")
    /\ snap' = [snap EXCEPT ![s] = {ident[r] : r \in subs \ garbled}]
    /\ Goto(s, "confirm")
    /\ UNCHANGED <<subs, ident, garbled, range, roster, lastHook>>

Confirm(s) ==
    /\ pc[s] = "confirm"
    /\ roster' = [roster EXCEPT ![s] = @ \cup snap[s]]
    /\ snap' = [snap EXCEPT ![s] = {}]
    /\ Goto(s, "count")
    /\ UNCHANGED <<subs, ident, garbled, lock, range, lastHook>>

CountSubscribers(s) ==
    /\ pc[s] = "count"
    /\ MayRead
    /\ Goto(s, IF Cardinality(subs) = 1 THEN "occupied" ELSE "idle")
    /\ UNCHANGED <<subs, ident, garbled, lock, range, snap, roster, lastHook>>

Occupied(s) ==
    /\ pc[s] = "occupied"
    /\ lastHook' = "occupied"
    /\ Goto(s, "idle")
    /\ UNCHANGED <<subs, ident, garbled, lock, range, snap, roster>>

-------------------------------------------------------------------------------
(* Unsubscribe.  A socket that is not subscribed gets an error and changes  *)
(* nothing; only its own goroutine could make the lookup stale.             *)

Unsubscribe(s) ==
    /\ pc[s] = "idle"
    /\ s \in subs
    /\ MayRead
    /\ Goto(s, "delete")
    /\ UNCHANGED <<subs, ident, garbled, lock, range, snap, roster, lastHook>>

Delete(s) ==
    /\ Locked(s, "delete")
    /\ subs' = subs \ {s}
    /\ roster' = [roster EXCEPT ![s] = {}]
    /\ garbled' = garbled \ {s}
    /\ Goto(s, IF IsPresence THEN "retract" ELSE "countLeft")
    /\ UNCHANGED <<ident, range, snap, lastHook>>

\* PublishMemberRemovedEvent, by user id; then the member_removed webhook.
Retract(s) ==
    /\ pc[s] = "retract"
    /\ EnterRange(s, s)
    /\ Goto(s, "retracting")
    /\ UNCHANGED <<subs, ident, garbled, snap, roster, lastHook>>

RetractFrom(s, r) ==
    /\ pc[s] = "retracting"
    /\ NextInRange(s, r)
    /\ roster' = [roster EXCEPT ![r] = @ \ {ident[s]}]
    /\ UNCHANGED <<subs, ident, garbled, snap, lastHook, pc>>

Retracted(s) ==
    /\ pc[s] = "retracting"
    /\ LeaveRange(s)
    /\ Goto(s, "countLeft")
    /\ UNCHANGED <<subs, ident, garbled, snap, roster, lastHook>>

\* Mutant: the test of Subscribe, a count of one, is used for Unsubscribe too.
CountLeftOne(s) ==
    /\ pc[s] = "countLeft"
    /\ MayRead
    /\ Goto(s, IF Cardinality(subs) = 1 THEN "vacated" ELSE "idle")
    /\ UNCHANGED <<subs, ident, garbled, lock, range, snap, roster, lastHook>>

CountLeft(s) ==
    /\ pc[s] = "countLeft"
    /\ MayRead
    /\ Goto(s, IF subs = {} THEN "vacated" ELSE "idle")
    /\ UNCHANGED <<subs, ident, garbled, lock, range, snap, roster, lastHook>>

Vacated(s) ==
    /\ pc[s] = "vacated"
    /\ lastHook' = "vacated"
    /\ Goto(s, "idle")
    /\ UNCHANGED <<subs, ident, garbled, lock, range, snap, roster>>

-------------------------------------------------------------------------------
(* Publish.  The ignored socket gets no frame; for a client event its turn  *)
(* is the client_event webhook, called with the read lock held.             *)

Publish(p, ignore) ==
    /\ pc[p] = "idle"
    /\ EnterRange(p, ignore)
    /\ Goto(p, "publishing")
    /\ UNCHANGED <<subs, ident, garbled, snap, roster, lastHook>>

PublishTo(p, r) ==
    /\ pc[p] = "publishing"
    /\ NextInRange(p, r)
    /\ UNCHANGED <<subs, ident, garbled, snap, roster, lastHook, pc>>

Published(p) ==
    /\ pc[p] = "publishing"
    /\ LeaveRange(p)
    /\ Goto(p, "idle")
    /\ UNCHANGED <<subs, ident, garbled, snap, roster, lastHook>>

-------------------------------------------------------------------------------
Request(t) ==
    \/ t \in Sockets /\ (Subscribe(t) \/ Unsubscribe(t))
    \/ t \in Publishers /\ \E i \in Sockets \cup {NoSocket} : Publish(t, i)

Serve(t) ==
    \/ t \in Sockets /\ \E at \in {"insert", "identify", "copy", "delete"} : WaitLock(t, at)
    \/ t \in Sockets /\ (Insert(t) \/ Decode(t) \/ Identify(t) \/ Announce(t) \/ Announced(t))
    \/ t \in Sockets /\ (Copy(t) \/ Confirm(t) \/ CountSubscribers(t) \/ Occupied(t))
    \/ t \in Sockets /\ (Delete(t) \/ Retract(t) \/ Retracted(t) \/ CountLeft(t) \/ Vacated(t))
    \/ t \in Sockets /\ \E r \in Sockets : AnnounceTo(t, r) \/ RetractFrom(t, r)
    \/ t \in Publishers /\ \E r \in Sockets : PublishTo(t, r)
    \/ t \in Publishers /\ Published(t)

Next == \E t \in Goroutines : Request(t) \/ Serve(t)

Spec == Init /\ [][Next]_vars

-------------------------------------------------------------------------------
(* Properties.                                                              *)

\* A broadcast reaches exactly the subscriptions of the moment it took the read
\* lock, but the one it leaves out: nobody comes or goes under it.
RangeStable ==
    \A t \in readers :
        /\ reached[t] \cap todo[t] = {}
        /\ reached[t] \cup (todo[t] \ {skip[t]}) = subs \ {skip[t]}

\* Two subscribers with different users, neither of them busy: each has been told
\* of the other, by subscription_succeeded or by member_added, however their
\* Subscribe and Unsubscribe calls overlapped.
NoMissingMember ==
    \A s, t \in subs :
        UserOf[s] # UserOf[t] /\ pc[s] = "idle" /\ pc[t] = "idle"
            /\ ident[s] # Blank /\ ident[t] # Blank
        => UserOf[t] \in roster[s]

\* The webhooks never leave an empty channel announced as occupied.
LastHookVacated ==
    (\A s \in Sockets : pc[s] = "idle") /\ subs = {} => lastHook # "occupied"

\* channel.go:201: the subscription data is copied "while holding lock to avoid race
\* condition", so a member of the copy has its user id.
NoBlankMember == \A s \in Sockets : Blank \notin snap[s]

\* The frames of the goroutines in a broadcast, and whom each has reached or has still to.
Frames == {<<t, reached[t] \cup (todo[t] \ {skip[t]})>> : t \in readers}

Named == {s \in subs : ident[s] # Blank}

AsRoom == INSTANCE Room WITH
    Callers <- Goroutines, members <- subs, named <- Named, frames <- Frames

\* However the sections of its callers interleave, a channel is a Room: frame by frame
\* under the read lock, a broadcast goes to the subscriptions of one moment, as Cluster
\* and Api have it.
RoomSpec == AsRoom!Spec
===============================================================================
