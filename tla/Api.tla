---------------------------------- MODULE Api ----------------------------------
(***************************************************************************)
(* The HTTP API of one application on one instance (api/handlers.go behind *)
(* the router of ipe.go): each request is a goroutine that passes two      *)
(* middlewares and then takes the locks of the application and of its      *)
(* channels one after the other, while sessions subscribe and leave and    *)
(* channels come and go.                                                   *)
(*                                                                         *)
(* Application.channels maps ids to objects, and a goroutine keeps the     *)
(* object it has looked up: the map may have another by then, or none.     *)
(* The sessions are an environment here, which may do at any time what     *)
(* Application.tla shows step by step: who found a channel empty removes   *)
(* whatever its id has by then, and who did not find it puts an object of  *)
(* its own in the place of whatever the id has by then.  Objects that      *)
(* neither the map nor a handler refers to are forgotten with their        *)
(* entries: no request can see them.                                       *)
(*                                                                         *)
(* Adding a channel holds the lock of the application until Redis answers. *)
(* A broadcast is one step, as in Room, which a channel implements         *)
(* (Channel.tla), and reaches this instance only: the others are in        *)
(* Cluster.tla.                                                            *)
(***************************************************************************)
EXTENDS Signature, FiniteSets

CONSTANTS
    Handlers,       \* goroutines that serve requests
    Sockets,
    Users,
    UserOf,         \* the user of each socket
    Channels,
    KindOf,         \* the prefix its kind goes by, "public-" when it is neither other
    Objects,        \* channel.New: what Application.channels may point to
    IdOf,           \* the id each has
    Joins,          \* the channels each socket may be in, as pairs
    Requests,       \* the requests that may come
    Blank,          \* Subscription.ID before the presence data is decoded
    NoSocket, NoObject

Kinds == {"presence-", "private-", "public-"}

ASSUME ApiAssumption ==
    /\ IsFiniteSet(Sockets) /\ IsFiniteSet(Users)
    /\ UserOf \in [Sockets -> Users]
    /\ KindOf \in [Channels -> Kinds]
    /\ IdOf \in [Objects -> Channels]
    /\ Joins \subseteq Channels \X Sockets
    /\ Blank \notin Users /\ NoSocket \notin Sockets /\ NoObject \notin Objects
    /\ \A q \in Requests :
        /\ q.kind \in {"events", "channels", "channel", "users"}
        /\ q.app \in {"unknown", "disabled", "enabled"}
        /\ q.body \in {"garbage", "large", "overflow", "good"}
        /\ q.channels \in Seq(Channels)
        /\ q.kind \in {"channel", "users"} => Len(q.channels) = 1
        /\ q.ignore \in Sockets \cup {NoSocket}
        /\ DOMAIN q.query \subseteq Keys /\ IsFiniteSet(DOMAIN q.query)
        /\ \A k \in DOMAIN q.query : q.query[k] # <<>>

VARIABLES
    channels,       \* Application.channels
    adding,         \* the object that is added, the application's lock held
    subs,           \* who is in which object, as pairs
    named,          \* those of them whose Subscription.ID is set
    pc,             \* the section a handler enters next
    req,            \* the request it serves
    names,          \* channels of a POST it has still to publish to
    held,           \* objects it has looked up and will still use
    pointers,       \* subscriptions it has still to read, each with the ids it has had
                    \* since they were copied
    status,         \* the error it answers with, or 0
    answer,         \* what it has read of channels
    ids,            \* the users it has read, by subscription
    made,           \* channels it has created
    delivered,      \* whom it has delivered its event to, in which channel
    stayed,         \* subscribers, from when the request came to its last section, of
                    \* the object that has been in the map all the time
    seen            \* subscribers of any object of an id at some time between, with
                    \* their ids then

registry == <<channels, adding, subs, named>>
handling == <<pc, req, names, held, pointers>>
reply    == <<status, answer, ids>>
history  == <<made, delivered, stayed, seen>>
vars     == <<registry, handling, reply, history>>

Ids == Users \cup {Blank}
Attributes == {"listed", "occupied", "user_count", "subscription_count"}
PCs == {"idle", "find", "add", "adding", "publish", "list", "count", "lookup", "occupied",
        "users", "subscriptions", "copy", "read", "reply"}

\* A handler between its middlewares and its last section.
Active(g) == pc[g] \notin {"idle", "reply"}

Mapped == {channels[c] : c \in Channels} \ {NoObject}
Reachable == Mapped \cup UNION {held[g] : g \in Handlers}

TypeOK ==
    /\ channels \in [Channels -> Objects \cup {NoObject}]
    /\ \A c \in Channels : channels[c] # NoObject => IdOf[channels[c]] = c
    /\ adding # NoObject => adding \in Mapped
    /\ \A p \in subs : p[1] \in Reachable /\ <<IdOf[p[1]], p[2]>> \in Joins
    /\ named \subseteq subs
    /\ pc \in [Handlers -> PCs]
    /\ \A g \in Handlers : pc[g] # "idle" => req[g] \in Requests
    /\ names \in [Handlers -> Seq(Channels)]
    /\ held \in [Handlers -> SUBSET Objects]
    /\ \A g \in Handlers : pc[g] = "adding" => held[g] = {adding}
    /\ pointers \in [Handlers -> SUBSET (Sockets \X SUBSET Ids)]
    /\ status \in [Handlers -> {0, 400, 401, 403, 413, 500}]
    /\ answer \in [Handlers -> SUBSET [attr : Attributes, channel : Channels, value : Nat]]
    /\ ids \in [Handlers -> SUBSET (Sockets \X Ids)]
    /\ made \in [Handlers -> SUBSET Channels]
    /\ delivered \in [Handlers -> SUBSET Joins]
    /\ stayed \in [Handlers -> SUBSET Joins]
    /\ seen \in [Handlers -> SUBSET (Channels \X Sockets \X Ids)]

NoRequest == [kind |-> "none"]
Nobody == [g \in Handlers |-> {}]

Init ==
    /\ channels = [c \in Channels |-> NoObject]
    /\ adding = NoObject
    /\ subs = {}
    /\ named = {}
    /\ pc = [g \in Handlers |-> "idle"]
    /\ req = [g \in Handlers |-> NoRequest]
    /\ names = [g \in Handlers |-> <<>>]
    /\ held = Nobody /\ pointers = Nobody
    /\ status = [g \in Handlers |-> 0]
    /\ answer = Nobody /\ ids = Nobody
    /\ made = Nobody /\ delivered = Nobody /\ stayed = Nobody /\ seen = Nobody

Goto(g, label) == pc' = [pc EXCEPT ![g] = label]

\* Whether a request is about c, and whether it reads who is in c.
About(q, c) == q.kind = "channels" \/ c \in ToSet(q.channels)
Concerns(q, c) ==
    /\ About(q, c)
    /\ q.kind # "events"
    /\ q.kind = "channels" => "user_count" \in Get(q.query, "info")

Id(o, s) == IF <<o, s>> \in named THEN UserOf[s] ELSE Blank

\* No handler or session is in the middle of AddChannel.
MayLock == adding = NoObject

\* What remains of the entries when objects have left the map or a handler.
Collect ==
    /\ subs' = {p \in subs : p[1] \in Reachable'}
    /\ named' = {p \in named : p[1] \in Reachable'}

-------------------------------------------------------------------------------
(* Sessions, and the registry's own goroutines.                             *)

\* The id gets another object, or none, whoever is in the one it had.
Replace(c, o) ==
    /\ channels' = [channels EXCEPT ![c] = o]
    /\ stayed' = [g \in Handlers |->
            IF Active(g) THEN {p \in stayed[g] : p[1] # c} ELSE stayed[g]]
    /\ Collect

\* Mutant: AddChannel does without the lock.
SessionAddsUnlocked(o) ==
    /\ o \notin Reachable
    /\ adding' = o
    /\ UNCHANGED <<handling, reply, made, delivered, seen>>
    /\ Replace(IdOf[o], o)

\* AddChannel of a session that found no channel some time before.
SessionAdds(o) ==
    /\ MayLock
    /\ o \notin Reachable
    /\ adding' = o
    /\ UNCHANGED <<handling, reply, made, delivered, seen>>
    /\ Replace(IdOf[o], o)

\* RemoveChannel of a session that found the channel empty some time before.
RemoveChannel(c) ==
    /\ MayLock
    /\ channels[c] # NoObject
    /\ UNCHANGED <<adding, handling, reply, made, delivered, seen>>
    /\ Replace(c, NoObject)

\* Mutant: the lock is not given back.
RedisAnswersLocked ==
    /\ adding # NoObject
    /\ pc' = [g \in Handlers |-> IF pc[g] = "adding" THEN "publish" ELSE pc[g]]
    /\ UNCHANGED <<registry, req, names, held, pointers, reply, history>>

\* SUBSCRIBE succeeds or fails; either way AddChannel returns and unlocks.
RedisAnswers ==
    /\ adding # NoObject
    /\ adding' = NoObject
    /\ pc' = [g \in Handlers |-> IF pc[g] = "adding" THEN "publish" ELSE pc[g]]
    /\ UNCHANGED <<channels, subs, named, req, names, held, pointers, reply, history>>

See(c, s, id) ==
    seen' = [g \in Handlers |->
        IF Active(g) /\ Concerns(req[g], c) THEN seen[g] \cup {<<c, s, id>>} ELSE seen[g]]

\* The first section of Channel.Subscribe: a new entry, without an id yet, for a socket
\* that may be in the channel already.
Enter(o, s) ==
    /\ o \in Reachable \ {adding}
    /\ <<IdOf[o], s>> \in Joins
    /\ subs' = subs \cup {<<o, s>>}
    /\ named' = named \ {<<o, s>>}
    /\ See(IdOf[o], s, Blank)
    /\ UNCHANGED <<channels, adding, handling, reply, made, delivered, stayed>>

\* The second, which a subscription never reaches whose data cannot be decoded.  The
\* entry may be one whose pointer a handler has copied.
Identify(o, s) ==
    /\ <<o, s>> \in subs \ named
    /\ KindOf[IdOf[o]] = "presence-"
    /\ named' = named \cup {<<o, s>>}
    /\ pointers' = [g \in Handlers |->
            {IF p[1] = s /\ o \in held[g] THEN <<s, p[2] \cup {UserOf[s]}>> ELSE p :
                p \in pointers[g]}]
    /\ See(IdOf[o], s, UserOf[s])
    /\ UNCHANGED <<channels, adding, subs, pc, req, names, held, reply, made, delivered, stayed>>

Leave(o, s) ==
    /\ <<o, s>> \in subs
    /\ subs' = subs \ {<<o, s>>}
    /\ named' = named \ {<<o, s>>}
    /\ stayed' = [g \in Handlers |->
            IF Active(g) /\ o \in Mapped THEN stayed[g] \ {<<IdOf[o], s>>} ELSE stayed[g]]
    /\ UNCHANGED <<channels, adding, handling, reply, made, delivered, seen>>

-------------------------------------------------------------------------------
(* The middlewares and the checks of a handler before it takes a lock.      *)

\* The client signs as documented, or something else that never matches.
Authentic(q) == q.signed /\ Documented(q.query) = prepareQueryString(q.query)

Asks(q, attribute) == attribute \in Get(q.query, "info")
Filter(q) == Get(q.query, "filter_by_prefix")

\* The status of a request that is refused, else 0: CheckAppDisabled,
\* Authentication, and the handler's own checks.
Refusal(q) ==
    IF q.app # "enabled" THEN 403
    ELSE IF ~Authentic(q) THEN 401
    ELSE IF q.kind = "events" /\ q.body = "garbage" THEN 400
    ELSE IF q.kind = "events" /\ q.body = "large" THEN 413
    ELSE IF q.kind = "channels" /\ Asks(q, "user_count") /\ Filter(q) # {"presence-"} THEN 400
    ELSE IF q.kind = "users" /\ KindOf[q.channels[1]] # "presence-" THEN 400
    ELSE 0

FirstSection(q) ==
    CASE q.kind = "events"   -> IF q.channels = <<>> THEN "reply" ELSE "find"
      [] q.kind = "channels" -> "list"
      [] OTHER               -> "lookup"

Begin(g, q, label) ==
    /\ pc[g] = "idle"
    /\ Goto(g, label)
    /\ req' = [req EXCEPT ![g] = q]
    /\ names' = [names EXCEPT ![g] = IF label = "find" THEN q.channels ELSE <<>>]
    /\ status' = [status EXCEPT ![g] = Refusal(q)]
    /\ IF label = "reply"
         THEN UNCHANGED <<stayed, seen>>
         ELSE /\ stayed' = [stayed EXCEPT ![g] =
                    {<<IdOf[p[1]], p[2]>> :
                        p \in {r \in subs : r[1] \in Mapped /\ About(q, IdOf[r[1]])}}]
              /\ seen' = [seen EXCEPT ![g] =
                    {<<IdOf[p[1]], p[2], Id(p[1], p[2])>> :
                        p \in {r \in subs : Concerns(q, IdOf[r[1]])}}]
    /\ UNCHANGED <<registry, held, pointers, answer, ids, made, delivered>>

\* Mutant: an error is written without a return after it.
ArriveNoReturn(g, q) == Begin(g, q, FirstSection(q))

Arrive(g, q) == Begin(g, q, IF Refusal(q) # 0 THEN "reply" ELSE FirstSection(q))

\* The handler goes on; after its last section it refers to nothing any more.
Proceed(g, label, objects) ==
    /\ Goto(g, label)
    /\ held' = [held EXCEPT ![g] = IF label = "reply" THEN {} ELSE objects]
    /\ UNCHANGED <<channels, adding>>
    /\ Collect

\* The handler returns: the error it has met, or its answer with 200, is sent.
Reply(g) ==
    /\ pc[g] = "reply"
    /\ Goto(g, "idle")
    /\ req' = [req EXCEPT ![g] = NoRequest]
    /\ status' = [status EXCEPT ![g] = 0]
    /\ LET Forget(f) == [f EXCEPT ![g] = {}]
       IN  /\ pointers' = Forget(pointers)
           /\ answer' = Forget(answer) /\ ids' = Forget(ids)
           /\ made' = Forget(made) /\ delivered' = Forget(delivered)
           /\ stayed' = Forget(stayed) /\ seen' = Forget(seen)
    /\ UNCHANGED <<registry, names, held>>

-------------------------------------------------------------------------------
(* POST events: for each channel, find or create it and publish.            *)

\* Subscriptions of an object, in the map or not.
Members(o) == {s \in Sockets : <<o, s>> \in subs}

FindChannel(g) ==
    LET o == channels[Head(names[g])]
    IN  /\ pc[g] = "find"
        /\ MayLock
        /\ IF o = NoObject THEN Goto(g, "add") ELSE Goto(g, "publish")
        /\ held' = [held EXCEPT ![g] = {o} \ {NoObject}]
        /\ UNCHANGED <<registry, req, names, pointers, reply, history>>

\* AddChannel of a handler that found no channel before it got the lock.
AddChannel(g, o) ==
    /\ pc[g] = "add"
    /\ MayLock
    /\ o \notin Reachable
    /\ IdOf[o] = Head(names[g])
    /\ adding' = o
    /\ made' = [made EXCEPT ![g] = @ \cup {IdOf[o]}]
    /\ held' = [held EXCEPT ![g] = {o}]
    /\ Replace(IdOf[o], o)
    /\ Goto(g, "adding")
    /\ UNCHANGED <<req, names, pointers, reply, delivered, seen>>

\* Mutant: the loop ends after the first channel.
PublishFirst(g, o) ==
    /\ pc[g] = "publish"
    /\ o \in held[g]
    /\ IF req[g].body = "overflow"
         THEN status' = [status EXCEPT ![g] = 500] /\ UNCHANGED delivered
         ELSE /\ delivered' = [delivered EXCEPT
                    ![g] = @ \cup {<<IdOf[o], s>> : s \in Members(o) \ {req[g].ignore}}]
              /\ UNCHANGED status
    /\ names' = [names EXCEPT ![g] = <<>>]
    /\ Proceed(g, "reply", {})
    /\ UNCHANGED <<req, pointers, answer, ids, made, stayed, seen>>

\* Data may be well-formed JSON that Channel.Publish cannot unmarshal, as a number out of
\* range: nothing is sent, 500 is written, and the loop goes on.
Publish(g, o) ==
    /\ pc[g] = "publish"
    /\ o \in held[g]
    /\ IF req[g].body = "overflow"
         THEN status' = [status EXCEPT ![g] = 500] /\ UNCHANGED delivered
         ELSE /\ delivered' = [delivered EXCEPT
                    ![g] = @ \cup {<<IdOf[o], s>> : s \in Members(o) \ {req[g].ignore}}]
              /\ UNCHANGED status
    /\ names' = [names EXCEPT ![g] = Tail(@)]
    /\ Proceed(g, IF Tail(names[g]) = <<>> THEN "reply" ELSE "find", {})
    /\ UNCHANGED <<req, pointers, answer, ids, made, stayed, seen>>

-------------------------------------------------------------------------------
(* The requests that read: what they hold are pointers, each read takes the *)
(* lock of a channel anew.                                                  *)

Read(g, attribute, o, n) ==
    answer' = [answer EXCEPT
        ![g] = @ \cup {[attr |-> attribute, channel |-> IdOf[o], value |-> n]}]

TotalSubscriptions(o) == Cardinality(Members(o))

\* Mutant: sockets are counted, not users.
TotalSockets(o) == Cardinality({<<s, Id(o, s)>> : s \in Members(o)})

TotalUsers(o) == Cardinality({Id(o, s) : s \in Members(o)})

\* Mutant: an unknown filter admits public channels only.
AdmitsPublic(filter, c) ==
    filter = {KindOf[c]} \/ (KindOf[c] = "public-" /\ filter \notin {{p} : p \in Kinds})

\* PresenceChannels, PrivateChannels, PublicChannels, or Channels for any other filter.
Admits(filter, c) == filter \in {{p} : p \in Kinds} => filter = {KindOf[c]}

GetChannels(g) ==
    LET listed == {o \in Mapped : Admits(Filter(req[g]), IdOf[o])}
        counts == Asks(req[g], "user_count") /\ listed # {}
    IN  /\ pc[g] = "list"
        /\ MayLock
        /\ answer' = [answer EXCEPT
                ![g] = {[attr |-> "listed", channel |-> IdOf[o], value |-> 1] : o \in listed}]
        /\ held' = [held EXCEPT ![g] = IF counts THEN listed ELSE {}]
        /\ Goto(g, IF counts THEN "count" ELSE "reply")
        /\ UNCHANGED <<registry, req, names, pointers, status, ids, history>>

CountUsers(g, o) ==
    /\ pc[g] = "count"
    /\ o \in held[g]
    /\ Read(g, "user_count", o, TotalUsers(o))
    /\ Proceed(g, IF held[g] = {o} THEN "reply" ELSE "count", held[g] \ {o})
    /\ UNCHANGED <<req, names, pointers, status, ids, history>>

\* FindChannelByChannelID of GetChannel and GetChannelUsers.
Lookup(g) ==
    LET q == req[g]
        c == q.channels[1]
        refused == \/ channels[c] = NoObject
                   \/ q.kind = "channel" /\ Asks(q, "user_count") /\ KindOf[c] # "presence-"
    IN  /\ pc[g] = "lookup"
        /\ MayLock
        /\ status' = [status EXCEPT ![g] = IF refused THEN 400 ELSE @]
        /\ held' = [held EXCEPT ![g] = IF refused THEN {} ELSE {channels[c]}]
        /\ Goto(g, IF refused THEN "reply" ELSE IF q.kind = "channel" THEN "occupied" ELSE "copy")
        /\ UNCHANGED <<registry, req, names, pointers, answer, ids, history>>

AfterUsers(q) == IF Asks(q, "subscription_count") THEN "subscriptions" ELSE "reply"

ReadOccupied(g, o) ==
    /\ pc[g] = "occupied"
    /\ o \in held[g]
    /\ Read(g, "occupied", o, IF TotalSubscriptions(o) > 0 THEN 1 ELSE 0)
    /\ Proceed(g, IF Asks(req[g], "user_count") THEN "users" ELSE AfterUsers(req[g]), held[g])
    /\ UNCHANGED <<req, names, pointers, status, ids, history>>

ReadUsers(g, o) ==
    /\ pc[g] = "users"
    /\ o \in held[g]
    /\ Read(g, "user_count", o, TotalUsers(o))
    /\ Proceed(g, AfterUsers(req[g]), held[g])
    /\ UNCHANGED <<req, names, pointers, status, ids, history>>

ReadSubscriptions(g, o) ==
    /\ pc[g] = "subscriptions"
    /\ o \in held[g]
    /\ Read(g, "subscription_count", o, TotalSubscriptions(o))
    /\ Proceed(g, "reply", held[g])
    /\ UNCHANGED <<req, names, pointers, status, ids, history>>

\* Channel.Subscriptions copies pointers.
CopySubscriptions(g, o) ==
    /\ pc[g] = "copy"
    /\ o \in held[g]
    /\ pointers' = [pointers EXCEPT ![g] = {<<s, {Id(o, s)}>> : s \in Members(o)}]
    /\ Proceed(g, IF Members(o) = {} THEN "reply" ELSE "read", held[g])
    /\ UNCHANGED <<req, names, reply, history>>

\* Mutant: the loop ends at a subscription without an id.
ReadIdOrStop(g, p) ==
    /\ pc[g] = "read"
    /\ p \in pointers[g]
    /\ pointers' = [pointers EXCEPT ![g] = IF Blank \in p[2] THEN {} ELSE @ \ {p}]
    /\ \/ /\ \E id \in p[2] : ids' = [ids EXCEPT ![g] = @ \cup {<<p[1], id>>}]
          /\ Proceed(g, IF pointers[g] = {p} \/ Blank \in p[2] THEN "reply" ELSE "read", held[g])
          /\ UNCHANGED status
       \/ /\ Cardinality(p[2]) > 1
          /\ status' = [status EXCEPT ![g] = 500]
          /\ Proceed(g, "reply", {})
          /\ UNCHANGED ids
    /\ UNCHANGED <<req, names, answer, history>>

\* The id of a subscription is read without the lock that Subscribe sets it under.  An
\* id that is set meanwhile may be read before, after, or torn: a length without a
\* pointer, which ends the handler in the RecoveryHandler.
ReadId(g, p) ==
    /\ pc[g] = "read"
    /\ p \in pointers[g]
    /\ pointers' = [pointers EXCEPT ![g] = @ \ {p}]
    /\ \/ /\ \E id \in p[2] : ids' = [ids EXCEPT ![g] = @ \cup {<<p[1], id>>}]
          /\ Proceed(g, IF pointers[g] = {p} THEN "reply" ELSE "read", held[g])
          /\ UNCHANGED status
       \/ /\ Cardinality(p[2]) > 1
          /\ status' = [status EXCEPT ![g] = 500]
          /\ Proceed(g, "reply", {})
          /\ UNCHANGED ids
    /\ UNCHANGED <<req, names, answer, history>>

-------------------------------------------------------------------------------
\* The sections that need the lock of the application, and the others.
Locking(g) ==
    FindChannel(g) \/ GetChannels(g) \/ Lookup(g) \/ \E o \in Objects : AddChannel(g, o)

Reading(g) ==
    \/ \E o \in Objects :
        \/ CountUsers(g, o) \/ ReadOccupied(g, o) \/ ReadUsers(g, o) \/ ReadSubscriptions(g, o)
        \/ CopySubscriptions(g, o)
    \/ \E p \in Sockets \X SUBSET Ids : ReadId(g, p)

Publishing(g) == \E o \in Objects : Publish(g, o)

Sessions ==
    \/ \E o \in Objects : SessionAdds(o)
    \/ \E c \in Channels : RemoveChannel(c)
    \/ \E o \in Objects, s \in Sockets : Enter(o, s) \/ Identify(o, s) \/ Leave(o, s)

Next ==
    \/ Sessions
    \/ RedisAnswers
    \/ \E g \in Handlers, q \in Requests : Arrive(g, q)
    \/ \E g \in Handlers : Locking(g) \/ Reading(g) \/ Publishing(g) \/ Reply(g)

Spec == Init /\ [][Next]_vars

\* Handlers run, Redis answers, and a goroutine that waits for the lock of the
\* application gets it some time after it is free: sync.RWMutex lets the readers that
\* wait in before the next writer, and writers one after the other.
FairSpec ==
    /\ Spec
    /\ WF_vars(RedisAnswers)
    /\ \A g \in Handlers :
        /\ SF_vars(Locking(g))
        /\ WF_vars(Reading(g) \/ Publishing(g) \/ Reply(g))

-------------------------------------------------------------------------------
(* Properties.                                                              *)

Answered(g, kinds) == pc[g] = "reply" /\ status[g] = 0 /\ req[g].kind \in kinds

StayedIn(g, c) == {s \in Sockets : <<c, s>> \in stayed[g]}
SeenIn(g, c) == {t \in seen[g] : t[1] = c}

\* Those who stayed and whose id was set the whole time: nobody who subscribes again.
NamedIn(g, c) == {s \in StayedIn(g, c) : <<c, s, Blank>> \notin seen[g]}

\* The numbers of a reply may be read at different moments and contradict each other,
\* but each lies between those who stayed the whole time, in an object that stayed in
\* the map, and those who were in any object of the id at some time; users with an id
\* count once each, whichever of their sockets leaves.
CountsJustified ==
    \A g \in Handlers : Answered(g, {"channels", "channel"}) => \A a \in answer[g] :
        LET stay == StayedIn(g, a.channel)
            saw  == SeenIn(g, a.channel)
        IN  /\ a.attr = "occupied" => (stay # {} => a.value = 1) /\ (saw = {} => a.value = 0)
            /\ a.attr = "subscription_count" =>
                   Cardinality(stay) <= a.value /\ a.value <= Cardinality({t[2] : t \in saw})
            /\ a.attr = "user_count" =>
                   /\ Cardinality({UserOf[s] : s \in NamedIn(g, a.channel)}) <= a.value
                   /\ a.value <= Cardinality({t[3] : t \in saw})

\* A channel is listed, by a filter for its kind and by none, if it stays in the map and
\* somebody stays in it.
ChannelsListed ==
    \A g \in Handlers : Answered(g, {"channels"}) => \A p \in stayed[g] :
        Filter(req[g]) \in {NoValue, {KindOf[p[1]]}} =>
            \E a \in answer[g] : a.attr = "listed" /\ a.channel = p[1]

\* GET users names every user who stays in a channel that stays in the map, and is not
\* in the middle of subscribing, and nobody who was not there; an id it read without the
\* lock is one the subscription had during the request.
UsersListed ==
    \A g \in Handlers : Answered(g, {"users"}) =>
        LET c == req[g].channels[1]
        IN  /\ \A s \in NamedIn(g, c) : <<s, UserOf[s]>> \in ids[g]
            /\ \A i \in ids[g] : <<c, i[1], i[2]>> \in seen[g]

\* A POST that is answered 200 has delivered its event to all who stayed in any of its
\* channels that stayed in the map, the socket it names left out.
PostReachesAll ==
    \A g \in Handlers : Answered(g, {"events"}) =>
        \A p \in stayed[g] : p[1] \in ToSet(req[g].channels) =>
            (p \in delivered[g] <=> p[2] # req[g].ignore)

\* A request that is answered with an error has sent no event, and has created no channel
\* unless its data passed the decoder and failed in Publish.
RefusedHasNoEffect ==
    \A g \in Handlers : status[g] >= 400 =>
        /\ delivered[g] = {}
        /\ made[g] # {} => req[g].body = "overflow"

\* A request to an enabled application whose client signs as the documentation says is
\* never turned away as unauthorized, if its keys are in lower case and have one value.
SignedIsAuthorized ==
    \A g \in Handlers : pc[g] # "idle" =>
        (req[g].signed /\ Canonical(req[g].query) => status[g] # 401)

\* handlers.go:63: "given the keys auth_key: foo, Name: Something else, you get
\* auth_key=foo&name=Something else".
AnyCaseIsAuthorized ==
    \A g \in Handlers : pc[g] # "idle" => (req[g].signed => status[g] # 401)

\* Every request is answered, also while others hold the lock of the application and
\* wait for Redis.
RequestsAnswered == \A g \in Handlers : pc[g] # "idle" ~> pc[g] = "idle"
===============================================================================
