# A TLA+ development of Ipê

Ipê is a server of the Pusher protocol in Go. Clients hold websockets, subscribe
to channels and get the events that other clients and HTTP requests publish
there; several instances share a Redis to reach each other's clients. This
directory holds TLA+ models of it, the TLC configurations that check them, and
TLAPS proofs. Paths are relative to the root of the repository's sources
(`app/app.go`, ...).

## 1. The system

| component | state | operations | talks to | hard about it |
|---|---|---|---|---|
| registry of an application, `app/app.go` | `connections`, `channels` (id -> object), `channelSubscribers`, statistics | `Connect`, `Disconnect`, `FindOrCreateChannelByChannelID`, `AddChannel`, `RemoveChannel`, `Subscribe`, `Unsubscribe`, `Publish`, the listener goroutine | channels (calls), Redis (commands, Pub/Sub) | one goroutine per session and per HTTP request; lookups, tests and removals in separate critical sections; an iteration without the lock; a Redis command in the middle |
| channel, `channel/channel.go` | `subscriptions` behind an RWMutex | `Subscribe`, `Unsubscribe`, `Publish` | connections (frames), webhooks (callbacks) | frames and webhooks are sent under the read lock; a presence subscription is completed in two sections |
| Redis client, `redis/redis.go` | keys of connections, sets of subscriptions, presence hashes, Pub/Sub | one method per command | every instance | shared by instances; keys expire; a crash leaves them; instances hear their own messages |
| webhooks, `app/webhooks.go` | one worker goroutine and one context per call | `Trigger...Hook`, `triggerHook` | a foreign HTTP server | timeout against answer |
| websocket session, `websockets/websocket.go` | where the read loop is, the decoded event, timers | handshake, one handler per event, `onClose` | registry | ends in many ways; others write to its websocket |
| connection, `connection/connection.go` | mutex, write deadline | `Publish`, `Send` | websocket | a failed write closes it |
| HTTP API, `api/handlers.go` | none | `POST events`, `GET channels`, `GET channel`, `GET users`, authentication | registry | creates channels; reads them in several sections |
| events, storage, utils, config, logger, start-up | none that changes while the server runs | | | |

What makes each correct:

* registry: an event reaches the sockets that are in a channel and no other, a
  disconnected socket is in none, only empty channels go, every channel hears
  the other instances, the statistics agree with the map;
* channel: a broadcast reaches exactly the subscribers, members of a presence
  channel know each other, the occupancy webhooks do not contradict the channel,
  no call blocks for ever;
* cluster: an event reaches the subscribers of every instance, in order, once,
  and not its sender; a crash of one instance does not disturb the others, and a
  failed command or a lost event costs no more than that event;
* webhooks: a call ends in time, and nothing is sent after it has;
* session: nothing of a session is left when it ends; what needs a signature has
  had one; a live peer stays and a dead one goes;
* HTTP API: a reply says what was the case while the request was served, a POST
  reaches who stays, a refused request changes nothing, who signs as documented is
  let in, and every request is answered.

The hazards, each with its line and the properties aimed at it, are listed in
`PROJECT.json`.

## 2. The modules

| module | models | composes |
|---|---|---|
| `Membership` | abstract specification: the sockets an event on a channel id reaches | implemented by `Application` |
| `Application` | the registry of one application on one instance | instantiates `Membership` |
| `ApplicationProofs` | theorems about `Application` | |
| `SerialProofs` | theorems about `Application` when requests do not overlap | extends `ApplicationProofs` |
| `Room` | abstract specification: a channel whose members change at single moments and whose broadcasts go to the members of one moment | implemented by `Channel`; what the modules around take a channel to be |
| `Channel` | one channel object | instantiates `Room` |
| `ChannelProofs` | theorems about `Channel` | |
| `Cluster` | one channel on several instances: `Publish`, the listeners, the Redis keys, crashes and other failures | |
| `ClusterProofs` | theorems about `Cluster` | |
| `WebHook` | `triggerHook` | |
| `WebHookProofs` | theorems about `WebHook` | |
| `Session` | one websocket session: handshake, frames, end | |
| `SessionProofs` | theorems about `Session` | |
| `Signature` | the canonical query string of a signed request | used by `Api` |
| `Api` | the requests of the HTTP API on one instance, with the sessions and channels around them | extends `Signature` |
| `ApiProofs` | theorems about `Api` | |
| `KeepAlive` | the timers of one websocket | |
| `KeepAliveProofs` | theorems about `KeepAlive` | |
| `MCApi`, `MCApplication`, `MCChannel`, `MCCluster`, `MCSession`, `MCWebHook` | model values and constant functions for TLC | |

Definitions named "Mutant" in a comment are the plausible bugs that each property
of a passing run is tested against: with the definition after them replaced by
them, TLC finds the property violated.

### Application

A session runs its requests one after the other (`handleMessages`), a POST is a
goroutine of its own; `pc[t]` is the critical section goroutine `t` enters next,
`cur[t]` the `*channel.Channel` it holds across sections. Channels are objects,
numbered as they are created, so that two objects may carry one id and a pointer
may be stale. An action is one critical section of `app.go`, or one Redis command
with the code up to it:

* `FindOrCreate` is the lookup under the read lock; `AddChannel` is the section
  that writes the map, with `setupChannelPubSub` inside it;
* `Unsubscribe` is `ChannelUnsubscribe`, `RedisUnsubscribe`, `CheckOccupied`,
  `RemoveSubscriber`, `RemoveChannel`;
* `Disconnect` is a range over the map without the lock: `todo[s]` are the keys it
  has still to produce; a key deleted meanwhile is not produced, a key added
  meanwhile may or may not be (`RangeMayProduce`, `RangeForgets`, after the Go
  specification). A write during an iteration may end the process (`MapWrite`,
  `fatal`).

`RedisReplies` says whether commands succeed, fail, or both, and `Expiring` which kinds
of keys may run out of their 24 hours (`KeyExpires`): a connection key, the whole
subscription set of an id, its presence hash. Two history variables name the cause of what
the properties except: `expired` has the members a set has lost that way and not got
back by a new SADD; `posted` the objects that a POST made and no socket has entered. What
is in a subscription beyond its key is left to `Channel`.

### Channel

The lock has readers inside and writers waiting: a waiting writer holds off new
readers, as `sync.RWMutex` does. A section under the write lock is one action; a
broadcast is one action per frame, under the read lock. `roster[s]` is a history
variable: the users that the frames `s` was sent name as present. A user id is
blank until the second section of `Subscribe`. Data that is no JSON (`garbled`), or
JSON of another shape, ends in an error between the two sections and leaves it blank.
Data without a `user_id` decodes: the member is announced and confirmed under the empty
id, which is a user like any other here. `Room` is what the
other modules rely on: there a broadcast is one step. In the mapping (`RoomSpec`) a frame
under way is the set of those it has reached and those it has still to reach.

### Cluster

The channel is an object on each instance, as in `Application`: `channel[i]` is the one
the map of instance `i` has, `subs[i][c]` who is in object `c`, and `cur[t]` the pointer
that a session, a POST or a client event carries from its lookup to its next section
(`FindOrCreate`, `AddChannel`, `ChannelSubscribe`, `CheckOccupied`, `RemoveSubscriber`,
`RemoveChannel`, `PublishLocal`); a listener looks the object up anew for each event
(`taken[i][k].channel`). So an object may be replaced or removed with a subscriber in
it, whom no event finds from then on; `recorded` follows that: whoever is in the
object of the map when an event is published and loses that place before the event has
come is struck from it (`NoLongerFound`).

Every Redis command is a step. A client event and a POST are one action,
`PublishRequest`: the client event is the case in which the sender's own instance
publishes. `Crash` kills and restarts an instance at any step: its memory is lost,
its keys stay. Every Redis command may fail (`Command`), with what its caller in
`app.go` makes of the error: an unwritten connection key, a channel without a
listener, a subscription that stays in or out of Redis, a `Publish` that stops or
passes a socket over, a sender that is left in. `Lose` is what go-redis does to a
subscriber that is cut off or does not keep up. `Expire` is the end of the 24 hours of
a connection key, `ExpireSubscriptions` of those of a channel's set. The history
variables `confirmed`, `recorded` and `earlier` note, when an event is published,
who was a subscriber and which events were before it; `keyless` notes whose key has
expired or was never written, `struck` which events a failure has met, so that the
properties can say that a failure costs no more than the event it strikes.

### WebHook, Session, KeepAlive

`WebHook` has the caller in its `select`, the worker, and their unbuffered channel
`done`; sending and answering are the network's choice. `Session` enumerates frames
by what the handlers tell apart: JSON or not, the event's kind or none, the channel,
a valid signature or not, data that decodes or not. The variable the loop decodes
into is a state variable, because it is not cleared between frames. The channels of the
map are an environment that does what `Application` shows it can: others create a channel,
remove one this socket is in (`OthersRemove`) and replace its object (`OthersReplace`), and
a subscription may enter an object that is out of the map by then (`Enter`). `subscribed`
is what the map shows of the socket, `stranded` the ids of which an object out of the map
has it. `Disconnect` is the loop it is in the code: `OnClose` starts the range, `Visit` is
an iteration, and a key deleted meanwhile is not produced (`todo`). `KeepAlive`
counts time in units; `active` is what is under way (a ping that waits for the
writer, a ping or pong on the wire, a pong to be read, a frame that is written), each
with its age, and `Tick` is blocked while something is due (`Urgent`).

### Signature and Api

`Signature` has `prepareQueryString` as a function of the query, beside the string a
client signs that follows the documentation (`Documented`). Both sort: `Sorted` is what
`sort.Strings` promises, an arrangement in rising order, not an algorithm. A value is the
set of its comma-separated parts, so that `info=user_count,subscription_count` needs no
strings; a key has the sequence of values it was given with, of which the server takes the
first (`Get`). A query is `Canonical` when its keys are in lower case and have one value
each. The keys of a query are finitely many (`ApiAssumption`).

A request in `Api` passes the router and the middlewares (`Refusal`: disabled or
unknown application first, then the signature, then what the handler itself refuses)
and goes through its critical sections: `pc[g]` is the next. `channels` maps ids to
objects, and `held[g]` are the objects the handler has looked up and goes on to use,
whatever the map has by then; `pointers[g]` are the subscriptions
`Channel.Subscriptions` copied, whose `ID` it reads without the lock (`ReadId`: the id
before, after, or a torn string that ends the handler). `adding` is the object for
which somebody holds the application's lock in `AddChannel` until Redis answers.

The sessions are an environment, no kinder than `Application`: `RemoveChannel` takes an
id out of the map whoever is in its object, for the test that it was empty is in an
earlier section; `SessionAdds` and `AddChannel` put a new object in the place of what the
id has, for the lookup is in an earlier section; `Enter` may be of a socket that is in the
channel, whose entry is then replaced by one without an id, until `Identify`. An object
that neither the map nor a handler refers to is forgotten, with who is in it (`Collect`):
no request can see it, so that the number of objects needed stays small.

`Publish` has the error path: data may be JSON that the decoder of the body takes and
`Channel.Publish` does not, as a number out of range (`body = "overflow"`). Nothing is sent
then, 500 is written, and the loop goes on with the next channel, which it creates
if it has to.

`stayed` and `seen` are history variables: who was, from before the first
section to the last, in an object that was in the map all the time, and who was in any
object of the id at any time between, with the ids they had.

## 3. The runs

Passing runs, and what they show:

| run | bounds | shows |
|---|---|---|
| `app_concurrent` | 2 sockets, 1 poster, 1 channel id, 3 objects, Redis answers, its set expires | `DisconnectedUnreachable`, `ListenerServes`, `RegisteredSubscriberInRedis` |
| `app_membership` | 2 sockets, 1 id, 2 objects, Redis fails at will, fair | the registry implements `Membership`; `DisconnectCompletes` |
| `app_serial` | 2 sockets, 1 poster, 2 ids, one a presence channel, 4 objects, all keys expire, requests do not overlap | `DisconnectUnsubscribesAll`, `OnlyEmptyChannelsRemoved`, `TotalChannelsExact`; and only a POST leaves an empty channel (`EmptyOnlyByPost`) |
| `channel_presence` | presence channel, 2 sockets, 1 publisher | `RangeStable`, `NoMissingMember`, `LastHookVacated`; the channel implements `Room`; no deadlock |
| `cluster_deliver` | 2 instances, 2 sockets on one of them, 1 event on either, 2 objects and 2 listeners each, 1 failure of any kind, keys and sets expire | `SenderNeverEchoed`, `SubscribersReceive`, `CopiesBounded` |
| `cluster_order` | 2 instances with a socket each, 2 events of one instance, 1 object and 1 listener each, 1 failure of any kind | `InOrder` |
| `webhook_calls` | 2 goroutines, one with webhooks off, 3 calls each, fair | `NoLateRequest`, `CallsReturn`, `WorkersEndOrTimedOut` |
| `session_frames` | 3 channels (public, presence, invalid), every configuration, others create, remove and replace them | `NothingLeft`, `SubscriptionsSigned`, `ClientEventsProtected`, `ClosedSocketEnds` |
| `api_requests` | 1 handler, 2 channels (presence, public) with 2 objects each, 2 sockets of one user in one and 1 of another in the other, requests of every kind, fair | `CountsJustified`, `ChannelsListed`, `UsersListed`, `PostReachesAll`, `RefusedHasNoEffect`, `SignedIsAuthorized`, `RequestsAnswered`; no deadlock |
| `keepalive_timers` | the code's durations in units of 2 s (30, 27, 5), delays of 1 | `LivePeerStays`, `SilentPeerGoes` |

Runs that end in a violation, each a disagreement between the code and what the
repository says of it (quoted in `PROJECT.json`, "findings"):

| run | what happens |
|---|---|
| `app_removes_occupied` | a channel is removed just after a second socket has entered it |
| `cluster_duplicate` | a local subscriber gets an event twice |

Beside these runs, the following configurations each show one more thing the code
does against what the repository says, or would be expected to say; TLC ends each
with a counterexample within a minute:

| configuration | module | what happens | against |
|---|---|---|---|
| `app_leaves_subscription.cfg` | `MCApplication` | two creations of a channel: `Disconnect` does not find the subscription in the replaced object (`app.go:351`) | `app_test.go:566`, "Verify unsubscribed from all channels" |
| `app_two_listeners.cfg` | `MCApplication` | a channel that was removed and is created again has two listeners (`app.go:231`) | `app.go:228`, "Clean up Redis Pub/Sub subscriber" |
| `app_fatal.cfg` | `MCApplication` | the map is iterated and written at once (`app.go:159`) | `README-TESTING.md:203`, "Fix data races before merging" |
| `app_lists_empty.cfg` | `MCApplication` | a POST leaves an empty channel for good, which is then listed as occupied (`handlers.go:191`) | `handlers.go:214`, "fetching a hash of occupied channels" |
| `channel_blank.cfg` | `MCChannel` | `subscription_succeeded` names a member without a user id (`channel.go:163`) | `channel.go:201`, "while holding lock to avoid race condition" |
| `cluster_window.cfg` | `MCCluster` | a confirmed subscriber misses an event of another instance (`app.go:483`) | `README.md:34`, "ensuring all connected clients receive messages" |
| `session_disabled_events.cfg` | `MCSession` | a client event is published although the application has them disabled: the check lacks its return (`websocket.go:257`) | `websocket_test.go:726`, "tests that client events are rejected when disabled" |
| `api_uppercase.cfg` | `MCApi` | a request signed as documented is refused when a key has an upper-case letter: its value is looked up under the lowercased key and signed as empty (`handlers.go:36`) | `handlers.go:63`, "given the keys auth_key: foo, Name: Something else, you get auth_key=foo&name=Something else" |
| `webhook_leak.cfg` | `MCWebHook` | a worker whose caller timed out never ends (`webhooks.go:217`) | `webhooks.go:216`, "Successfully terminated" |
| `keepalive_slow.cfg` | `KeepAlive` | a peer that takes 8 s to accept a frame is timed out by the read deadline (`websocket.go:48`) | `connection.go:45`, "a connection that is still receiving or sending traffic stays open" |

What the properties except, each exception being something the code does:

* `SubscribersReceive` and `InOrder` speak of those whom Redis had as subscribers and
  whose object stays in the map of their instance. A subscriber of an object that was
  replaced (`app.go:351`) or removed (`app.go:473`) gets no event, without any failure;
  that is what `app_removes_occupied` and `app_leaves_subscription.cfg` show of the
  registry. The properties of `Api` make the same exception: `stayed` is who stayed in an
  object that stayed in the map.
* They, and `SenderNeverEchoed`, except those whose connection key has expired or could
  not be written. After 24 hours (`redis.go:195`) such a client does miss events of
  other instances and does get its own events back, although it is active; the root
  `README.md:172` says metadata "expires after 24 hours of inactivity". In the same way
  `RegisteredSubscriberInRedis` excepts those whom the set has lost by expiry
  (`redis.go:264`).
* `NothingLeft` is about what later requests find: `Disconnect` does not visit an object
  that has left the map, which may keep the socket (`stranded`), and so may the set in
  Redis.
* `UsersListed` and the lower bound of `user_count` leave out who is without an id
  at some time: a subscriber that subscribes again is, until its data is decoded anew.
* `RefusedHasNoEffect` lets a POST create channels when its data fails in `Publish`,
  after the lookup. No event has been sent then.
* `EmptyOnlyByPost` holds where `handlers.go:214` ("occupied channels") does not: a
  channel that a POST made is listed, and nobody is in it.

Why the bounds are enough. The races of the registry are between two goroutines
about one id: a third object is what it takes to replace a channel twice and to
have a stale pointer to the first; a second id matters for the loop of
`Disconnect` (`app_serial`, and the proofs for any number). In a channel, two
members and a publisher exercise every pair of overlapping calls. In the cluster,
two instances make local and remote; `cluster_deliver` has the sender and another
subscriber on one instance, both local or both remote to the event, and two objects there,
so that one is replaced or removed while the other socket, the publisher or a listener
holds it; a second listener per instance is the leak of `RemoveChannel`. `cluster_order`
has a socket on each side; order needs two events of one instance, and a single object
suffices since replacing it strikes the subscriber from `recorded`. One failure in these
runs meets any other step; the proofs bound neither failures nor instances, events or
objects, and let failures and expiry meet for two events as well. In the API, one handler
meets every interleaving of the sessions with its sections; two handlers meet only
through the lock and the channels they create, which sessions do as well. Of the two objects
of an id one may be in the map and one held by the handler; a handler that comes to add
an object holds none, so one is always free for it, and sessions replace an object
whenever the handler does not hold the other. Three calls of a goroutine leave two older
workers behind a newer one. Bounds are constants with "bound" in their comment:
`MaxChannels`, `MaxListeners`, `MaxFailures`, `Expiring`, `MaxHooks`; and in `Api` the set
`Objects`. Behaviour ends when a bound is used up or every session is over, so all runs but
those of `Channel` and `Api` turn the deadlock check off.

The largest runs are `cluster_deliver` (3,272,821 distinct states), `cluster_order`
(1,955,217), `app_serial` (1.4 million) and `app_concurrent` (1.4 million, up to symmetry),
`api_requests` (314,012, with liveness) and `session_frames` (307,800, with liveness).

### Fairness

* `app_membership`: weak fairness of each goroutine's own steps: a goroutine that
  can run is scheduled. No request has to come.
* `webhook_calls`: goroutines run, the timer of the context fires, and a request
  ends once its context is done (`net/http`). The receiver need not answer.
* `session_frames`: the session's goroutine runs and a read of a closed websocket
  fails.
* `keepalive_timers`: time passes, timers fire, and a handler returns - its
  webhooks time out, and Redis is assumed to answer. Frames need not be written,
  a peer need not send.
* `api_requests`: handlers run and Redis answers, with success or an error. The lock
  of the application is taken and released by others for ever, so weak fairness would
  not do for a section that needs it; strong fairness of these sections is what
  `sync.RWMutex` gives: readers that wait are let in before the next writer, and
  writers one after the other. Sessions need not do anything.

## 4. The proofs

`ApplicationProofs` proves, for every set of sockets, posters and ids, every bound
on objects and every behaviour of Redis that the property admits:

* `TypeCorrect`: `TypeOK` is invariant;
* `DisconnectedIsUnreachable`: no channel in the map holds a disconnected socket;
* `ListenerAlwaysServes` and `SubscribersAreInRedis`: while Redis answers;
* `ImplementsMembership`: every step of the registry is a step of `Membership` or
  a stutter, so `Spec => MembershipSpec`.

The property that carries the others is that a socket cannot come back into a
channel behind its own `Disconnect`, although the loop reads a map that changes
and objects are replaced. It is not inductive. `IndInv` adds: objects carry the id
they are registered under (`Naming`); an object between `channel.New` and
`AddChannel` is empty and known to its creator alone, so that what replaces a
channel can hold nobody (`FreshObjects`); where a session's goroutine is agrees
with the connections and the loops (`Sessions`); and for a socket that is leaving,
every registered channel that still holds it is one its loop has still to produce
or is just unsubscribing from (`Leaving`). One lemma per part shows that every
action preserves it. `ListenerServes` needs that a claimed key has a listener
(`Listening`); `RegisteredSubscriberInRedis` needs that a socket which removes its
entry from Redis is not in the object that replaced the one it left
(`LeavingRedis`); what expiry takes from the set is in `expired` until the next SADD.
The assumptions are those of `Application.tla`: sockets and posters are disjoint, there is
an id, and the bound is a natural number.

`SerialProofs` proves what the repository says of channels for requests that do not
overlap (`SerialSpec`): `SerialRemovesEmpty` (`OnlyEmptyChannelsRemoved`),
`SerialDisconnectLeavesAll` (`DisconnectUnsubscribesAll`), `SerialCountsChannels`
(`TotalChannelsExact`) and `SerialListsOccupied` (`EmptyOnlyByPost`), for any number of
posters: the only empty channels are those a POST made. That what the first two say fails
when requests overlap (`app_removes_occupied`, `app_leaves_subscription.cfg`) is then due to
the interleaving alone. A step of `SerialSpec` is a step of `Spec`, so `IndInv` holds, and
`SerialInv` adds: one goroutine at most is in the middle of a request (`Alone`); the object
it holds is the one the map has for the id, or the id is free while it adds one
(`Pointing`); an object that is not in
the map is empty (`Attached`), which is why a `Disconnect` that walks the map misses
nobody; a registered channel without subscribers is one the running request is about to
enter or to remove, or one that a POST made (`Occupied`, `PostsKnown`); and the statistics
agree with the map at every step, not only between requests (`Counted`).

`KeepAliveProofs` proves `LiveStays`: for all durations with
`MaxDelay + MaxStall < PongWait - PingPeriod` (`RoomForPong`), only a silent peer
loses its connection to a timer. `LivePeerStays` says nothing of how far the timers
have run; the invariant `Paced` adds, while the peer is alive: a frame is written
within `MaxStall`, a ping waits for one frame at most and is answered before the
next (`WritesPaced`); and no more of the read deadline is used up than the time since
the last tick whose ping has been answered (`ReadsPaced`). `keepalive_slow.cfg`
shows that the hypothesis is needed: the code allows a frame `WriteWait`, which
exceeds the gap. `TimersTypeCorrect` needs no hypothesis.

`ClusterProofs` proves, for any number of instances, sockets, events and listeners,
and any number of crashes, failed commands, lost events and expired keys:
`ClusterTypeCorrect`, `NoEcho` (`SenderNeverEchoed`), `SubscribersGetEvents`
(`SubscribersReceive`), `CopiesAreBounded` (`CopiesBounded`) and `EventsInOrder`
(`InOrder`). The invariant has six parts. `SocketInv`: while a socket is connected its key
names its instance, if it has one; whom an event is due is in the object that the map of
its instance has, and in the set in Redis. `SenderInv`: what is before a listener has been
published by a sender that is or was connected, so a listener that takes it on the
sender's own instance finds that key and leaves the sender out. `FoundOK`: who carries an
event to somebody it is due, the publisher or a listener, holds the object that the map
still has. It is why pointers that go stale do no harm to those: as long as an event is due
to a socket, its instance neither replaces the object nor loses a listener
(`StaysFound`), because what does so strikes the socket from `recorded`. `DueOK`: until a
subscriber of another instance has the event, Publish has still to find the
subscriber among those it looks up, or the event is before or with a listener of the
subscriber's instance, or a failure struck it, or that instance is deaf (`InReach`). It
holds because the loop of `Publish` cannot end without finding a remote key while one
is there to find. `CopiesInv`: what a client has received of an event and the copies still on
their way to it are together no more than the bound (`Allowed`), which a delivery leaves
as it is and only PUBLISH raises; that needs that a listener is sent an event once and
nobody before its PUBLISH (`SentOnce`). `OrderInv`: an event is behind the earlier ones
with every listener of the recipient's instance (`OrderOK`); so that this is true when it
is sent, a Publish that has returned must have left a copy with every listener or been
delivered (`Reaching`), and what is earlier must have returned (`EarlierOK`). The sum in
`CopiesInv` and the quantifier over listeners in `OrderInv` are what the two properties
lack: that nothing has arrived twice, or too early, says nothing of what is still to come.

`ChannelProofs` proves `ChannelTypeCorrect`, `BroadcastsReachAll` (`RangeStable`, from
the discipline of the lock: who ranges over the map is a reader, and nobody writes
while there is one), `EmptyIsVacated` (`LastHookVacated`) and, for one socket per user,
`MembersKnowEachOther` (`NoMissingMember`). The hypothesis is needed: `member_removed`
names a user whose other sockets may still be there. `ImplementsRoom` shows that every
step of a channel is a step of `Room` or none: who ranges over the subscriptions is a
reader, and a socket that is about to be named or deleted is in the channel (`Held`,
`PhasesMatch`), so that a write section changes the members while no frame is under way,
and a frame goes to the same sockets from its first to its last iteration. This is what
allows `Cluster` and `Api` to broadcast in one step, and `Application` to enter and leave in
one.

`WebHookProofs` proves `CallsTypeCorrect` and `NothingSentLate` (`NoLateRequest`).
`SessionProofs` proves `SessionTypeCorrect`, `SessionLeavesNothing` (`NothingLeft`),
`OnlySignedSubscriptions` and `OnlyProtectedClientEvents`, for any set of channels and
any sequence of frames. `NothingLeft` is not inductive: `SessionInv` adds that the range of
`Disconnect` has still to produce every channel of the map that the socket is in
(`Leaving`), which what others do to the map leaves true, since they can only take the
socket out of it.

`ApiProofs` proves, for any number of handlers, channels, sockets and users and any set of
requests, `ApiTypeCorrect`, `NumbersBounded` (`CountsJustified`), `OccupiedListed`
(`ChannelsListed`), `StayingUsersListed` (`UsersListed`), `PostsDelivered`
(`PostReachesAll`), `RefusalsHarmless` (`RefusedHasNoEffect`) and `SignedAuthorized`
(`SignedIsAuthorized`). The invariant speaks of
a handler between two sections: whom it counts on is still subscribed, in the object
that the map has (`Stays`); if it holds an object of that id, it is this one (`Holds`), for
a replacement strikes from `stayed` whoever was in the old one; and whoever is there now,
in any object, it has seen, with the id they have (`Sees`). With these a number
read now is justified now, and stays so as the one bound shrinks and the other grows
(`NumbersJustified`, `BoundsWiden`); the names and pointers still to come and the work
done make up the request (`Posted`, `Reads`), and a POST that has met an error has sent
nothing (`Effects`). It is assumed that there are finitely many
sockets and users, which the counting needs. `SignedAuthorized` rests on a fact about
sorting: the place of a member in a sequence that rises is how many members rank no higher
(`RisingPlace`), so there is one such sequence and no more (`RisingExists`, `RisingOnce`;
by counting, without induction). Hence sorting the keys and then looking up their values,
as the server does, gives what sorting the parameters gives, as the client does, whatever
the number of parameters (`CanonicalAgrees`) - as long as lowercasing changes no key, which
`api_uppercase.cfg` shows to be needed, and each key has one value, since the server signs
the first one only: the hypothesis `Canonical` in `SignedIsAuthorized`.

Every invariant and every safety action property of the passing runs is a theorem. Only
model-checked is liveness (`DisconnectCompletes`, `CallsReturn`, `WorkersEndOrTimedOut`,
`ClosedSocketEnds`, `SilentPeerGoes`, `RequestsAnswered`), which needs fairness and
ENABLED and is out of the prover's reach. `Membership` states no liveness.

## 5. Not modelled

* The configuration, logging, JSON layouts and random ids, and the start-up but for
  the routes: no state that changes concurrently. That session ids are unique is
  assumed, and HMAC is taken to be injective.
* What decoding an event's data into an `interface{}` does to it on its way to other
  instances (`app.go:427`): data is a model value.
* The presence hashes and the subscription metadata in Redis beyond who has one:
  they are written and never read (`GetSubscriptionMetadata` and `GetPresenceData` have
  no caller).
* The length of a Redis command, except that the application's lock is held meanwhile
  (`Api`).
* The test doubles and the functional client.

## 6. Plan

Done, in this order: `Membership`, `Application` and its proofs, `Channel`, `Cluster`,
`WebHook`, `Session`, `KeepAlive` and its proof; `Signature` and `Api`; the failures of
`Cluster`; the channel objects of `Cluster`, `Api` and `Session`, which others replace and
remove; the proofs of `WebHook`, `Session`, `Channel`, `Cluster`, `Api` and of
`Application` without overlap.

What would come next:

1. A common abstract specification of what one instance delivers, which `Application` and
   each instance of `Cluster` implement: the two state the same races of the registry.
2. The rosters of presence members in `Room`; waiting readers made explicit in `Channel`,
   so that the end of every call follows from weak fairness.
