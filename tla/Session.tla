-------------------------------- MODULE Session --------------------------------
(***************************************************************************)
(* One websocket session (websockets/websocket.go): the checks of onOpen,  *)
(* the read loop of handleMessages and its handlers, and the ways a        *)
(* session ends.  Other goroutines write to the same websocket, and a      *)
(* failed write closes it; other sessions and POSTs create, remove and     *)
(* replace channels at any time, the one this socket is in included: a     *)
(* session that found an id's channel empty removes whatever the id has by *)
(* then, and the second of two creators replaces the object of the first.  *)
(* The object of such a channel keeps the socket, and no request finds it  *)
(* any more.  What the calls into the application do to each other section *)
(* by section is the subject of Application.tla: a frame is one step here, *)
(* with the outcomes that the others may give it meanwhile.                *)
(***************************************************************************)
CONSTANTS
    Channels,       \* channel names in frames, trimmed
    KindOf          \* "public", "private", "presence", or "invalid" as a name

ASSUME KindAssumption == KindOf \in [Channels -> {"public", "private", "presence", "invalid"}]

VARIABLES
    config,         \* the flags of the application, read from the configuration
    phase,          \* where the goroutine of the session is
    socket,         \* the websocket: "open" or "closed"
    registered,     \* the socket is in Application.connections
    exists,         \* Application.channels: the ids in the map
    subscribed,     \* ids whose channel in the map has the socket
    stranded,       \* ids of which a channel that has left the map has the socket
    todo,           \* ids that the range loop of Disconnect has still to produce
    event,          \* the variable the read loop decodes every frame into
    signed,         \* channels a valid signature has come for
    published       \* the client events published: channel and event name

members == <<exists, subscribed, stranded>>
application == <<registered, members, todo>>
vars == <<config, phase, socket, application, event, signed, published>>

Protected == {c \in Channels : KindOf[c] \in {"private", "presence"}}

Events == {"ping", "subscribe", "unsubscribe", "client", "other"}

\* A frame: whether it is JSON, its "event", absent perhaps, and its data, which
\* may not be what the handler of the event decodes.
Frames == [json : BOOLEAN, event : Events \cup {"absent"}, channel : Channels,
           signed : BOOLEAN, decodes : BOOLEAN]

Requests == [app : BOOLEAN, protocol : {"absent", "text", "other", "7"}, tls : BOOLEAN]

\* The application knows the socket from Connect to the end of Disconnect.
Connected == {"connected", "serving", "closing", "leaving"}

TypeOK ==
    /\ config \in [enabled : BOOLEAN, onlySSL : BOOLEAN, userEvents : BOOLEAN]
    /\ phase \in Connected \cup {"upgraded", "ended"}
    /\ socket \in {"open", "closed"}
    /\ registered \in BOOLEAN
    /\ registered <=> phase \in Connected
    /\ exists \subseteq Channels
    /\ subscribed \subseteq exists
    /\ stranded \subseteq Channels
    /\ todo \subseteq exists
    /\ event \in Events \cup {"absent"}
    /\ signed \subseteq Channels
    /\ published \subseteq Channels \X (Events \cup {"absent"})

Init ==
    /\ config \in [enabled : BOOLEAN, onlySSL : BOOLEAN, userEvents : BOOLEAN]
    /\ phase = "upgraded"
    /\ socket = "open"
    /\ registered = FALSE
    /\ exists = {}
    /\ subscribed = {}
    /\ stranded = {}
    /\ todo = {}
    /\ event = "absent"
    /\ signed = {}
    /\ published = {}

-------------------------------------------------------------------------------
(* Opening.                                                                 *)

Rejected(r) ==
    \/ ~r.app
    \/ r.protocol # "7"
    \/ ~config.enabled
    \/ config.onlySSL /\ ~r.tls

\* An error frame and the end of ServeHTTP, or Connect.
Open(r) ==
    /\ phase = "upgraded"
    /\ IF Rejected(r)
         THEN phase' = "ended" /\ socket' = "closed" /\ UNCHANGED registered
         ELSE phase' = "connected" /\ registered' = TRUE /\ UNCHANGED socket
    /\ UNCHANGED <<config, members, todo, event, signed, published>>

\* Mutant: the failed connection stays registered.
EstablishOrLeave ==
    /\ phase = "connected"
    /\ \/ /\ socket = "open"
          /\ phase' = "serving"
          /\ UNCHANGED <<socket, registered>>
       \/ /\ socket' = "closed"
          /\ phase' = "ended"
          /\ UNCHANGED registered
    /\ UNCHANGED <<config, members, todo, event, signed, published>>

\* connection_established is written, or the write fails and the socket is
\* disconnected again.
Establish ==
    /\ phase = "connected"
    /\ \/ /\ socket = "open"
          /\ phase' = "serving"
          /\ UNCHANGED <<socket, registered>>
       \/ /\ socket' = "closed"
          /\ phase' = "ended"
          /\ registered' = FALSE
    /\ UNCHANGED <<config, members, todo, event, signed, published>>

-------------------------------------------------------------------------------
(* The read loop.  event is not cleared between frames, so one without an   *)
(* event name is taken for what the frame before it was.                    *)

Decoded(f) == IF f.event = "absent" THEN event ELSE f.event

Receive(f) ==
    /\ phase = "serving"
    /\ socket = "open"
    /\ f.json
    /\ event' = Decoded(f)

\* A frame that is no JSON ends the loop, as a read error does.
Garbage(f) ==
    /\ phase = "serving"
    /\ socket = "open"
    /\ ~f.json
    /\ phase' = "closing"
    /\ UNCHANGED <<config, socket, application, event, signed, published>>

\* Mutant: the error of a websocket that is closed does not end the loop.
ReadErrorIfOpen ==
    /\ phase = "serving"
    /\ socket = "open"
    /\ phase' = "closing"
    /\ UNCHANGED <<config, socket, application, event, signed, published>>

ReadError ==
    /\ phase = "serving"
    /\ phase' = "closing"
    /\ UNCHANGED <<config, socket, application, event, signed, published>>

\* handlePing and the events the loop ignores.
Answer(f) ==
    /\ Receive(f)
    /\ Decoded(f) \in {"ping", "other", "absent"}
    /\ UNCHANGED <<config, phase, socket, application, signed, published>>

\* Mutant: presence channels are subscribed without a signature.
AcceptedPresence(f) ==
    /\ f.decodes
    /\ KindOf[f.channel] # "invalid"
    /\ KindOf[f.channel] = "private" => f.signed

Accepted(f) ==
    /\ f.decodes
    /\ KindOf[f.channel] # "invalid"
    /\ f.channel \in Protected => f.signed

\* FindOrCreateChannelByChannelID, then channel.Subscribe: the channel found or made is
\* in the map, or has been removed from it or replaced in it by then.
Enter(c) ==
    \/ /\ exists' = exists \cup {c}
       /\ subscribed' = subscribed \cup {c}
       /\ UNCHANGED stranded
    \/ /\ exists' \in {exists, exists \cup {c}}
       /\ stranded' = stranded \cup {c}
       /\ UNCHANGED subscribed

\* handleSubscribe: a rejected frame is answered with an error.  The socket is in
\* the channel also when its presence data does not decode.
Subscribe(f) ==
    /\ Receive(f)
    /\ Decoded(f) = "subscribe"
    /\ signed' = IF f.signed THEN signed \cup {f.channel} ELSE signed
    /\ IF registered /\ Accepted(f) THEN Enter(f.channel) ELSE UNCHANGED members
    /\ UNCHANGED <<config, phase, socket, registered, todo, published>>

\* Application.Unsubscribe from the channel the map has: left empty, it is removed.
Leave(c) ==
    /\ subscribed' = subscribed \ {c}
    /\ exists' \in {exists, exists \ {c}}
    /\ UNCHANGED stranded

\* handleUnsubscribe: an error unless the socket is in the channel.
Unsubscribe(f) ==
    /\ Receive(f)
    /\ Decoded(f) = "unsubscribe"
    /\ IF f.decodes /\ registered /\ f.channel \in subscribed
         THEN Leave(f.channel)
         ELSE UNCHANGED members
    /\ UNCHANGED <<config, phase, socket, registered, todo, signed, published>>

\* Mutant: any channel takes client events.
PublishableAnywhere(f) == f.decodes /\ f.channel \in exists

Publishable(f) == f.decodes /\ f.channel \in exists /\ f.channel \in Protected

\* handleClientEvent: the application without client events is reported to the peer,
\* and the handler goes on.  The name published is the frame's own.
ClientEvent(f) ==
    /\ Receive(f)
    /\ Decoded(f) = "client"
    /\ published' = IF Publishable(f) THEN published \cup {<<f.channel, f.event>>}
                                      ELSE published
    /\ UNCHANGED <<config, phase, socket, application, signed>>

-------------------------------------------------------------------------------
(* Closing.  Disconnect ranges over the map while others write it: a key    *)
(* deleted before it is reached is not produced; one that is added may be,  *)
(* to no effect, for the socket is not in its channel.  That the runtime    *)
(* may stop the process for it is the subject of Application.tla.           *)

\* The deferred onClose -> Disconnect, up to the start of the range.
OnClose ==
    /\ phase = "closing"
    /\ phase' = "leaving"
    /\ todo' = exists
    /\ UNCHANGED <<config, socket, registered, members, event, signed, published>>

\* Mutant: the loop returns from the first channel it has left.
VisitAndReturn(c) ==
    /\ phase = "leaving"
    /\ c \in todo
    /\ IF c \in subscribed
         THEN Leave(c) /\ todo' = {}
         ELSE todo' = todo \ {c} /\ UNCHANGED members
    /\ UNCHANGED <<config, phase, socket, registered, event, signed, published>>

\* One iteration: Unsubscribe where the socket is subscribed.
Visit(c) ==
    /\ phase = "leaving"
    /\ c \in todo
    /\ todo' = todo \ {c}
    /\ IF c \in subscribed THEN Leave(c) ELSE UNCHANGED members
    /\ UNCHANGED <<config, phase, socket, registered, event, signed, published>>

\* The connection is removed, and the deferred conn.Close is made.
Disconnected ==
    /\ phase = "leaving"
    /\ todo = {}
    /\ phase' = "ended"
    /\ socket' = "closed"
    /\ registered' = FALSE
    /\ UNCHANGED <<config, members, todo, event, signed, published>>

-------------------------------------------------------------------------------
\* A write of another goroutine fails, or the ping goroutine's; or the peer leaves.
SocketCloses ==
    /\ phase # "ended"
    /\ socket = "open"
    /\ socket' = "closed"
    /\ UNCHANGED <<config, phase, application, event, signed, published>>

OthersCreate(c) ==
    /\ exists' = exists \cup {c}
    /\ UNCHANGED <<config, phase, socket, registered, subscribed, stranded, todo, event,
                   signed, published>>

\* The object of an id leaves the map, with the sockets that are in it.
Drop(c) ==
    /\ subscribed' = subscribed \ {c}
    /\ stranded' = IF c \in subscribed THEN stranded \cup {c} ELSE stranded
    /\ UNCHANGED <<config, phase, socket, registered, event, signed, published>>

\* Another session found the channel empty before this one entered it.
OthersRemove(c) ==
    /\ exists' = exists \ {c}
    /\ todo' = todo \ {c}
    /\ Drop(c)

\* Another creator did not find the channel before this one added it.
OthersReplace(c) ==
    /\ c \in exists
    /\ Drop(c)
    /\ UNCHANGED <<exists, todo>>

-------------------------------------------------------------------------------
Handle(f) == Garbage(f) \/ Answer(f) \/ Subscribe(f) \/ Unsubscribe(f) \/ ClientEvent(f)

Next ==
    \/ \E r \in Requests : Open(r)
    \/ Establish
    \/ \E f \in Frames : Handle(f)
    \/ ReadError
    \/ OnClose
    \/ \E c \in Channels : Visit(c)
    \/ Disconnected
    \/ SocketCloses
    \/ \E c \in Channels : OthersCreate(c) \/ OthersRemove(c) \/ OthersReplace(c)

Spec == Init /\ [][Next]_vars

\* The goroutine of the session runs, and a read of a closed websocket fails.
FairSpec ==
    /\ Spec
    /\ WF_vars(Establish)
    /\ WF_vars(socket = "closed" /\ ReadError)
    /\ WF_vars(OnClose)
    /\ WF_vars(\E c \in Channels : Visit(c))
    /\ WF_vars(Disconnected)

-------------------------------------------------------------------------------
(* Properties.                                                              *)

\* However a session ends, and whatever others did to the map that Disconnect ranged over,
\* no later request finds anything of it: the connection is gone, and no channel of the
\* map has the socket.  A channel that has left the map may have it still.
NothingLeft == phase = "ended" => ~registered /\ subscribed = {}

\* A socket is in a private or a presence channel, in the map or not, only after a frame
\* signed for that channel, whatever frames without an event name came between.
SubscriptionsSigned == (subscribed \cup stranded) \cap Protected \subseteq signed

\* Client events reach private and presence channels only.
ClientEventsProtected == \A p \in published : p[1] \in Protected

\* A websocket that is closed, by whomever, ends its session.
ClosedSocketEnds == phase # "upgraded" /\ socket = "closed" ~> phase = "ended"

\* websocket_test.go:726: "client events are rejected when disabled".
DisabledEventsRejected == ~config.userEvents => published = {}
===============================================================================
