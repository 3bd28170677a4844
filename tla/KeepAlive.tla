------------------------------- MODULE KeepAlive -------------------------------
(***************************************************************************)
(* The timers of one websocket (handleMessages of websockets/websocket.go, *)
(* writeMessage of connection/connection.go): the read deadline that each  *)
(* pong and each message renews, the ticker of the ping goroutine, and the *)
(* write deadline of a frame.  Frames and pings share the one writer of    *)
(* the websocket, which serves them in the order they come.                *)
(*                                                                         *)
(* Time is counted in units.  A peer that is alive takes a frame off the   *)
(* wire within MaxStall and answers a ping within MaxDelay; a peer that    *)
(* falls silent does neither any more.                                     *)
(***************************************************************************)
EXTENDS Integers

CONSTANTS
    PongWait, PingPeriod, WriteWait,
    MaxDelay,       \* the longest an alive peer takes from a ping to its pong
    MaxStall        \* the longest an alive peer takes to accept a frame

ASSUME DurationAssumption ==
    /\ PongWait \in Nat \ {0}
    /\ PingPeriod \in Nat \ {0}
    /\ WriteWait \in Nat \ {0}
    /\ MaxDelay \in Nat
    /\ MaxStall \in Nat
    /\ MaxDelay + MaxStall < PingPeriod
    /\ MaxStall < WriteWait

VARIABLES
    reader,         \* the read loop: "reading", "handling" a message, or "closed"
    peer,           \* "alive" or "silent"
    unread,         \* time the read loop has waited since it set its deadline
    sinceTick,      \* time since the ticker fired
    active,         \* what is under way, see Activities
    pingAge,        \* how long the ping has waited,
    wireAge,        \* how long ping and pong have been on the wire,
    frameAge        \* how long the frame has been written

\* A ping that waits for the writer; a ping or its pong on the wire; a pong there to be
\* read; a frame that is being written.
Activities == {"ping", "wire", "pong", "frame"}

ages == <<pingAge, wireAge, frameAge>>
vars == <<reader, peer, unread, sinceTick, active, ages>>

TypeOK ==
    /\ reader \in {"reading", "handling", "closed"}
    /\ peer \in {"alive", "silent"}
    /\ unread \in 0 .. PongWait
    /\ sinceTick \in 0 .. PingPeriod
    /\ active \subseteq Activities
    /\ pingAge \in 0 .. WriteWait
    /\ wireAge \in 0 .. MaxDelay
    /\ frameAge \in 0 .. WriteWait

Init ==
    /\ reader = "reading"
    /\ peer = "alive"
    /\ unread = 0
    /\ sinceTick = 0
    /\ active = {}
    /\ pingAge = 0
    /\ wireAge = 0
    /\ frameAge = 0

Open  == reader # "closed"
Close == reader' = "closed" /\ UNCHANGED <<peer, unread, sinceTick, active, ages>>

-------------------------------------------------------------------------------
(* The read loop.                                                           *)

\* Mutants: the pong handler sets the deadline a ping period too late; it does not
\* renew the deadline.
ReadPongLate ==
    /\ reader = "reading"
    /\ "pong" \in active
    /\ active' = active \ {"pong"}
    /\ unread' = 0 - PingPeriod
    /\ UNCHANGED <<reader, peer, sinceTick, ages>>

ReadPongOnly ==
    /\ reader = "reading"
    /\ "pong" \in active
    /\ active' = active \ {"pong"}
    /\ UNCHANGED <<reader, peer, unread, sinceTick, ages>>

\* The pong handler renews the deadline.
ReadPong ==
    /\ reader = "reading"
    /\ "pong" \in active
    /\ active' = active \ {"pong"}
    /\ unread' = 0
    /\ UNCHANGED <<reader, peer, sinceTick, ages>>

ReadMessage ==
    /\ reader = "reading"
    /\ peer = "alive"
    /\ reader' = "handling"
    /\ UNCHANGED <<peer, unread, sinceTick, active, ages>>

\* Back at the top of the loop the deadline is renewed before the next read.
Handled ==
    /\ reader = "handling"
    /\ reader' = "reading"
    /\ unread' = 0
    /\ UNCHANGED <<peer, sinceTick, active, ages>>

\* The read ends with a timeout, and the loop with it.
ReadTimeout ==
    /\ reader = "reading"
    /\ unread = PongWait
    /\ Close

-------------------------------------------------------------------------------
(* The ping goroutine.                                                      *)

\* Mutant: a ping renews the deadline.
TickerFiresAndRenews ==
    /\ Open
    /\ sinceTick = PingPeriod
    /\ sinceTick' = 0
    /\ active' = active \cup {"ping"}
    /\ pingAge' = IF "ping" \in active THEN pingAge ELSE 0
    /\ unread' = 0
    /\ UNCHANGED <<reader, peer, wireAge, frameAge>>

\* A tick during a write is kept in the ticker's channel.
TickerFires ==
    /\ Open
    /\ sinceTick = PingPeriod
    /\ sinceTick' = 0
    /\ active' = active \cup {"ping"}
    /\ pingAge' = IF "ping" \in active THEN pingAge ELSE 0
    /\ UNCHANGED <<reader, peer, unread, wireAge, frameAge>>

WritePing ==
    /\ Open
    /\ "ping" \in active
    /\ "frame" \notin active
    /\ active' = (active \ {"ping"}) \cup (IF peer = "alive" THEN {"wire"} ELSE {})
    /\ wireAge' = 0
    /\ UNCHANGED <<reader, peer, unread, sinceTick, pingAge, frameAge>>

\* WriteControl gives up, and the goroutine closes the websocket.
PingTimeout ==
    /\ Open
    /\ "ping" \in active
    /\ pingAge = WriteWait
    /\ Close

-------------------------------------------------------------------------------
(* Connection.Publish.                                                      *)

\* A ping that waits for the writer has it before the next frame.
BeginWrite ==
    /\ Open
    /\ active \cap {"ping", "frame"} = {}
    /\ active' = active \cup {"frame"}
    /\ frameAge' = 0
    /\ UNCHANGED <<reader, peer, unread, sinceTick, pingAge, wireAge>>

\* A silent peer accepts frames until the buffers on the way to it are full.
EndWrite ==
    /\ Open
    /\ "frame" \in active
    /\ active' = active \ {"frame"}
    /\ UNCHANGED <<reader, peer, unread, sinceTick, ages>>

\* The write fails at its deadline, and writeMessage closes the websocket.
WriteTimeout ==
    /\ Open
    /\ "frame" \in active
    /\ frameAge = WriteWait
    /\ Close

-------------------------------------------------------------------------------
(* The peer, and time.                                                      *)

Pong ==
    /\ peer = "alive"
    /\ "wire" \in active
    /\ active' = (active \ {"wire"}) \cup {"pong"}
    /\ UNCHANGED <<reader, peer, unread, sinceTick, ages>>

FallSilent ==
    /\ peer = "alive"
    /\ peer' = "silent"
    /\ active' = active \ {"wire"}
    /\ UNCHANGED <<reader, unread, sinceTick, ages>>

\* Time passes up to the moment something is due: a timer, the peer's next sign of
\* life, what the read loop can read or the ping goroutine can write at once.
Urgent ==
    \/ reader = "reading" /\ ("pong" \in active \/ unread = PongWait)
    \/ sinceTick = PingPeriod
    \/ "ping" \in active /\ ("frame" \notin active \/ pingAge = WriteWait)
    \/ "wire" \in active /\ wireAge = MaxDelay
    \/ "frame" \in active /\ frameAge = WriteWait
    \/ "frame" \in active /\ peer = "alive" /\ frameAge = MaxStall

Older(running, age) == IF running THEN age + 1 ELSE age

Tick ==
    /\ Open
    /\ ~Urgent
    /\ unread' = Older(reader = "reading", unread)
    /\ sinceTick' = sinceTick + 1
    /\ pingAge' = Older("ping" \in active, pingAge)
    /\ wireAge' = Older("wire" \in active, wireAge)
    /\ frameAge' = Older("frame" \in active, frameAge)
    /\ UNCHANGED <<reader, peer, active>>

-------------------------------------------------------------------------------
Next ==
    \/ ReadPong \/ ReadMessage \/ Handled \/ ReadTimeout
    \/ TickerFires \/ WritePing \/ PingTimeout
    \/ BeginWrite \/ EndWrite \/ WriteTimeout
    \/ Pong \/ FallSilent
    \/ Tick

Spec == Init /\ [][Next]_vars

\* Time passes, timers fire, goroutines run, and a handler ends (its webhooks time
\* out and Redis answers).
FairSpec ==
    /\ Spec
    /\ WF_vars(Tick)
    /\ WF_vars(ReadPong) /\ WF_vars(Handled) /\ WF_vars(ReadTimeout)
    /\ WF_vars(TickerFires) /\ WF_vars(WritePing) /\ WF_vars(PingTimeout)
    /\ WF_vars(WriteTimeout)

-------------------------------------------------------------------------------
(* Properties.                                                              *)

\* websocket.go:42: a live connection has no maximum age, and an idle but alive client
\* never trips the read deadline; connection.go:45: nor does one that is still
\* receiving frames.  Only a silent peer loses its connection to a timer.
LivePeerStays == reader = "closed" => peer = "silent"

\* A peer that has fallen silent is disconnected, whatever is still published to it.
SilentPeerGoes == peer = "silent" ~> reader = "closed"
===============================================================================
