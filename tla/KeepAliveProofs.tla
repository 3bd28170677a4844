---------------------------- MODULE KeepAliveProofs ----------------------------
(***************************************************************************)
(* A live peer never loses its connection to a timer, for all durations    *)
(* that leave a ping the time to be written and answered before the read   *)
(* deadline.                                                               *)
(***************************************************************************)
EXTENDS KeepAlive, TLAPS

\* A frame and a pong fit between the ping and the read deadline.
RoomForPong == MaxDelay + MaxStall < PongWait - PingPeriod

\* While the peer is alive a frame is accepted in time, a ping waits for one frame at
\* most, and each ping is answered before the next.
WritesPaced ==
    peer = "alive" =>
        /\ "frame" \in active => frameAge <= MaxStall
        /\ "ping" \in active =>
            /\ sinceTick = pingAge
            /\ pingAge <= MaxStall
            /\ "frame" \in active => pingAge <= frameAge
            /\ "wire" \notin active
        /\ "wire" \in active => sinceTick <= MaxStall + wireAge

\* How much of the read deadline is used up: no more than the time since the tick
\* whose ping has been answered, or since the tick before a ping that has not.
ReadsPaced ==
    peer = "alive" /\ reader = "reading" =>
        /\ unread <= PingPeriod + MaxStall + MaxDelay
        /\ active \cap {"ping", "wire"} # {} /\ "pong" \notin active =>
                unread <= PingPeriod + sinceTick
        /\ active \cap {"ping", "wire", "pong"} = {} => unread <= sinceTick

Paced == TypeOK /\ WritesPaced /\ ReadsPaced /\ LivePeerStays

-------------------------------------------------------------------------------
\* The variables keep their types: no timer runs past the moment it is due.
LEMMA TypeStep == TypeOK /\ [Next]_vars => TypeOK'
<1> USE DurationAssumption DEF TypeOK, Activities
<1> SUFFICES ASSUME TypeOK, [Next]_vars
             PROVE  TypeOK'
  OBVIOUS
<1>1. CASE ReadPong
  BY <1>1 DEF ReadPong, ages
<1>2. CASE ReadMessage
  BY <1>2 DEF ReadMessage, ages
<1>3. CASE Handled
  BY <1>3 DEF Handled, ages
<1>4. CASE ReadTimeout \/ PingTimeout \/ WriteTimeout
  BY <1>4 DEF ReadTimeout, PingTimeout, WriteTimeout, Close, ages
<1>5. CASE TickerFires
  BY <1>5 DEF TickerFires, ages
<1>6. CASE WritePing
  BY <1>6 DEF WritePing, ages
<1>7. CASE BeginWrite
  BY <1>7 DEF BeginWrite, ages
<1>8. CASE EndWrite
  BY <1>8 DEF EndWrite, ages
<1>9. CASE Pong
  BY <1>9 DEF Pong, ages
<1>10. CASE FallSilent
  BY <1>10 DEF FallSilent, ages
<1>11. CASE Tick
  BY <1>11 DEF Tick, Urgent, Older
<1>12. CASE UNCHANGED vars
  BY <1>12 DEF vars, ages
<1> QED
  BY <1>1, <1>2, <1>3, <1>4, <1>5, <1>6, <1>7, <1>8, <1>9, <1>10, <1>11, <1>12 DEF Next

\* While the peer is alive no timer that would close the connection is due.
LEMMA NoTimerDue ==
    ASSUME Paced, RoomForPong, peer = "alive"
    PROVE  ~ReadTimeout /\ ~PingTimeout /\ ~WriteTimeout
BY DurationAssumption DEF Paced, TypeOK, WritesPaced, ReadsPaced, RoomForPong,
   ReadTimeout, PingTimeout, WriteTimeout

\* Every step keeps the pace of the frames and the pings, and of the reads, and closes
\* the connection of a silent peer only.
LEMMA PacedStep ==
    ASSUME RoomForPong, Paced, [Next]_vars
    PROVE  Paced'
<1> USE DurationAssumption
<1>t. TypeOK'
  BY TypeStep DEF Paced
<1>p. CASE peer' # "alive"
  BY <1>t, <1>p DEF Paced, WritesPaced, ReadsPaced, LivePeerStays, TypeOK
<1>a. CASE peer' = "alive"
  <2>0. peer = "alive"
    BY <1>a DEF Paced, TypeOK, Next, vars, ReadPong, ReadMessage, Handled, ReadTimeout,
       TickerFires, WritePing, PingTimeout, BeginWrite, EndWrite, WriteTimeout, Pong,
       FallSilent, Tick, Close
  <2> USE <2>0 DEF Paced, TypeOK, Activities, WritesPaced, ReadsPaced, LivePeerStays
  <2>1. CASE ReadPong
    BY <1>t, <2>1 DEF ReadPong, ages
  <2>2. CASE ReadMessage
    BY <1>t, <2>2 DEF ReadMessage, ages
  <2>3. CASE Handled
    BY <1>t, <2>3 DEF Handled, ages
  <2>4. CASE ReadTimeout \/ PingTimeout \/ WriteTimeout
    BY <2>4, NoTimerDue
  <2>5. CASE TickerFires
    BY <1>t, <2>5 DEF TickerFires, Open, ages
  <2>6. CASE WritePing
    BY <1>t, <2>6 DEF WritePing, Open, ages
  <2>7. CASE BeginWrite
    BY <1>t, <2>7 DEF BeginWrite, Open, ages
  <2>8. CASE EndWrite
    BY <1>t, <2>8 DEF EndWrite, Open, ages
  <2>9. CASE Pong
    BY <1>t, <2>9 DEF Pong, ages
  <2>10. CASE FallSilent
    BY <1>a, <2>10 DEF FallSilent
  <2>11. CASE Tick
    BY <1>t, <2>11 DEF Tick, Urgent, Older, Open
  <2>12. CASE UNCHANGED vars
    BY <1>t, <2>12 DEF vars, ages
  <2> QED
    BY <2>1, <2>2, <2>3, <2>4, <2>5, <2>6, <2>7, <2>8, <2>9, <2>10, <2>11, <2>12 DEF Next
<1> QED
  BY <1>p, <1>a

\* A peer that is alive never loses its connection to a timer (websocket.go:42 and
\* connection.go:45), as long as a frame and a pong take it less than the time between
\* PingPeriod and PongWait.
THEOREM LiveStays ==
    ASSUME RoomForPong
    PROVE  Spec => []LivePeerStays
<1>1. Init => Paced
  BY DurationAssumption
     DEF Init, Paced, TypeOK, Activities, WritesPaced, ReadsPaced, LivePeerStays
<1>2. Paced /\ [Next]_vars => Paced'
  BY PacedStep
<1>3. Paced => LivePeerStays
  BY DEF Paced
<1> QED
  BY <1>1, <1>2, <1>3, PTL DEF Spec

\* The timers keep their types.
THEOREM TimersTypeCorrect == Spec => []TypeOK
<1>1. Init => TypeOK
  BY DurationAssumption DEF Init, TypeOK, Activities
<1> QED
  BY <1>1, TypeStep, PTL DEF Spec
===============================================================================
