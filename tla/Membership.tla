------------------------------ MODULE Membership ------------------------------
(***************************************************************************)
(* What one Ipe instance promises about the sockets a channel id reaches,  *)
(* whatever the interleaving of its goroutines.                            *)
(*                                                                         *)
(* "members[n]" is the set of sockets that an event published to the id n  *)
(* is delivered to.  A socket joins and leaves by itself; the set of an id *)
(* may also be lost as a whole (Drop), because the code may replace or     *)
(* delete the channel object it is kept in, but it never comes back; and a *)
(* socket is gone only when no id reaches it.                              *)
(*                                                                         *)
(* Application.tla is shown to implement this specification.               *)
(***************************************************************************)
CONSTANTS Sockets, ChannelIDs

VARIABLES
    open,       \* the sockets that are connected
    members     \* members[n]: the sockets an event on the id n reaches

vars == <<open, members>>

Init ==
    /\ open = {}
    /\ members = [n \in ChannelIDs |-> {}]

Open(s) ==
    /\ s \notin open
    /\ \A n \in ChannelIDs : s \notin members[n]
    /\ open' = open \cup {s}
    /\ UNCHANGED members

Join(s, n) ==
    /\ s \in open
    /\ members' = [members EXCEPT ![n] = @ \cup {s}]
    /\ UNCHANGED open

Leave(s, n) ==
    /\ s \in open
    /\ members' = [members EXCEPT ![n] = @ \ {s}]
    /\ UNCHANGED open

Drop(n) ==
    /\ members' = [members EXCEPT ![n] = {}]
    /\ UNCHANGED open

Close(s) ==
    /\ s \in open
    /\ \A n \in ChannelIDs : s \notin members[n]
    /\ open' = open \ {s}
    /\ UNCHANGED members

Next ==
    \/ \E s \in Sockets : Open(s) \/ Close(s)
    \/ \E s \in Sockets, n \in ChannelIDs : Join(s, n) \/ Leave(s, n)
    \/ \E n \in ChannelIDs : Drop(n)

Spec == Init /\ [][Next]_vars
===============================================================================
