--------------------------------- MODULE Room ---------------------------------
(***************************************************************************)
(* What the rest of the server takes a channel to be: a set of members     *)
(* that changes at single moments, and frames that each go to the members  *)
(* of one moment.                                                          *)
(*                                                                         *)
(* A frame takes its time, and other callers may send theirs meanwhile,    *)
(* but nobody enters, is named or leaves while one is under way.           *)
(* Channel.tla is shown to implement this specification.  Application,     *)
(* Cluster and Api have sockets enter and leave in one step, and the last  *)
(* two send a frame in one.                                                *)
(***************************************************************************)
CONSTANTS
    Sockets,
    Callers,        \* goroutines that enter, leave and send
    NoSocket        \* whom a frame leaves out that leaves out nobody

VARIABLES
    members,        \* the sockets in the channel
    named,          \* those of them whose user id is known
    frames          \* frames under way: the caller and the sockets it reaches

vars == <<members, named, frames>>

Init ==
    /\ members = {}
    /\ named = {}
    /\ frames = {}

\* A socket that enters again starts without a name.
Enter(s) ==
    /\ frames = {}
    /\ members' = members \cup {s}
    /\ named' = named \ {s}
    /\ UNCHANGED frames

Name(s) ==
    /\ frames = {}
    /\ s \in members
    /\ named' = named \cup {s}
    /\ UNCHANGED <<members, frames>>

Leave(s) ==
    /\ frames = {}
    /\ s \in members
    /\ members' = members \ {s}
    /\ named' = named \ {s}
    /\ UNCHANGED frames

Send(t, ignore) ==
    /\ \A f \in frames : f[1] # t
    /\ frames' = frames \cup {<<t, members \ {ignore}>>}
    /\ UNCHANGED <<members, named>>

Sent(t) ==
    /\ \E f \in frames : f[1] = t
    /\ frames' = {f \in frames : f[1] # t}
    /\ UNCHANGED <<members, named>>

Next ==
    \/ \E s \in Sockets : Enter(s) \/ Name(s) \/ Leave(s)
    \/ \E t \in Callers, ignore \in Sockets \cup {NoSocket} : Send(t, ignore)
    \/ \E t \in Callers : Sent(t)

Spec == Init /\ [][Next]_vars
===============================================================================
