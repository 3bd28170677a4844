------------------------------- MODULE MCCluster -------------------------------
EXTENDS Cluster

CONSTANTS a, b, s1, s2, s3, m1, m2

\* s1 and s3 on a, s2 on b.
HomeOf == [s \in Sockets |-> IF s = s2 THEN b ELSE a]

\* All on b.
HomeOnB == [s \in Sockets |-> b]

\* The first event names s1 as its sender, the second nobody.
SenderOf == [m \in Messages |-> IF m = m1 THEN s1 ELSE NoSocket]

\* The first event, of a client on a or a POST to either instance; the second on a.
AtAOrB == [m \in Messages |-> IF m = m1 THEN {a, b} ELSE {a}]

\* Both on a.
AtA == [m \in Messages |-> {a}]

===============================================================================
