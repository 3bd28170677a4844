------------------------------- MODULE MCChannel -------------------------------
EXTENDS Channel, TLC

CONSTANTS s1, s2, s3, p1, alice, bob, carol

Symmetry == Permutations(Publishers)

\* Every socket a user of its own.
OwnUsers == [s \in Sockets |-> CASE s = s1 -> alice [] s = s2 -> bob [] OTHER -> carol]
===============================================================================
