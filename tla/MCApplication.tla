----------------------------- MODULE MCApplication -----------------------------
EXTENDS Application, TLC

CONSTANTS s1, s2, p1, room, hall

Symmetry == Permutations(Sockets)
===============================================================================
