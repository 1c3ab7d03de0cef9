------------------------------ MODULE MCWireLoop ------------------------------
\* Two programs on a pool of two buffers: each of the four programs is
\* there, sharing the pool with one that behaves differently.
EXTENDS WireLoop

CONSTANTS h1, h2

Mix(p, q) == [h \in Hosts |-> IF h = h1 THEN p ELSE q]
Mixes == {Mix("reject", "flowstats"), Mix("forward", "drop")}

MCInit == Init /\ prog \in Mixes
MCSpec == MCInit /\ [][Next]_vars /\ Fairness
===============================================================================
