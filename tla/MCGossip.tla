------------------------------ MODULE MCGossip ------------------------------
EXTENDS Gossip

CONSTANTS a, b, c, e1

\* a - b - c: two hops from one end to the other.
Line == [r \in {a, b, c} |-> IF r = b THEN {a, c} ELSE {b}]
\* Everyone is connected to everyone.
Triangle == [r \in {a, b, c} |-> {a, b, c} \ {r}]

HomeA == [e \in {e1} |-> {a}]
HomesAC == [e \in {e1} |-> {a, c}]
=============================================================================
