----------------------------- MODULE MCLiveness -----------------------------
EXTENDS Liveness

CONSTANTS a, b, e1

\* A registry without peers, and two that are connected.
Solo == [r \in {a} |-> {}]
Pair == [r \in {a, b} |-> {a, b} \ {r}]

HomeA == [e \in {e1} |-> {a}]
=============================================================================
