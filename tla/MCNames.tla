------------------------------ MODULE MCNames ------------------------------
EXTENDS Names, TLC

CONSTANTS d1, h1, e1, v1

\* Developer d1 is registered with handle h1, entity e1 under d1 with a name
\* and version v1, and the peer has heard of it all.
SettledInit ==
    /\ \E t \in Text, l \in Link :
        /\ developers = [d \in Dev |->
             IF d = d1 THEN [name |-> t, links |-> l, handle |-> h1,
                             verified |-> FALSE] ELSE None]
        /\ gdevs = [d \in Dev |->
             IF d = d1 THEN [name |-> t, links |-> l, handle |-> None,
                             tombstoned |-> FALSE] ELSE None]
    /\ entities = [e \in Entity |-> IF e = e1 THEN d1 ELSE None]
    /\ names = [f \in FQAN |-> [entity |-> e1, version |-> v1]]
    /\ versions = [f \in FQAN |-> [v \in Version |-> IF v = v1 THEN e1 ELSE None]]
    /\ job = [c \in Client |-> NoJob]
    /\ wire = << >>
    /\ gnames = [f \in FQAN |-> [entity |-> e1, version |-> v1, tombstoned |-> FALSE]]
    /\ seen = {}
    /\ second = 0 /\ requests = 0 /\ faults = 0
    /\ disturbed = {} /\ torn = {} /\ pulled = {}

Symmetry == Permutations(Client) \cup Permutations(Text)

SettledSpec == SettledInit /\ [][Next]_vars
=============================================================================
