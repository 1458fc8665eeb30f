------------------------------ MODULE MCSearch ------------------------------
EXTENDS Search

CONSTANTS e1, e2, e3, plain, term, name, tag

\* The query is the name of one content and a tag of another; it is a word of
\* the summary of a third and does not occur in the last.
MCBm25 == [c \in Content |-> CASE c = name -> 40 [] c = tag -> 30 [] c = term -> 10
                               [] c = plain -> 0]
MCCosine == [c \in Content |-> CASE c = name -> 9 [] c = tag -> 8 [] c = term -> 5
                                 [] c = plain -> -2]
MCTypeOf == [c \in Content |-> IF c = tag THEN "service" ELSE "agent"]
MCRemote == [e \in Entity |-> IF e = e3 THEN term ELSE None]

\* The first two pages of a query that peers are asked as well, and the local
\* entities of a type.
Ask(query, type, offset, federated) ==
    [query |-> query, type |-> type, offset |-> offset, federated |-> federated]
MCRequests == {Ask(TRUE, None, n, TRUE) : n \in {0, PageSize}}
              \cup {Ask(FALSE, "agent", 0, FALSE)}

Here(c1, c2) == [e \in Entity |->
    LET c == CASE e = e1 -> c1 [] e = e2 -> c2 [] e = e3 -> None
    IN  IF c = None THEN None ELSE [content |-> c, active |-> TRUE]]
Heard(c2, c3) == [e \in Entity |->
    LET c == CASE e = e1 -> None [] e = e2 -> c2 [] e = e3 -> c3
    IN  IF c = None THEN None
        ELSE [content |-> c, active |-> TRUE, tombstoned |-> FALSE]]

\* Two local entities; and an entity in both tables, with an embedder that fails.
MCInit ==
    /\ Init
    /\ <<embedder, rows, gossip>> \in
         {<<"hash", Here(name, tag), Heard(None, None)>>,
          <<"http", Here(None, tag), Heard(term, None)>>}

MCSpec == MCInit /\ [][Next]_vars
=============================================================================
