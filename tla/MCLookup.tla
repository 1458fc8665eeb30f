------------------------------ MODULE MCLookup ------------------------------
(* Lookups among five nodes; the node that looks is the third from the key. *)
EXTENDS Lookup

\* Self knows nobody, or nodes of the far side, or nodes on both sides of it;
\* the others know few nodes each, near the key or far from it.
SmallTopologies ==
    { [n \in Node |-> CASE n = 1 -> t1 [] n = 2 -> t2 [] n = 3 -> t3
                        [] n = 4 -> t4 [] n = 5 -> t5] :
        t1 \in {{}, {5}}, t2 \in {{1}}, t3 \in {{}, {5}, {4, 5}, {2, 4}},
        t4 \in {{}, {1, 2}}, t5 \in {{1, 2}, {1, 2, 4}} }

\* Nobody holds the record, Self does, the closest node, one far away, or two.
FewHolders == {{}, {3}, {1}, {4}, {2, 5}}
=============================================================================
