------------------------------- MODULE MCLink -------------------------------
EXTENDS Link

CONSTANTS a, b, s1, s2, s3, q1, b1, b2

MCAt == [p \in Search \cup Dht \cup Beat |-> IF p \in {s1, s2, q1, b2} THEN a ELSE b]

\* Two searches of one node; a search of each node; and DHT requests beside a
\* search, or beside heartbeats.
MCScenarios == {{s1, s2}, {s1, s3}, {s1, q1}, {q1, b2, b1}}
=============================================================================
