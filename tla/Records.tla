------------------------------ MODULE Records ------------------------------
(***************************************************************************)
(* The copies of one DHT record at the nodes that hold it, in memory       *)
(* (internal/dht/dht.go): Store, the STORE messages, the lookups that keep *)
(* a copy of the value they find, the hourly republish and the sweep that  *)
(* drops the copies older than ExpireAfter. There is no message that       *)
(* deletes a record. Which nodes a lookup finds closest, and which of them *)
(* answers first, is Lookup's subject: here it is any.                     *)
(***************************************************************************)
EXTENDS Naturals

CONSTANTS
    Holder,       \* the DHT nodes
    ExpireAfter   \* Config.ExpireAfter, in ticks

ASSUME RecordsAssumption == ExpireAfter \in Nat

Gone == ExpireAfter + 2    \* stands for the age of a copy that is not there
Age == 0..(ExpireAfter + 1)  \* the last age stands for all that are older

VARIABLES
    age,     \* age[n]: the ticks since StoredAt of n's copy, or Gone
    stores,  \* the STORE messages on their way, by receiver
    stored,  \* the record has been stored by its owner
    asked,   \* the nodes with a lookup of the record under way
    found    \* the nodes to which a peer has answered the value

recordVars == <<age, stores, stored, asked, found>>

RecordsInit ==
    /\ age = [n \in Holder |-> Gone]
    /\ stores = {} /\ stored = FALSE /\ asked = {} /\ found = {}

\* DHT.Store keeps a copy of its own and sends the record to the closest nodes;
\* whether they have it is not looked at. The owner stores the record once.
Store(n) ==
    /\ ~stored
    /\ \E closest \in SUBSET (Holder \ {n}) : stores' = closest
    /\ age' = [age EXCEPT ![n] = 0]
    /\ stored' = TRUE
    /\ UNCHANGED <<asked, found>>

\* HandleMessage of a STORE (storeLocal): the copy starts to age anew.
HandleStore(n) ==
    /\ n \in stores
    /\ stores' = stores \ {n}
    /\ age' = [age EXCEPT ![n] = 0]
    /\ UNCHANGED <<stored, asked, found>>

LoseStore(n) ==
    /\ n \in stores
    /\ stores' = stores \ {n}
    /\ UNCHANGED <<age, stored, asked, found>>

\* One key of republish: the copy goes to the nodes that a lookup finds.
RepublishRenews(n) ==
    /\ age[n] # Gone
    /\ \E closest \in SUBSET (Holder \ {n}) : stores' = stores \cup closest
    /\ age' = [age EXCEPT ![n] = 0]
    /\ UNCHANGED <<stored, asked, found>>
Republish(n) ==
    /\ age[n] # Gone
    /\ \E closest \in SUBSET (Holder \ {n}) : stores' = stores \cup closest
    /\ UNCHANGED <<age, stored, asked, found>>

\* FindValue looks at the node's own copy, of whatever age, and asks the network
\* only when there is none.
FindValue(n) ==
    /\ age[n] = Gone
    /\ asked' = asked \cup {n}
    /\ UNCHANGED <<age, stores, stored, found>>

\* HandleMessage of a FIND_VALUE at a node that holds a copy: the value goes back,
\* without its age.
AnswerFind(n) ==
    /\ n \in asked
    /\ \E m \in Holder \ {n} : age[m] # Gone
    /\ found' = found \cup {n}
    /\ UNCHANGED <<age, stores, stored, asked>>

\* iterativeFindValue takes the answer: storeLocal makes it a new copy. Another
\* lookup of the same node may still be under way.
CacheFound(n) ==
    /\ n \in found
    /\ found' = found \ {n}
    /\ asked' \in {asked, asked \ {n}}
    /\ age' = [age EXCEPT ![n] = 0]
    /\ UNCHANGED <<stores, stored>>

\* The lookups of a node end without the value: nobody had it, or the time was over with
\* the answer on its way.
FindEnds(n) ==
    /\ n \in asked
    /\ asked' = asked \ {n}
    /\ found' = found \ {n}
    /\ UNCHANGED <<age, stores, stored>>

Expire(n) ==
    /\ age[n] = ExpireAfter + 1
    /\ age' = [age EXCEPT ![n] = Gone]
    /\ UNCHANGED <<stores, stored, asked, found>>

Restart(n) ==
    /\ age' = [age EXCEPT ![n] = Gone]
    /\ asked' = asked \ {n}
    /\ found' = found \ {n}
    /\ UNCHANGED <<stores, stored>>

\* Time passes everywhere.
Tick ==
    /\ age' = [n \in Holder |-> IF age[n] \in 0..ExpireAfter THEN age[n] + 1
                                                             ELSE age[n]]
    /\ UNCHANGED <<stores, stored, asked, found>>

\* A copy is written that its node did not hold, or holds anew.
CopyComes == \E n \in Holder : HandleStore(n) \/ CacheFound(n)

RecordsNext ==
    \/ \E n \in Holder :
          \/ Store(n) \/ LoseStore(n) \/ Republish(n)
          \/ FindValue(n) \/ AnswerFind(n) \/ FindEnds(n)
          \/ Expire(n) \/ Restart(n)
    \/ CopyComes
    \/ Tick

\* The clock runs, and the sweep of every node comes round.
RecordsFairness ==
    /\ WF_recordVars(Tick)
    /\ \A n \in Holder : WF_recordVars(Expire(n))
-----------------------------------------------------------------------------
RecordsTypeOK ==
    /\ age \in [Holder -> Age \cup {Gone}]
    /\ stores \in SUBSET Holder
    /\ stored \in BOOLEAN
    /\ found \subseteq asked /\ asked \subseteq Holder

\* Copies may keep each other alive for ever, since republished STOREs and the
\* answers to lookups start a new StoredAt; but once no STORE arrives and no lookup
\* brings the value home, the nodes' own republishing does not keep the record: it
\* expires everywhere.
RecordsLapse ==
    []<><<CopyComes>>_recordVars \/ <>[](\A n \in Holder : age[n] = Gone)
=============================================================================
