------------------------------- MODULE Lookup -------------------------------
(***************************************************************************)
(* One operation of a DHT node (internal/dht): Store, FindNode or          *)
(* FindValue for one key, with the iterative lookup it runs, the query     *)
(* goroutines of each round, the channel their results come back on, and   *)
(* the handlers of the nodes that are asked.                               *)
(*                                                                         *)
(* A lookup only ever compares nodes by their XOR distance to its key, and *)
(* those distances are all different, so a node is named by its distance   *)
(* to the key: Distance(a, key) < Distance(b, key) is a < b.               *)
(***************************************************************************)
EXTENDS Naturals, FiniteSets, SequencesExt, FiniteSetsExt

CONSTANTS N,          \* how many nodes there are
          Self,       \* the node that runs the operation
          K,          \* config.K: contacts kept and nodes stored at
          Alpha,      \* config.Alpha: seeds, and queries sent in a round
          Topologies, \* bound: the routing tables the nodes may start with
          Holders     \* bound: the nodes that may hold the record at the start

Node == 1 .. N

ASSUME LookupAssumption ==
    /\ N \in Nat /\ Self \in Node
    /\ K \in Nat \ {0} /\ Alpha \in Nat \ {0}
    /\ \A t \in Topologies :
          t \in [Node -> SUBSET Node] /\ \A n \in Node : n \notin t[n]
    /\ Holders \subseteq SUBSET Node

VARIABLES
    op,         \* the operation asked for
    phase,      \* where its goroutine is
    table,      \* table[n]: the contacts of n's routing table
    store,      \* the nodes whose local store holds the record
    result,     \* result (iterativeFindNode), candidates (iterativeFindValue)
    queried,    \* the nodes marked queried
    toQuery,    \* the round's toQuery
    asking,     \* the round's goroutines still running, by index in toQuery
    chan,       \* ch: results sent and not yet collected
    collected,  \* results collected in the round
    newNodes,   \* the round's newNodes
    answer,     \* the contacts iterativeFindNode returned
    storing,    \* contacts whose STORE goroutine still runs
    outcome,    \* how the operation ended: "returned", "found", "missing", "timeout"
    learned,    \* history: contacts the lookup has been given
    failed      \* history: nodes whose query ended in an error

lookup == <<result, queried, toQuery, asking, chan, collected, newNodes, learned>>
vars == <<op, phase, table, store, lookup, answer, storing, outcome, failed>>

-----------------------------------------------------------------------------

Nearer(a, b) == a < b

FirstOf(s, n) == SubSeq(s, 1, IF Len(s) < n THEN Len(s) ELSE n)

\* sort.Slice by distance, cut at count: the i-th place has the contact with
\* fewer than i nearer ones and at least i no farther ones. (TLAPS knows nothing
\* of SortSeq and SelectSeq, so that the two are written out.)
Closest(s, count) ==
    [i \in 1 .. IF Len(s) < count THEN Len(s) ELSE count |->
        CHOOSE n \in Range(s) :
            /\ Cardinality({k \in DOMAIN s : Nearer(s[k], n)}) < i
            /\ i <= Cardinality({k \in DOMAIN s : ~Nearer(n, s[k])})]

\* The elements of a sequence that are not in a set, in their order.
Without(s, out) ==
    LET at == Closest(SetToSeq({k \in DOMAIN s : s[k] \notin out}), Len(s))
    IN  [i \in DOMAIN at |-> s[at[i]]]

\* RoutingTable.FindClosest
FindClosest(contacts, count) ==
    Closest(SetToSeq(contacts), count)

\* What DHT.AddNode may make of a table when the sender of a message is
\* added: inserted or moved to the tail, turned away by an eviction candidate
\* that answers its ping, or put in the place of one that does not.
AddNode(contacts, sender) ==
    {contacts, contacts \cup {sender}}
        \cup {(contacts \ {c}) \cup {sender} : c \in contacts \ {sender}}

\* The result a query goroutine sends: value set when the node held the record.
Reply == [value : BOOLEAN, nodes : Seq(Node)]

NoReply == [value |-> FALSE, nodes |-> <<>>]

\* HandleMessage at n of FIND_NODE, or of FIND_VALUE when value is asked,
\* once its routing table has become contacts.
HandleMessage(n, contacts, value) ==
    IF value /\ n \in store
    THEN [value |-> TRUE, nodes |-> <<>>]
    ELSE [value |-> FALSE, nodes |-> FindClosest(contacts, K)]

\* Mutant: a channel that holds one result.
ChanCapOne == 1

\* make(chan queryResult, len(toQuery))
ChanCap == Len(toQuery)

-----------------------------------------------------------------------------

Init ==
    /\ op \in {"store", "findNode", "findValue"}
    /\ phase = "start"
    /\ table \in Topologies
    /\ store \in Holders
    /\ op # "findValue" => store = {}
    /\ result = <<>> /\ queried = {} /\ toQuery = <<>>
    /\ asking = {} /\ chan = <<>> /\ collected = 0 /\ newNodes = FALSE
    /\ answer = <<>> /\ storing = {}
    /\ outcome = "running" /\ learned = {} /\ failed = {}

Ends(how) ==
    /\ phase' = "done"
    /\ outcome' = how

\* Store keeps the record locally and looks for nodes; FindValue answers from
\* the local store; a lookup with no contact to start from returns at once.
Start ==
    /\ phase = "start"
    /\ store' = IF op = "store" THEN store \cup {Self} ELSE store
    /\ \/ /\ op = "findValue" /\ Self \in store
          /\ Ends("found")
          /\ UNCHANGED <<result, queried, learned>>
       \/ /\ ~(op = "findValue" /\ Self \in store)
          /\ table[Self] = {}
          /\ Ends(IF op = "findValue" THEN "missing" ELSE "returned")
          /\ UNCHANGED <<result, queried, learned>>
       \/ /\ ~(op = "findValue" /\ Self \in store)
          /\ table[Self] # {}
          /\ result' = FindClosest(table[Self], Alpha)
          /\ queried' = {Self}
          /\ learned' = Range(result')
          /\ phase' = "pick"
          /\ UNCHANGED outcome
    /\ UNCHANGED <<op, table, toQuery, asking, chan, collected, newNodes,
                   answer, storing, failed>>

\* done: deduplicate, sort, keep K. The caller of FindNode has its answer;
\* Store goes on to send a STORE to each contact, and has none to wait for
\* when there is none.
Finish(contacts) ==
    LET found == FindClosest(Range(contacts), K)
    IN  /\ answer' = found
        /\ storing' = IF op = "store" THEN Range(found) ELSE {}
        /\ phase' = IF op = "store" THEN "storing" ELSE "done"

Unqueried == Without(result, queried)

\* Mutant: the contacts farthest from the key are asked first.
PickFarthest(s) == FirstOf(Reverse(s), Alpha)

\* The round's queries: the first Alpha contacts not yet queried.
PickQueries(s) == FirstOf(s, Alpha)

\* Nothing left to ask.
Exhausted ==
    /\ phase = "pick"
    /\ Unqueried = <<>>
    /\ IF op = "findValue"
       THEN Ends("missing") /\ UNCHANGED <<answer, storing>>
       ELSE Finish(result) /\ outcome' = "returned"
    /\ UNCHANGED <<op, table, store, lookup, failed>>

\* Start the goroutines of a round.
Pick ==
    /\ phase = "pick"
    /\ Unqueried # <<>>
    /\ toQuery' = PickQueries(Unqueried)
    /\ queried' = queried \cup Range(toQuery')
    /\ asking' = 1 .. Len(toQuery')
    /\ chan' = <<>> /\ collected' = 0 /\ newNodes' = FALSE
    /\ phase' = "collect"
    /\ UNCHANGED <<op, table, store, result, answer, storing, outcome, learned, failed>>

\* SendDHT returns to the i-th goroutine of the round with an answer: the node
\* asked has added the sender to its routing table and handled the message.
\* The goroutine runs on after the lookup has returned.
Answered(i) ==
    /\ i \in asking
    /\ Len(chan) < ChanCap
    /\ \E contacts \in AddNode(table[toQuery[i]], Self) :
          /\ table' = [table EXCEPT ![toQuery[i]] = contacts]
          /\ chan' = Append(chan, HandleMessage(toQuery[i], contacts, op = "findValue"))
    /\ asking' = asking \ {i}
    /\ UNCHANGED <<op, phase, store, result, queried, toQuery, collected, newNodes,
                   answer, storing, outcome, learned, failed>>

\* SendDHT returns an error: no connection, a failed write, or no answer in 5 s.
Unanswered(i) ==
    /\ i \in asking
    /\ Len(chan) < ChanCap
    /\ chan' = Append(chan, NoReply)
    /\ asking' = asking \ {i}
    /\ failed' = failed \cup {toQuery[i]}
    /\ UNCHANGED <<op, phase, table, store, result, queried, toQuery, collected,
                   newNodes, answer, storing, outcome, learned>>

\* Mutant: a node does not leave itself out of the contacts it is given.
FreshOrSelf(nodes) == Without(nodes, queried \ {Self})

\* The contacts of a reply worth keeping.
Fresh(nodes) == Without(nodes, queried \cup {Self})

\* case qr := <-ch
Collect ==
    /\ phase = "collect"
    /\ chan # <<>>
    /\ chan' = Tail(chan)
    /\ LET qr == Head(chan)
       IN  \/ /\ qr.value
              /\ store' = store \cup {Self}
              /\ Ends("found")
              /\ UNCHANGED <<result, newNodes, learned, collected>>
           \/ /\ ~qr.value
              /\ result' = result \o Fresh(qr.nodes)
              /\ newNodes' = (newNodes \/ Fresh(qr.nodes) # <<>>)
              /\ learned' = learned \cup (Range(qr.nodes) \ {Self})
              /\ collected' = collected + 1
              /\ UNCHANGED <<store, phase, outcome>>
    /\ UNCHANGED <<op, table, queried, toQuery, asking, answer, storing, failed>>

\* Mutant: the first result ends the round.
RoundOverEarly == collected > 0

\* for range toQuery: one result for each goroutine started.
RoundOver == collected = Len(toQuery)

\* case <-ctx.Done()
LookupTimeout ==
    /\ phase = "collect"
    /\ ~RoundOver
    /\ IF op = "findValue"
       THEN Ends("timeout") /\ UNCHANGED <<answer, storing>>
       ELSE Finish(result) /\ outcome' = "timeout"
    /\ UNCHANGED <<op, table, store, lookup, failed>>

\* Mutant: cut to K before the sort.
KeepFirst(s) == Closest(FirstOf(s, K), K)

\* Sort by distance and keep the K closest.
KeepClosest(s) == Closest(s, K)

\* Every result of the round is in: stop when none brought a new node.
EndRound ==
    /\ phase = "collect"
    /\ RoundOver
    /\ \/ /\ ~newNodes
          /\ IF op = "findValue"
             THEN Ends("missing") /\ UNCHANGED <<answer, storing>>
             ELSE Finish(result) /\ outcome' = "returned"
          /\ UNCHANGED result
       \/ /\ newNodes
          /\ result' = KeepClosest(result)
          /\ phase' = "pick"
          /\ UNCHANGED <<answer, storing, outcome>>
    /\ UNCHANGED <<op, table, store, queried, toQuery, asking, chan, collected,
                   newNodes, learned, failed>>

\* A STORE reaches n, which adds the sender and keeps the record.
StoredAt(n) ==
    /\ n \in storing
    /\ \E contacts \in AddNode(table[n], Self) : table' = [table EXCEPT ![n] = contacts]
    /\ store' = store \cup {n}
    /\ storing' = storing \ {n}
    /\ UNCHANGED <<op, phase, lookup, answer, outcome, failed>>

\* The STORE to n fails; the error is dropped.
StoreFails(n) ==
    /\ n \in storing
    /\ storing' = storing \ {n}
    /\ failed' = failed \cup {n}
    /\ UNCHANGED <<op, phase, table, store, lookup, answer, outcome>>

\* wg.Wait() returns.
StoreReturns ==
    /\ phase = "storing"
    /\ storing = {}
    /\ phase' = "done"
    /\ UNCHANGED <<op, table, store, lookup, answer, storing, outcome, failed>>

Main == Start \/ Exhausted \/ Pick \/ Collect \/ LookupTimeout \/ EndRound \/ StoreReturns

Goroutine(i) == Answered(i) \/ Unanswered(i)

Next ==
    \/ Main
    \/ \E i \in 1 .. Alpha : Goroutine(i)
    \/ \E n \in Node : StoredAt(n) \/ StoreFails(n)

Spec == Init /\ [][Next]_vars

\* The goroutine of the operation runs, and every SendDHT returns: it gives up
\* after 5 seconds.
Fairness ==
    /\ WF_vars(Main)
    /\ \A i \in 1 .. Alpha : WF_vars(Goroutine(i))
    /\ \A n \in Node : WF_vars(StoredAt(n) \/ StoreFails(n))

FairSpec == Spec /\ Fairness

-----------------------------------------------------------------------------

\* Every variable stays in its type; nobody queries itself, and no round asks
\* more nodes than Alpha.
TypeOK ==
    /\ op \in {"store", "findNode", "findValue"}
    /\ phase \in {"start", "pick", "collect", "storing", "done"}
    /\ table \in [Node -> SUBSET Node]
    /\ store \subseteq Node
    /\ result \in Seq(Node \ {Self})
    /\ queried \subseteq Node
    /\ toQuery \in Seq(Node \ {Self}) /\ Len(toQuery) <= Alpha
    /\ asking \subseteq 1 .. Len(toQuery)
    /\ chan \in Seq(Reply)
    /\ collected + Len(chan) + Cardinality(asking) <= Len(toQuery)
    /\ newNodes \in BOOLEAN
    /\ answer \in Seq(Node \ {Self}) /\ Len(answer) <= K
    /\ storing \subseteq Node
    /\ outcome \in {"running", "returned", "found", "missing", "timeout"}
    /\ learned \subseteq Node \ {Self}
    /\ failed \subseteq Node

\* However the lookup of FindNode or Store ends, and in whatever order the
\* goroutines of its rounds answered, no contact it was given is closer to the
\* key than the first one it returns (iterativeFindNode's sorts and cuts).
ClosestKept ==
    (phase \in {"storing", "done"} /\ op # "findValue" /\ learned # {})
        => answer # <<>> /\ answer[1] = Min(learned)

\* A lookup that is not cut short does not stop before it has asked the
\* closest node it knows of (the two break conditions of the round loop).
ClosestAsked ==
    (outcome \in {"returned", "missing"} /\ learned # {}) => Min(learned) \in queried

\* When FindValue reports that there is no record and no time-out cut it
\* short, no node that answered one of its queries held the record.
MissIsHonest ==
    (outcome = "missing") => queried \cap store \subseteq failed

\* The operation returns whatever its queries do, and leaves no goroutine
\* behind it blocked on the channel nobody reads any more.
OperationReturns == <>[](phase = "done" /\ asking = {})
=============================================================================
