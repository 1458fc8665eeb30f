------------------------------ MODULE Routing ------------------------------
(***************************************************************************)
(* One k-bucket of a DHT node's routing table (internal/dht/routing.go)    *)
(* and the handlers that fill it (DHT.AddNode, called by HandleMessage).   *)
(*                                                                         *)
(* Every message of a contact is handled in the read loop of a link to it, *)
(* one at a time; the handlers of different links overlap, also those of   *)
(* two links to the same contact (two registries that dial each other have *)
(* two, see Transport), and the bucket is locked in each of their steps,   *)
(* not between them. A contact always falls in the same bucket, so one     *)
(* bucket is enough.                                                       *)
(*                                                                         *)
(* Only a ping carries its sender's address: any other message writes an   *)
(* empty one over it. A ping to an empty address fails.                    *)
(***************************************************************************)
EXTENDS Naturals, Sequences, SequencesExt

CONSTANTS
    Contact,  \* the nodes whose distance falls into the bucket
    Loop,     \* the read loops of the links to them
    PeerOf,   \* the contact at the other end of a read loop's link
    K,        \* the size of the bucket
    Nobody

ASSUME RoutingAssumption ==
    K \in Nat \ {0} /\ Nobody \notin Contact /\ PeerOf \in [Loop -> Contact]

\* A NodeContact: its address is known or empty. LastSeen is left out: nothing
\* reads it.
Entry == [id : Contact, addr : BOOLEAN]
NoEntry == [id |-> Nobody, addr |-> FALSE]

VARIABLES
    bucket,   \* KBucket.entries, least recently seen first
    pinging,  \* pinging[l]: the eviction candidate that l's handler pings
    sender    \* sender[l]: the contact as l's handler read it from the message

routingVars == <<bucket, pinging, sender>>

RoutingInit ==
    /\ bucket = << >>
    /\ pinging = [l \in Loop |-> NoEntry]
    /\ sender = [l \in Loop |-> NoEntry]

Ids(b) == {b[i].id : i \in DOMAIN b}
IsFull(b) == Len(b) >= K

\* The first entry of the contact goes, if there is one, and e is the last.
MovedToTail(b, e) ==
    LET i == CHOOSE i \in DOMAIN b :
               b[i].id = e.id /\ \A j \in 1..(i - 1) : b[j].id # e.id
    IN  Append(RemoveAt(b, i), e)

AddIfRoom(b, e) == IF IsFull(b) THEN b ELSE Append(b, e)
AddOrUpdate(b, e) ==
    IF e.id \in Ids(b) THEN MovedToTail(b, e)
                       ELSE IF IsFull(b) THEN b ELSE Append(b, e)

\* The newcomer is not looked for among those that stay.
Evict(b, e) == Append(Tail(b), e)

\* HandleMessage of a ping or of another message: the sender is added or moved
\* to the tail. If the bucket is full and the sender new, the head is copied
\* and the handler pings it.
HandleMessage(l, isPing) ==
    LET e == [id |-> PeerOf[l], addr |-> isPing]
    IN  /\ pinging[l] = NoEntry
        /\ bucket' = AddOrUpdate(bucket, e)
        /\ IF IsFull(bucket) /\ e.id \notin Ids(bucket)
             THEN /\ pinging' = [pinging EXCEPT ![l] = Head(bucket)]
                  /\ sender' = [sender EXCEPT ![l] = e]
             ELSE UNCHANGED <<pinging, sender>>

HandlerDone(l) ==
    /\ pinging' = [pinging EXCEPT ![l] = NoEntry]
    /\ sender' = [sender EXCEPT ![l] = NoEntry]

\* The candidate answers: Ping adds it again, with the address it was read with,
\* and what AddNode then returns is not looked at.
PingAnswered(l) ==
    /\ pinging[l] # NoEntry /\ pinging[l].addr
    /\ bucket' = AddOrUpdate(bucket, pinging[l])
    /\ HandlerDone(l)

\* No connection to the address, a failed write or no answer in time: the head
\* of the bucket, whichever contact it now is, makes room for the sender, which
\* another handler may have put in meanwhile.
PingFailed(l) ==
    /\ pinging[l] # NoEntry
    /\ bucket' = Evict(bucket, sender[l])
    /\ HandlerDone(l)

RoutingNext ==
    \E l \in Loop :
        \/ \E isPing \in BOOLEAN : HandleMessage(l, isPing)
        \/ PingAnswered(l)
        \/ PingFailed(l)

RoutingSpec == RoutingInit /\ [][RoutingNext]_routingVars
-----------------------------------------------------------------------------
\* A handler that pings knows whom it would add.
RoutingTypeOK ==
    /\ bucket \in Seq(Entry)
    /\ pinging \in [Loop -> Entry \cup {NoEntry}]
    /\ sender \in [Loop -> Entry \cup {NoEntry}]
    /\ \A l \in Loop : sender[l].id = IF pinging[l] = NoEntry THEN Nobody ELSE PeerOf[l]

\* f gives every place of bucket b a link of the contact in it, no two places the
\* same link, and none whose handler waits for the outcome of ping p.
LinksFor(f, b, p) ==
    /\ f \in [DOMAIN b -> Loop]
    /\ \A i \in DOMAIN b : PeerOf[f[i]] = b[i].id /\ p[f[i]] = NoEntry
    /\ \A i, j \in DOMAIN b : f[i] = f[j] => i = j

\* A contact is looked for when its message comes and put in when the ping has
\* failed, so handlers of two links to it may both put it in. It takes no more
\* places than it has links, though, the ones whose handlers are still waiting
\* counted: a contact with one link is in the bucket once. The bucket never
\* holds more than K, and an eviction always finds it full.
PlacesHaveLinks ==
    /\ Len(bucket) <= K
    /\ \A l \in Loop : pinging[l] # NoEntry => IsFull(bucket)
    /\ \E f \in [DOMAIN bucket -> Loop] : LinksFor(f, bucket, pinging)
=============================================================================
