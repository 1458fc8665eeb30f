----------------------------- MODULE Transport -----------------------------
(***************************************************************************)
(* The connections of the mesh: internal/mesh/transport.go (handleInbound, *)
(* ConnectTo, registerPeer, unregisterPeer, readLoop, Stop), bootstrap.go  *)
(* and the peer table of peers.go.                                         *)
(*                                                                         *)
(* A link is one TCP connection. Each of its two ends is a goroutine that  *)
(* shakes hands, registers the peer, reads until the link fails and        *)
(* unregisters the peer. The map of connections and the peer table have    *)
(* locks of their own, so an end is a sequence of steps that interleave    *)
(* with those of other links to the same peer: both registries may dial    *)
(* each other, and the bootstrap, reconnect and peer-exchange goroutines   *)
(* of one registry may dial the same peer. ConnectTo does not look at      *)
(* stopCh, so a dial under way when its registry is stopped goes on to     *)
(* register the peer, and a read loop that has begun a read before Stop    *)
(* may still take a heartbeat from it and dial the peers it names.         *)
(*                                                                         *)
(* Which peer has the oldest last_seen is left open: eviction picks any.   *)
(* A registry that dials itself is refused by both ends before they        *)
(* register anything, and is left out.                                     *)
(***************************************************************************)
EXTENDS Naturals, FiniteSets

CONSTANTS
    Registry,  \* the registry nodes
    Dials,     \* the pairs <<r, p>> such that r may dial p
    MaxLinks,  \* bound: the number of TCP connections of a run
    Stoppers,  \* bound: the registries that are stopped in a run
    MaxPeers,  \* mesh.max_peers
    NoLink     \* no entry in the map of connections

Link == 1..MaxLinks

ASSUME TransportAssumption ==
    /\ Dials \subseteq {d \in Registry \X Registry : d[1] # d[2]}
    /\ Stoppers \subseteq Registry
    /\ MaxLinks \in Nat
    /\ MaxPeers \in Nat \ {0}
    /\ NoLink \notin Link

VARIABLES
    ends,     \* ends[k]: <<dialer, listener>> of a dialed link, else <<>>
    open,     \* open[k]: neither end has closed the link and it is not broken
    replied,  \* replied[k]: the listener's HELLO is there to be read
    stage,    \* stage[k][r]: where r's goroutine for link k is
    conns,    \* conns[r][p]: Transport.conns, the link that r uses for p
    peers,    \* peers[r]: PeerManager.peers
    blooms,   \* blooms[r]: PeerManager.blooms
    stopped   \* stopped[r]: stopCh of r is closed

vars == <<ends, open, replied, stage, conns, peers, blooms, stopped>>

Stage == {"none", "dialing", "hello", "checked", "mapped", "reading", "closing",
          "unmapped", "done"}

Shape ==
    /\ ends \in [Link -> (Registry \X Registry) \cup {<< >>}]
    /\ open \in [Link -> BOOLEAN]
    /\ replied \in [Link -> BOOLEAN]
    /\ stage \in [Link -> [Registry -> Stage]]
    /\ conns \in [Registry -> [Registry -> Link \cup {NoLink}]]
    /\ peers \in [Registry -> SUBSET Registry]
    /\ blooms \in [Registry -> SUBSET Registry]
    /\ stopped \in [Registry -> BOOLEAN]

\* Every variable stays in its type: a goroutine is at one of the steps of
\* handleInbound or ConnectTo, the tables hold registries and links, and a link
\* is open only while both its goroutines hold it: neither has left it behind,
\* on whichever of its ways out, without closing it.
TypeOK ==
    /\ Shape
    /\ \A k \in Link, r \in Registry :
          stage[k][r] \in {"dialing", "closing", "unmapped", "done"} => ~open[k]

Init ==
    /\ ends = [k \in Link |-> << >>]
    /\ open = [k \in Link |-> FALSE]
    /\ replied = [k \in Link |-> FALSE]
    /\ stage = [k \in Link |-> [r \in Registry |-> "none"]]
    /\ conns = [r \in Registry |-> [p \in Registry |-> NoLink]]
    /\ peers = [r \in Registry |-> {}]
    /\ blooms = [r \in Registry |-> {}]
    /\ stopped = [r \in Registry |-> FALSE]

\* r is one end of link k and p the other.
Joins(k, r, p) == ends[k] \in {<<r, p>>, <<p, r>>} /\ r # p

-----------------------------------------------------------------------------
(***************************************************************************)
(* The handshake.                                                          *)
(***************************************************************************)

\* ConnectTo is called: by connectWithBackoff, which has seen stopCh open, by
\* ReconnectLoop at a tick, or by handleHeartbeat for a peer that a heartbeat
\* names. The last does not ask for stopCh, so a read loop may do it after Stop,
\* with the message of its last read. Links are numbered as they come.
BeginDial(r, p, k) ==
    /\ <<r, p>> \in Dials
    /\ ~stopped[r] \/ \E j \in Link : stage[j][r] = "reading"
    /\ ends[k] = << >>
    /\ \A j \in 1..(k - 1) : ends[j] # << >>
    /\ ends' = [ends EXCEPT ![k] = <<r, p>>]
    /\ stage' = [stage EXCEPT ![k][r] = "dialing"]
    /\ UNCHANGED <<open, replied, conns, peers, blooms, stopped>>

\* ConnectTo has its connection and sends HELLO, also when r was stopped
\* meanwhile; the listener accepts.
Dial(r, p, k) ==
    /\ ends[k] = <<r, p>> /\ r # p
    /\ stage[k][r] = "dialing" /\ stage[k][p] = "none" /\ ~stopped[p]
    /\ open' = [open EXCEPT ![k] = TRUE]
    /\ stage' = [stage EXCEPT ![k][r] = "hello", ![k][p] = "hello"]
    /\ UNCHANGED <<ends, replied, conns, peers, blooms, stopped>>

\* Nobody listens there, or the dial takes longer than 10 seconds.
DialFails(r, p, k) ==
    /\ Joins(k, r, p)
    /\ stage[k][r] = "dialing"
    /\ stage' = [stage EXCEPT ![k][r] = "done"]
    /\ UNCHANGED <<ends, open, replied, conns, peers, blooms, stopped>>

\* handleInbound reads HELLO. If the peer has a connection already, it
\* replies all the same and closes. HELLO can be read from a link that the
\* dialer has given up; a reply to it is lost.
AcceptHello(r, p, k) ==
    /\ ends[k] = <<p, r>>
    /\ stage[k][r] = "hello"
    /\ replied' = [replied EXCEPT ![k] = open[k]]
    /\ IF conns[r][p] # NoLink
       THEN /\ stage' = [stage EXCEPT ![k][r] = "done"]
            /\ open' = [open EXCEPT ![k] = FALSE]
       ELSE /\ stage' = [stage EXCEPT ![k][r] = "checked"]
            /\ UNCHANGED open
    /\ UNCHANGED <<ends, conns, peers, blooms, stopped>>

\* ConnectTo reads the reply, even when the listener has closed since.
ReadReply(r, p, k) ==
    /\ ends[k] = <<r, p>>
    /\ stage[k][r] = "hello"
    /\ replied[k]
    /\ IF conns[r][p] # NoLink
       THEN /\ stage' = [stage EXCEPT ![k][r] = "done"]
            /\ open' = [open EXCEPT ![k] = FALSE]
       ELSE /\ stage' = [stage EXCEPT ![k][r] = "checked"]
            /\ UNCHANGED open
    /\ UNCHANGED <<ends, replied, conns, peers, blooms, stopped>>

\* Mutant: an error path of ConnectTo returns without conn.Close.
HandshakeLeaks(r, p, k) ==
    /\ Joins(k, r, p)
    /\ stage[k][r] = "hello"
    /\ stage' = [stage EXCEPT ![k][r] = "done"]
    /\ UNCHANGED <<ends, open, replied, conns, peers, blooms, stopped>>

\* A handshake message does not come in time, or cannot be sent.
HandshakeFails(r, p, k) ==
    /\ Joins(k, r, p)
    /\ stage[k][r] = "hello"
    /\ stage' = [stage EXCEPT ![k][r] = "done"]
    /\ open' = [open EXCEPT ![k] = FALSE]
    /\ UNCHANGED <<ends, replied, conns, peers, blooms, stopped>>

-----------------------------------------------------------------------------
(***************************************************************************)
(* Registering, reading and unregistering a peer.                          *)
(***************************************************************************)

\* registerPeer, first half: the entry of the map is overwritten.
MapPeer(r, p, k) ==
    /\ Joins(k, r, p)
    /\ stage[k][r] = "checked"
    /\ conns' = [conns EXCEPT ![r][p] = k]
    /\ stage' = [stage EXCEPT ![k][r] = "mapped"]
    /\ UNCHANGED <<ends, open, replied, peers, blooms, stopped>>

\* Mutant: the table is full only when it is over its limit.
EvictedOverLimit(table) ==
    IF Cardinality(table) > MaxPeers THEN {{q} : q \in table} ELSE {{}}

\* evictOldest: whom AddPeer removes from a full table first, even when the
\* peer it is about to add is in the table already.
Evicted(table) ==
    IF Cardinality(table) >= MaxPeers THEN {{q} : q \in table} ELSE {{}}

\* Mutant: eviction also drops the connection from the map.
AddPeerUnmapping(r, p, k) ==
    /\ Joins(k, r, p)
    /\ stage[k][r] = "mapped"
    /\ \E gone \in Evicted(peers[r]) :
         /\ peers' = [peers EXCEPT ![r] = (@ \ gone) \cup {p}]
         /\ blooms' = [blooms EXCEPT ![r] = @ \ gone]
         /\ conns' = [conns EXCEPT ![r] =
                        [q \in Registry |-> IF q \in gone THEN NoLink ELSE @[q]]]
    /\ stage' = [stage EXCEPT ![k][r] = IF stopped[r] THEN "closing" ELSE "reading"]
    /\ open' = [open EXCEPT ![k] = @ /\ ~stopped[r]]
    /\ UNCHANGED <<ends, replied, stopped>>

\* registerPeer, second half: PeerManager.AddPeer. An evicted peer keeps its
\* connection. The read loop then begins, and returns before its first read if
\* stopCh is closed.
AddPeer(r, p, k) ==
    /\ Joins(k, r, p)
    /\ stage[k][r] = "mapped"
    /\ \E gone \in Evicted(peers[r]) :
         /\ peers' = [peers EXCEPT ![r] = (@ \ gone) \cup {p}]
         /\ blooms' = [blooms EXCEPT ![r] = @ \ gone]
    /\ stage' = [stage EXCEPT ![k][r] = IF stopped[r] THEN "closing" ELSE "reading"]
    /\ open' = [open EXCEPT ![k] = @ /\ ~stopped[r]]
    /\ UNCHANGED <<ends, replied, conns, stopped>>

\* handleHeartbeat: the bloom filter is stored whether or not the peer is in
\* the table. The sender sends on the link in its map.
Heartbeat(r, p, k) ==
    /\ Joins(k, r, p)
    /\ stage[k][r] = "reading"
    /\ open[k] /\ conns[p][r] = k
    /\ p \notin blooms[r]
    /\ blooms' = [blooms EXCEPT ![r] = @ \cup {p}]
    /\ UNCHANGED <<ends, open, replied, stage, conns, peers, stopped>>

\* Mutant: reads have no deadline and do not look at stopCh.
ReadFailsOnClose(r, p, k) ==
    /\ Joins(k, r, p)
    /\ stage[k][r] = "reading"
    /\ ~open[k]
    /\ stage' = [stage EXCEPT ![k][r] = "closing"]
    /\ UNCHANGED <<ends, open, replied, conns, peers, blooms, stopped>>

\* readLoop returns: the link is closed or broken, nothing has come for 90
\* seconds, or the registry is stopping.
ReadFails(r, p, k) ==
    /\ Joins(k, r, p)
    /\ stage[k][r] = "reading"
    /\ stage' = [stage EXCEPT ![k][r] = "closing"]
    /\ open' = [open EXCEPT ![k] = FALSE]
    /\ UNCHANGED <<ends, replied, conns, peers, blooms, stopped>>

\* Mutant: unregisterPeer returns early when the map has no entry.
UnmapPeerOrReturn(r, p, k) ==
    /\ Joins(k, r, p)
    /\ stage[k][r] = "closing"
    /\ conns' = [conns EXCEPT ![r][p] = NoLink]
    /\ stage' = [stage EXCEPT ![k][r] =
                   IF conns[r][p] = NoLink THEN "done" ELSE "unmapped"]
    /\ UNCHANGED <<ends, open, replied, peers, blooms, stopped>>

\* unregisterPeer, first half: the entry is deleted by peer, whichever link
\* it holds.
UnmapPeer(r, p, k) ==
    /\ Joins(k, r, p)
    /\ stage[k][r] = "closing"
    /\ conns' = [conns EXCEPT ![r][p] = NoLink]
    /\ stage' = [stage EXCEPT ![k][r] = "unmapped"]
    /\ UNCHANGED <<ends, open, replied, peers, blooms, stopped>>

\* unregisterPeer, second half: PeerManager.RemovePeer.
RemovePeer(r, p, k) ==
    /\ Joins(k, r, p)
    /\ stage[k][r] = "unmapped"
    /\ peers' = [peers EXCEPT ![r] = @ \ {p}]
    /\ blooms' = [blooms EXCEPT ![r] = @ \ {p}]
    /\ stage' = [stage EXCEPT ![k][r] = "done"]
    /\ UNCHANGED <<ends, open, replied, conns, stopped>>

\* Stop closes stopCh, the listener and the links in the map, then waits for
\* the goroutines.
Stop(r) ==
    /\ ~stopped[r]
    /\ stopped' = [stopped EXCEPT ![r] = TRUE]
    /\ open' = [k \in Link |->
                  open[k] /\ \A p \in Registry : conns[r][p] # k]
    /\ UNCHANGED <<ends, replied, stage, conns, peers, blooms>>

-----------------------------------------------------------------------------
\* The steps of r's goroutine for link k.
Goroutine(r, k) ==
    \E p \in Registry :
        \/ Dial(r, p, k) \/ DialFails(r, p, k)
        \/ AcceptHello(r, p, k) \/ ReadReply(r, p, k) \/ HandshakeFails(r, p, k)
        \/ MapPeer(r, p, k) \/ AddPeer(r, p, k)
        \/ ReadFails(r, p, k) \/ UnmapPeer(r, p, k) \/ RemovePeer(r, p, k)

Next ==
    \/ \E r \in Registry, k \in Link : Goroutine(r, k)
    \/ \E r, p \in Registry, k \in Link : BeginDial(r, p, k) \/ Heartbeat(r, p, k)
    \/ \E r \in Stoppers : Stop(r)

\* A goroutine goes on reading only from an open link that the peer sends
\* on, and only until its registry is stopped.
MayStay(r, k) ==
    /\ stage[k][r] = "reading" /\ open[k] /\ ~stopped[r]
    /\ \E p \in Registry : conns[p][r] = k

\* Deadlines bound every read of a goroutine, and a message or a deadline
\* ends a read, so it does not stay where it may not. A goroutine has few
\* steps, so it is enough that some goroutine moves when one has to.
Fairness ==
    WF_vars(\E r \in Registry, k \in Link : ~MayStay(r, k) /\ Goroutine(r, k))

Spec == Init /\ [][Next]_vars

FairSpec == Spec /\ Fairness

-----------------------------------------------------------------------------
(***************************************************************************)
(* Properties.                                                             *)
(***************************************************************************)

\* r's goroutine for k has registered the peer and has not cleaned up yet.
Mapped(r, k) == stage[k][r] \in {"mapped", "reading", "closing"}
Listed(r, k) == stage[k][r] \in {"reading", "closing", "unmapped"}

\* Nothing is left behind: the entry for p in the map of connections is a
\* link whose goroutine will still delete it, and an entry for p in the peer
\* table or among the bloom filters belongs to a goroutine that will still
\* call RemovePeer, in every interleaving of the ends of several links.
ConnsHaveLoops ==
    \A r, p \in Registry : conns[r][p] # NoLink =>
        Joins(conns[r][p], r, p) /\ Mapped(r, conns[r][p])

PeersHaveLoops ==
    \A r \in Registry : \A p \in peers[r] \cup blooms[r] :
        \E k \in Link : Joins(k, r, p) /\ Listed(r, k)

EntriesHaveLoops == ConnsHaveLoops /\ PeersHaveLoops

\* A registry loses track of a link it still reads from only if there was a
\* second link between the same two registries: eviction from the peer
\* table, heartbeats and the failure of links to other peers never do it.
OrphansComeFromDuplicates ==
    \A r, p \in Registry, k \in Link :
        Joins(k, r, p) /\ stage[k][r] = "reading" /\ conns[r][p] # k =>
            \E j \in Link \ {k} :
                Joins(j, r, p) /\ stage[j][r] \notin {"none", "dialing", "hello", "checked"}

\* The peer table never grows past mesh.max_peers.
PeersBounded == \A r \in Registry : Cardinality(peers[r]) <= MaxPeers

\* Stop returns: all goroutines of a stopped registry come to their end and then
\* none begins, those of links that are not in the map when Stop walks it
\* included: links that a second one has displaced, links of dials under way, and
\* those that the last heartbeats lead to.
StopCompletes ==
    \A r \in Stoppers :
        stopped[r] ~> [](\A k \in Link : stage[k][r] \in {"none", "done"})
=============================================================================
