-------------------------------- MODULE Link --------------------------------
(***************************************************************************)
(* One TCP connection between two registries and the goroutines that share *)
(* it at each end (internal/mesh/transport.go, protocol.go, federated.go): *)
(* the read loop, federated searches, DHT requests and heartbeats.         *)
(*                                                                         *)
(* A frame is two writes, the length and the payload, and two reads. The   *)
(* mutex pc.mu orders the writers that take it; a search keeps it until it *)
(* has read an answer itself, next to the read loop; a DHT request does    *)
(* not take it. fd is the lock of the Go runtime that lets one Read of a   *)
(* connection wait at a time. The read deadline belongs to the connection: *)
(* whoever starts to read a message sets it for both readers.              *)
(*                                                                         *)
(* Lengths of timeouts are left out: a read may time out whenever nothing  *)
(* has come, a request whenever it waits. The connection is not set up     *)
(* again once it is closed (see Transport).                                *)
(***************************************************************************)
EXTENDS Naturals, Sequences, FiniteSets

CONSTANTS
    Node,    \* the two registries; a node also stands for its read loop
    Search,  \* federated searches: the goroutines that run SendSearchRequest
    Dht,     \* calls of SendDHTRequest
    Beat,    \* heartbeats; other gossip is sent in the same way
    At,      \* At[p]: the node of a search, DHT request or heartbeat
    Scenarios,  \* sets of searches, requests and heartbeats that a run has
    None

Proc == Node \cup Search \cup Dht \cup Beat
Reader == Node \cup Search
Opt(S) == S \cup {None}
Frame == [kind : {"beat"}, id : {None}] \cup [kind : {"search", "ack"}, id : Search]
         \cup [kind : {"dht", "reply"}, id : Dht]
Piece == [frame : Frame, part : {"length", "payload"}]
Expected == [part : {"length"}] \cup Piece

ASSUME LinkAssumption ==
    /\ \E m, n \in Node : m # n /\ Node = {m, n}
    /\ Node \cap (Search \cup Dht \cup Beat) = {}
    /\ Search \cap (Dht \cup Beat) = {} /\ Dht \cap Beat = {}
    /\ At \in [Search \cup Dht \cup Beat -> Node]
    /\ Scenarios \subseteq SUBSET (Search \cup Dht \cup Beat)
    /\ None \notin Proc \cup Frame \cup Expected

VARIABLES
    open,    \* the connection is open
    wire,    \* wire[n]: the pieces on their way to n
    mu,      \* mu[n]: who holds pc.mu at n
    fd,      \* fd[n]: whose Read waits for bytes at n
    late,    \* late[n]: the read deadline of the connection has passed at n
    phase,   \* phase[p]: what p is about to do
    part,    \* part[p]: the piece that p writes next
    answer,  \* answer[n]: the frame with which the read loop of n answers
    reads,   \* reads[p]: what reader p takes the next bytes for
    got,     \* got[s]: the search whose results s was answered with
    blame    \* what has happened that may break the connection

vars == <<open, wire, mu, fd, late, phase, part, answer, reads, got, blame>>

Phase == {"idle", "lock", "write", "read", "wait", "done", "failed"}

Types ==
    /\ open \in BOOLEAN
    /\ wire \in [Node -> Seq(Piece)]
    /\ mu \in [Node -> Opt(Proc)]
    /\ fd \in [Node -> Opt(Reader)]
    /\ late \in [Node -> BOOLEAN]
    /\ phase \in [Proc -> Phase]
    /\ part \in [Proc -> {"length", "payload"}]
    /\ answer \in [Node -> Opt(Frame)]
    /\ reads \in [Reader -> Opt(Expected)]
    /\ got \in [Search -> Opt(Search)]
    /\ blame \in SUBSET {"timeout", "reader", "writer", "network"}
    /\ \A n \in Node : fd[n] # None => reads[fd[n]] # None

Home(p) == IF p \in Node THEN p ELSE At[p]
Other(n) == CHOOSE m \in Node : m # n

\* Goroutine p at phase ph is between pc.mu.Lock and Unlock: it writes, or is a
\* search that reads its answer.
AtWork(p, ph) == ph = "write" \/ (p \in Search /\ ph = "read")

\* Every goroutine, lock and frame keeps its type, and pc.mu is held by a
\* goroutine of its node that is at work: none of the ways out of
\* SendSearchRequest, send and handleDHTMessage leaves it locked.
TypeOK ==
    /\ Types
    /\ \A n \in Node : mu[n] # None => Home(mu[n]) = n /\ AtWork(mu[n], phase[mu[n]])

Init ==
    /\ open = TRUE
    /\ wire = [n \in Node |-> << >>]
    /\ mu = [n \in Node |-> None]
    /\ fd = [n \in Node |-> None]
    /\ late = [n \in Node |-> FALSE]
    /\ \E S \in Scenarios :
         phase = [p \in Proc |-> CASE p \in Node -> "read"
                                   [] p \in S    -> "idle"
                                   [] OTHER      -> "done"]
    /\ part = [p \in Proc |-> "length"]
    /\ answer = [n \in Node |-> None]
    /\ reads = [p \in Reader |-> IF p \in Node THEN [part |-> "length"] ELSE None]
    /\ got = [s \in Search |-> None]
    /\ blame = {}

\* The message that p sends.
Message(p) == CASE p \in Node   -> answer[p]
                [] p \in Search -> [kind |-> "search", id |-> p]
                [] p \in Dht    -> [kind |-> "dht", id |-> p]
                [] p \in Beat   -> [kind |-> "beat", id |-> None]
-----------------------------------------------------------------------------
(* Writers *)

\* A search is started by a fan-out, which may stop waiting for it and go on; a
\* DHT request is registered as pending and written without the lock.
Begin(p) ==
    /\ open /\ phase[p] = "idle"
    /\ phase' = [phase EXCEPT ![p] = IF p \in Dht THEN "write" ELSE "lock"]
    /\ UNCHANGED <<open, wire, mu, fd, late, part, answer, reads, got, blame>>

LockIgnored(p) ==
    /\ phase[p] = "lock"
    /\ mu' = [mu EXCEPT ![Home(p)] = p]
    /\ phase' = [phase EXCEPT ![p] = "write"]
    /\ UNCHANGED <<open, wire, fd, late, part, answer, reads, got, blame>>
Lock(p) ==
    /\ phase[p] = "lock" /\ mu[Home(p)] = None
    /\ mu' = [mu EXCEPT ![Home(p)] = p]
    /\ phase' = [phase EXCEPT ![p] = "write"]
    /\ UNCHANGED <<open, wire, fd, late, part, answer, reads, got, blame>>

Released(p) == [mu EXCEPT ![Home(p)] = IF @ = p THEN None ELSE @]

\* The phase after a message is written.
AfterWrite(p) == CASE p \in Node   -> "read"
                   [] p \in Search -> "read"
                   [] p \in Dht    -> "wait"
                   [] p \in Beat   -> "done"

\* The lock that p leaves behind when its message is written: a search keeps it.
UnlockedEarly(p) == Released(p)
AfterMessage(p) == IF p \in Search THEN mu ELSE Released(p)

\* A DHT request and a writer that holds the lock are both within a frame.
Mixes(p) == \E q \in Proc \ {p} :
    /\ Home(q) = Home(p) /\ phase[q] = "write"
    /\ part[q] = "payload" \/ part[p] = "payload"
    /\ p \in Dht \/ q \in Dht

\* readMessage sets the deadline of the connection and reads a length.
ReadsNext(p) == [reads EXCEPT ![p] = [part |-> "length"]]
Undue(p) == [late EXCEPT ![Home(p)] = FALSE]
Shares(p) == \E q \in Reader \ {p} : Home(q) = Home(p) /\ reads[q] # None

WritePiece(p) ==
    /\ open /\ phase[p] = "write"
    /\ wire' = [wire EXCEPT ![Other(Home(p))] =
                  Append(@, [frame |-> Message(p), part |-> part[p]])]
    /\ blame' = blame \cup (IF Mixes(p) THEN {"writer"} ELSE {})
                      \cup (IF p \in Search /\ Shares(p) THEN {"reader"} ELSE {})
    /\ IF part[p] = "length"
       THEN /\ part' = [part EXCEPT ![p] = "payload"]
            /\ UNCHANGED <<mu, phase, answer, reads, late>>
       ELSE /\ part' = [part EXCEPT ![p] = "length"]
            /\ mu' = AfterMessage(p)
            /\ phase' = [phase EXCEPT ![p] = AfterWrite(p)]
            /\ answer' = IF p \in Node THEN [answer EXCEPT ![p] = None] ELSE answer
            /\ reads' = IF p \in Reader THEN ReadsNext(p) ELSE reads
            /\ late' = IF p \in Reader THEN Undue(p) ELSE late
    /\ UNCHANGED <<open, fd, got>>

\* The peer takes nothing for ten seconds: what was written of the frame stays on
\* the wire, and so does the connection. (Of a length or a payload that was cut
\* short the reader makes as little as of one that is not there.) The error ends
\* a search or a request, and the read loop logs it and goes on.
WriteFails(p) ==
    /\ open /\ phase[p] = "write"
    /\ part' = [part EXCEPT ![p] = "length"]
    /\ mu' = Released(p)
    /\ phase' = [phase EXCEPT ![p] = IF p \in Node THEN "read" ELSE "failed"]
    /\ answer' = IF p \in Node THEN [answer EXCEPT ![p] = None] ELSE answer
    /\ reads' = IF p \in Node THEN ReadsNext(p) ELSE reads
    /\ late' = IF p \in Node THEN Undue(p) ELSE late
    /\ blame' = blame \cup {"timeout"}
    /\ UNCHANGED <<open, wire, fd, got>>

\* No reply within five seconds: the request is no longer pending.
DhtTimeout(q) ==
    /\ phase[q] = "wait"
    /\ phase' = [phase EXCEPT ![q] = "failed"]
    /\ UNCHANGED <<open, wire, mu, fd, late, part, answer, reads, got, blame>>
-----------------------------------------------------------------------------
(* Readers *)

AcquireRead(p) ==
    /\ reads[p] # None /\ fd[Home(p)] = None
    /\ fd' = [fd EXCEPT ![Home(p)] = p]
    /\ UNCHANGED <<open, wire, mu, late, phase, part, answer, reads, got, blame>>

\* The connection is closed: what is on the wire is lost, and the reads and
\* writes that others wait in return an error.
Close ==
    /\ open' = FALSE
    /\ wire' = [n \in Node |-> << >>]
    /\ phase' = [p \in Proc |-> IF phase[p] \in {"lock", "write", "read", "wait"}
                               THEN "failed" ELSE phase[p]]
    /\ mu' = [n \in Node |-> None] /\ fd' = [n \in Node |-> None]
    /\ reads' = [p \in Reader |-> None]
    /\ answer' = [n \in Node |-> None]
    /\ part' = [p \in Proc |-> "length"]
    /\ UNCHANGED <<got, late>>

\* Mutant: SendSearchRequest unlocks at its end and not by defer.
SearchErrorLocked(p, rest) ==
    /\ IF p \in Node THEN Close
       ELSE /\ reads' = [reads EXCEPT ![p] = None]
            /\ fd' = [fd EXCEPT ![Home(p)] = IF @ = p THEN None ELSE @]
            /\ phase' = [phase EXCEPT ![p] = "failed"]
            /\ wire' = [wire EXCEPT ![Home(p)] = rest]
            /\ UNCHANGED <<open, mu, part, answer, got, late>>
    /\ UNCHANGED blame
\* The read loop ends with an error and the connection is closed; a search
\* ends with an error and the connection stays.
ReadError(p, rest) ==
    /\ IF p \in Node THEN Close
       ELSE /\ reads' = [reads EXCEPT ![p] = None]
            /\ fd' = [fd EXCEPT ![Home(p)] = IF @ = p THEN None ELSE @]
            /\ phase' = [phase EXCEPT ![p] = "failed"]
            /\ mu' = Released(p)
            /\ wire' = [wire EXCEPT ![Home(p)] = rest]
            /\ UNCHANGED <<open, part, answer, got, late>>
    /\ UNCHANGED blame

\* handleSearchRequest, handleDHTMessage: a reply that nobody waits for is
\* handled as a request, and HandleMessage answers what it does not know with
\* a ping reply.
Answer(n, f) ==
    CASE f.kind = "search" -> [kind |-> "ack", id |-> f.id]
      [] f.kind = "dht"    -> [kind |-> "reply", id |-> f.id]
      [] f.kind = "reply" /\ ~(At[f.id] = n /\ phase[f.id] = "wait")
                           -> [kind |-> "reply", id |-> f.id]
      [] OTHER             -> None

\* readLoop: an answer to a search is logged as unexpected.
Dispatch(n, f) ==
    /\ answer' = [answer EXCEPT ![n] = Answer(n, f)]
    /\ phase' = [phase EXCEPT
         ![n] = IF answer'[n] = None THEN "read" ELSE "lock",
         ![IF f.kind = "reply" /\ answer'[n] = None THEN f.id ELSE n] =
            IF f.kind = "reply" /\ answer'[n] = None THEN "done" ELSE @]
    /\ IF answer'[n] = None
       THEN reads' = ReadsNext(n) /\ late' = Undue(n)
       ELSE reads' = [reads EXCEPT ![n] = None] /\ UNCHANGED late
    /\ UNCHANGED <<mu, got>>

\* SendSearchRequest: any message that is not an answer is an error; whose
\* answer it is, is not compared.
Complete(s, f) ==
    /\ phase' = [phase EXCEPT ![s] = IF f.kind = "ack" THEN "done" ELSE "failed"]
    /\ got' = [got EXCEPT ![s] = IF f.kind = "ack" THEN f.id ELSE None]
    /\ mu' = Released(s)
    /\ reads' = [reads EXCEPT ![s] = None]
    /\ UNCHANGED <<answer, late>>

Fits(p, piece) == /\ piece.part = reads[p].part
                  /\ piece.part = "payload" => piece.frame = reads[p].frame

\* The bytes of a payload are too large for a length; the bytes of a length, or
\* of another payload, are not JSON.
Receive(p) ==
    LET n == Home(p)
        piece == Head(wire[n])
    IN  /\ open /\ fd[n] = p /\ ~late[n] /\ wire[n] # << >>
        /\ IF ~Fits(p, piece) THEN ReadError(p, Tail(wire[n]))
           ELSE /\ wire' = [wire EXCEPT ![n] = Tail(@)]
                /\ fd' = [fd EXCEPT ![n] = None]
                /\ IF piece.part = "length"
                   THEN /\ reads' = [reads EXCEPT ![p] = [piece EXCEPT !.part = "payload"]]
                        /\ UNCHANGED <<phase, answer, mu, got, late>>
                   ELSE IF p \in Node THEN Dispatch(p, piece.frame)
                   ELSE Complete(p, piece.frame)
                /\ UNCHANGED <<open, part, blame>>

\* Nothing comes before the deadline.
DeadlinePasses(n) ==
    /\ open /\ wire[n] = << >> /\ fd[n] # None /\ ~late[n]
    /\ late' = [late EXCEPT ![n] = TRUE]
    /\ blame' = blame \cup {"timeout"}
    /\ UNCHANGED <<open, wire, mu, fd, phase, part, answer, reads, got>>

ReadTimeoutOfLoop(p) ==
    /\ p \in Node /\ reads[p] # None /\ late[p] /\ fd[p] \in {p, None}
    /\ ReadError(p, wire[p])
ReadTimeout(p) ==
    /\ reads[p] # None /\ late[Home(p)] /\ fd[Home(p)] \in {p, None}
    /\ ReadError(p, wire[Home(p)])

\* The peer, or the network between, is gone.
Drop ==
    /\ open /\ Close
    /\ blame' = blame \cup {"network"}

Next ==
    \/ \E p \in Proc : Begin(p) \/ Lock(p) \/ WritePiece(p) \/ WriteFails(p)
    \/ \E q \in Dht : DhtTimeout(q)
    \/ \E p \in Reader : AcquireRead(p) \/ Receive(p) \/ ReadTimeout(p)
    \/ \E n \in Node : DeadlinePasses(n)
    \/ Drop

\* Goroutines run, deadlines pass, and a Read that waits for the runtime's lock
\* is not passed over for ever.
Fairness ==
    /\ \A p \in Proc : WF_vars(WritePiece(p))
    /\ \A p \in Reader : /\ SF_vars(AcquireRead(p)) /\ WF_vars(Receive(p))
                         /\ WF_vars(ReadTimeout(p))
    /\ \A n \in Node : WF_vars(DeadlinePasses(n))

Spec == Init /\ [][Next]_vars
FairSpec == Spec /\ Fairness
-----------------------------------------------------------------------------
(* Properties *)

\* The read loop ends, and the connection with it, only after a timeout, a
\* search that read next to the loop, a DHT request that wrote next to another
\* writer, or a failure of the network: writers that take pc.mu never mix their
\* frames, whatever the order of locks, answers and errors.
LinkBreaksForCause == open \/ blame # {}

\* Results that a search returns are the answer to its own request, as long as
\* no earlier exchange on the connection was given up: SendSearchRequest does
\* not compare request IDs and relies on pc.mu (transport.go:656).
AnswersMatch ==
    \A s \in Search : got[s] \notin {None, s} =>
        \E t \in Search \ {s} : At[t] = At[s] /\ phase[t] = "failed"

\* Two registries that search each other hold their own lock while each read
\* loop waits for it to send its answer. No lock is held for ever.
LocksReleased == \A n \in Node : mu[n] # None ~> mu[n] = None

\* "It's a request - process and send response" (transport.go:578): what a
\* node answers is a request of its peer.
OnlyRequestsAnswered ==
    \A n \in Node : answer[n] # None => At[answer[n].id] = Other(n)
=============================================================================
