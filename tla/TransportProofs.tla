-------------------------- MODULE TransportProofs --------------------------
(***************************************************************************)
(* Proofs about Transport for any number of registries, links and dials.   *)
(***************************************************************************)
EXTENDS Transport, FiniteSetTheorems, TLAPS

\* The two ends of a link determine each other.
LEMMA OtherEnd ==
    ASSUME NEW k, NEW r, NEW p, NEW q, Joins(k, r, p), Joins(k, r, q)
    PROVE  p = q
  BY DEF Joins

\* A link that was not dialed joins nobody.
LEMMA FreshLink ==
    ASSUME NEW k, ends[k] = << >>, NEW r, NEW p
    PROVE  ~Joins(k, r, p)
  BY DEF Joins

-----------------------------------------------------------------------------
\* Every step keeps the types of the tables.
LEMMA TypeStep == Shape /\ [Next]_vars => Shape'
<1> SUFFICES ASSUME Shape, [Next]_vars PROVE Shape'
  OBVIOUS
<1> USE DEF Shape
<1>0. ASSUME NEW r \in Registry, NEW p \in Registry, NEW k \in Link,
             BeginDial(r, p, k)
      PROVE  Shape'
  BY <1>0 DEF BeginDial, Stage
<1>1. ASSUME NEW r \in Registry, NEW p \in Registry, NEW k \in Link,
             Dial(r, p, k)
      PROVE  Shape'
  BY <1>1 DEF Dial, Stage
<1>a. ASSUME NEW r \in Registry, NEW p \in Registry, NEW k \in Link,
             DialFails(r, p, k)
      PROVE  Shape'
  BY <1>a DEF DialFails, Stage
<1>2. ASSUME NEW r \in Registry, NEW p \in Registry, NEW k \in Link,
             AcceptHello(r, p, k)
      PROVE  Shape'
  <2>1. stage' \in [Link -> [Registry -> Stage]]
    <3>1. PICK s \in {"done", "checked"} :
            stage' = [stage EXCEPT ![k][r] = s]
      BY <1>2 DEF AcceptHello
    <3>2. QED
      BY <3>1 DEF Stage
  <2>2. open' \in [Link -> BOOLEAN]
    BY <1>2 DEF AcceptHello
  <2>3. replied' \in [Link -> BOOLEAN]
    BY <1>2 DEF AcceptHello
  <2>4. QED
    BY <1>2, <2>1, <2>2, <2>3 DEF AcceptHello
<1>3. ASSUME NEW r \in Registry, NEW p \in Registry, NEW k \in Link,
             ReadReply(r, p, k)
      PROVE  Shape'
  <2>1. stage' \in [Link -> [Registry -> Stage]]
    <3>1. PICK s \in {"done", "checked"} :
            stage' = [stage EXCEPT ![k][r] = s]
      BY <1>3 DEF ReadReply
    <3>2. QED
      BY <3>1 DEF Stage
  <2>2. open' \in [Link -> BOOLEAN]
    BY <1>3 DEF ReadReply
  <2>3. replied' \in [Link -> BOOLEAN]
    BY <1>3 DEF ReadReply
  <2>4. QED
    BY <1>3, <2>1, <2>2, <2>3 DEF ReadReply
<1>4. ASSUME NEW r \in Registry, NEW p \in Registry, NEW k \in Link,
             HandshakeFails(r, p, k)
      PROVE  Shape'
  BY <1>4 DEF HandshakeFails, Stage
<1>5. ASSUME NEW r \in Registry, NEW p \in Registry, NEW k \in Link,
             MapPeer(r, p, k)
      PROVE  Shape'
  BY <1>5 DEF MapPeer, Stage
<1>6. ASSUME NEW r \in Registry, NEW p \in Registry, NEW k \in Link,
             AddPeer(r, p, k)
      PROVE  Shape'
  BY <1>6 DEF AddPeer, Stage
<1>7. ASSUME NEW r \in Registry, NEW p \in Registry, NEW k \in Link,
             Heartbeat(r, p, k)
      PROVE  Shape'
  BY <1>7 DEF Heartbeat
<1>8. ASSUME NEW r \in Registry, NEW p \in Registry, NEW k \in Link,
             ReadFails(r, p, k)
      PROVE  Shape'
  BY <1>8 DEF ReadFails, Stage
<1>9. ASSUME NEW r \in Registry, NEW p \in Registry, NEW k \in Link,
             UnmapPeer(r, p, k)
      PROVE  Shape'
  BY <1>9 DEF UnmapPeer, Stage
<1>10. ASSUME NEW r \in Registry, NEW p \in Registry, NEW k \in Link,
              RemovePeer(r, p, k)
       PROVE  Shape'
  BY <1>10 DEF RemovePeer, Stage
<1>11. ASSUME NEW r \in Registry, Stop(r) PROVE Shape'
  BY <1>11 DEF Stop
<1>12. CASE UNCHANGED vars
  BY <1>12 DEF vars
<1>13. QED
  BY <1>0, <1>1, <1>a, <1>2, <1>3, <1>4, <1>5, <1>6, <1>7, <1>8, <1>9, <1>10, <1>11,
     <1>12, TransportAssumption DEF Next, Goroutine

\* Every reachable state has the types of Shape.
LEMMA ShapeAlways == Spec => []Shape
<1>1. Init => Shape
  BY DEF Init, Shape, Stage
<1>2. QED
  BY <1>1, TypeStep, PTL DEF Spec

-----------------------------------------------------------------------------
(***************************************************************************)
(* Which way goroutines go, and what they leave behind.                    *)
(***************************************************************************)

\* The steps that a goroutine has to its end, at most.
StepsLeft(s) ==
    CASE s = "dialing"  -> 7
      [] s = "hello"    -> 6
      [] s = "checked"  -> 5
      [] s = "mapped"   -> 4
      [] s = "reading"  -> 3
      [] s = "closing"  -> 2
      [] s = "unmapped" -> 1
      [] OTHER          -> 0

\* q's goroutine for link j has fewer steps left, and gets to read only if q is
\* not stopped.
Nears(j, q) ==
    /\ StepsLeft(stage'[j][q]) < StepsLeft(stage[j][q])
    /\ stage'[j][q] = "reading" => ~stopped[q]

\* A goroutine that has begun has a link to a peer.
BegunHaveLinks ==
    \A r \in Registry, k \in Link :
        stage[k][r] # "none" => \E p \in Registry : Joins(k, r, p)

\* A link that nobody dialed is not open, and neither is one that an end is still
\* dialing or has left.
LeftAreClosed ==
    \A k \in Link :
        /\ ends[k] = << >> => ~open[k]
        /\ \A r \in Registry :
             stage[k][r] \in {"dialing", "closing", "unmapped", "done"} => ~open[k]

\* A step of a goroutine takes each goroutine nearer to its end, or leaves it
\* where it is, but for the listener of a dial, which begins. No read loop of a
\* stopped registry gets to read.
LEMMA GoroutineForward ==
    ASSUME Shape, NEW r \in Registry, NEW k \in Link, Goroutine(r, k)
    PROVE  /\ ends' = ends /\ stopped' = stopped
           /\ \A j \in Link, q \in Registry :
                \/ stage'[j][q] = stage[j][q]
                \/ Nears(j, q)
                \/ /\ stage[j][q] = "none" /\ ~stopped[q]
                   /\ \E o \in Registry : ends[j] = <<o, q>> /\ o # q
<1>1. ASSUME NEW p \in Registry, Dial(r, p, k)
      PROVE  /\ ends' = ends /\ stopped' = stopped
             /\ \A j \in Link, q \in Registry :
                  \/ stage'[j][q] = stage[j][q]
                  \/ Nears(j, q)
                  \/ /\ stage[j][q] = "none" /\ ~stopped[q]
                     /\ \E o \in Registry : ends[j] = <<o, q>> /\ o # q
  <2>1. \A j \in Link, q \in Registry :
          \/ stage'[j][q] = stage[j][q]
          \/ j = k /\ q = r /\ stage[j][q] = "dialing" /\ stage'[j][q] = "hello"
          \/ j = k /\ q = p
    BY <1>1 DEF Dial, Shape
  <2>2. StepsLeft("hello") < StepsLeft("dialing")
    BY DEF StepsLeft
  <2> QED BY <1>1, <2>1, <2>2 DEF Dial, Nears
<1>2. ASSUME NEW p \in Registry,
             \/ DialFails(r, p, k)
             \/ AcceptHello(r, p, k) \/ ReadReply(r, p, k) \/ HandshakeFails(r, p, k)
             \/ MapPeer(r, p, k) \/ AddPeer(r, p, k)
             \/ ReadFails(r, p, k) \/ UnmapPeer(r, p, k) \/ RemovePeer(r, p, k)
      PROVE  /\ ends' = ends /\ stopped' = stopped
             /\ \A j \in Link, q \in Registry :
                  stage'[j][q] = stage[j][q] \/ Nears(j, q)
  <2>1. ends' = ends /\ stopped' = stopped
    BY <1>2 DEF DialFails, AcceptHello, ReadReply, HandshakeFails, MapPeer, AddPeer, ReadFails,
                UnmapPeer, RemovePeer
  <2>2. PICK s \in {"checked", "mapped", "reading", "closing", "unmapped", "done"} :
            /\ stage' = [stage EXCEPT ![k][r] = s]
            /\ s = "reading" => ~stopped[r]
            /\ <<stage[k][r], s>> \in {<<"dialing", "done">>, <<"hello", "done">>,
                   <<"hello", "checked">>, <<"checked", "mapped">>, <<"mapped", "reading">>,
                   <<"mapped", "closing">>, <<"reading", "closing">>, <<"closing", "unmapped">>, <<"unmapped", "done">>}
    <3>1. CASE stage[k][r] = "hello"
      <4>1. \E s \in {"done", "checked"} : stage' = [stage EXCEPT ![k][r] = s]
        BY <1>2, <3>1 DEF DialFails, AcceptHello, ReadReply, HandshakeFails, MapPeer, AddPeer,
                          ReadFails, UnmapPeer, RemovePeer
      <4> QED BY <3>1, <4>1
    <3>2. CASE stage[k][r] = "mapped"
      <4>1. \E s \in {"reading", "closing"} :
              stage' = [stage EXCEPT ![k][r] = s] /\ (s = "reading" => ~stopped[r])
        BY <1>2, <3>2 DEF DialFails, AcceptHello, ReadReply, HandshakeFails, MapPeer, AddPeer,
                          ReadFails, UnmapPeer, RemovePeer
      <4> QED BY <3>2, <4>1
    <3>3. CASE stage[k][r] \notin {"hello", "mapped"}
      BY <1>2, <3>3 DEF DialFails, AcceptHello, ReadReply, HandshakeFails, MapPeer, AddPeer,
                        ReadFails, UnmapPeer, RemovePeer
    <3> QED BY <3>1, <3>2, <3>3
  <2>3. StepsLeft(s) < StepsLeft(stage[k][r])
    BY <2>2 DEF StepsLeft
  <2>4. \A j \in Link, q \in Registry :
          stage'[j][q] = IF j = k /\ q = r THEN s ELSE stage[j][q]
    BY <2>2 DEF Shape
  <2> QED BY <2>1, <2>2, <2>3, <2>4 DEF Nears
<1> QED BY <1>1, <1>2 DEF Goroutine

\* Every step keeps BegunHaveLinks.
LEMMA BegunStep == Shape /\ BegunHaveLinks /\ [Next]_vars => BegunHaveLinks'
<1> SUFFICES ASSUME Shape, BegunHaveLinks, [Next]_vars PROVE BegunHaveLinks'
  OBVIOUS
<1>1. ASSUME NEW r \in Registry, NEW k \in Link, Goroutine(r, k) PROVE BegunHaveLinks'
  <2> SUFFICES ASSUME NEW q \in Registry, NEW j \in Link, stage'[j][q] # "none"
               PROVE  \E o \in Registry : Joins(j, q, o)
    BY <1>1, GoroutineForward DEF BegunHaveLinks, Joins
  <2>1. \/ stage'[j][q] = stage[j][q]
        \/ StepsLeft(stage'[j][q]) < StepsLeft(stage[j][q])
        \/ \E o \in Registry : ends[j] = <<o, q>> /\ o # q
    BY <1>1, GoroutineForward DEF Nears
  <2>2. StepsLeft("none") = 0 /\ \A s : StepsLeft(s) \in Nat
    BY DEF StepsLeft
  <2>3. CASE stage[j][q] # "none"
    BY <2>3 DEF BegunHaveLinks
  <2>4. CASE stage[j][q] = "none"
    <3>1. stage'[j][q] # stage[j][q] /\ ~(StepsLeft(stage'[j][q]) < StepsLeft(stage[j][q]))
      BY <2>2, <2>4
    <3>2. PICK o \in Registry : ends[j] = <<o, q>> /\ o # q
      BY <2>1, <3>1
    <3> QED BY <3>2 DEF Joins
  <2> QED BY <2>3, <2>4
<1>2. ASSUME NEW r \in Registry, NEW p \in Registry, NEW k \in Link, BeginDial(r, p, k)
      PROVE  BegunHaveLinks'
  <2>1. /\ \A j \in Link : j # k => stage'[j] = stage[j] /\ ends'[j] = ends[j]
        /\ ends'[k] = <<r, p>> /\ r # p
        /\ \A q \in Registry : q # r => stage'[k][q] = "none"
    BY <1>2, TransportAssumption, FreshLink DEF BeginDial, Shape, BegunHaveLinks
  <2> SUFFICES ASSUME NEW q \in Registry, NEW j \in Link, stage'[j][q] # "none"
               PROVE  \E o \in Registry : ends'[j] \in {<<q, o>>, <<o, q>>} /\ q # o
    BY DEF BegunHaveLinks, Joins
  <2>2. CASE j = k
    BY <2>1, <2>2
  <2>3. CASE j # k
    BY <2>1, <2>3 DEF BegunHaveLinks, Joins
  <2> QED BY <2>2, <2>3
<1>3. CASE UNCHANGED <<ends, stage>>
  BY <1>3 DEF BegunHaveLinks, Joins
<1>4. ASSUME NEW r \in Registry, NEW p \in Registry, NEW k \in Link, Heartbeat(r, p, k)
      PROVE  BegunHaveLinks'
  BY <1>3, <1>4 DEF Heartbeat
<1>5. ASSUME NEW r \in Stoppers, Stop(r) PROVE BegunHaveLinks'
  BY <1>3, <1>5 DEF Stop
<1>6. CASE UNCHANGED vars
  BY <1>3, <1>6 DEF vars
<1> QED BY <1>1, <1>2, <1>4, <1>5, <1>6 DEF Next

LEMMA BegunAlways == Spec => []BegunHaveLinks
<1>1. Init => BegunHaveLinks
  BY DEF Init, BegunHaveLinks
<1> QED BY <1>1, ShapeAlways, BegunStep, PTL DEF Spec

\* A goroutine that goes to another stage, and closes its link when that stage is
\* past the link's use, keeps LeftAreClosed.
LEMMA StageKeepsLeft ==
    ASSUME Shape, LeftAreClosed, NEW k \in Link, NEW r \in Registry, NEW s \in Stage,
           stage' = [stage EXCEPT ![k][r] = s], ends' = ends,
           \A j \in Link : open'[j] => open[j],
           s \in {"dialing", "closing", "unmapped", "done"} => ~open'[k]
    PROVE  LeftAreClosed'
<1>1. \A j \in Link, q \in Registry :
        stage'[j][q] = IF j = k /\ q = r THEN s ELSE stage[j][q]
  BY DEF Shape
<1> QED BY <1>1 DEF LeftAreClosed

\* Every step keeps LeftAreClosed.
LEMMA LeftStep ==
    Shape /\ BegunHaveLinks /\ LeftAreClosed /\ [Next]_vars => LeftAreClosed'
<1> SUFFICES ASSUME Shape, BegunHaveLinks, LeftAreClosed, [Next]_vars
             PROVE  LeftAreClosed'
  OBVIOUS
<1>1. ASSUME NEW r \in Registry, NEW p \in Registry, NEW k \in Link, BeginDial(r, p, k)
      PROVE  LeftAreClosed'
  <2>1. /\ \A j \in Link : j # k => stage'[j] = stage[j] /\ ends'[j] = ends[j]
        /\ open' = open /\ ~open[k]
    BY <1>1 DEF BeginDial, Shape, LeftAreClosed
  <2> QED BY <2>1 DEF LeftAreClosed
<1>2. ASSUME NEW r \in Registry, NEW p \in Registry, NEW k \in Link, Dial(r, p, k)
      PROVE  LeftAreClosed'
  <2>1. /\ \A j \in Link : j # k => stage'[j] = stage[j] /\ open'[j] = open[j]
        /\ ends' = ends /\ ends[k] # << >>
    BY <1>2 DEF Dial, Shape
  <2>2. \A q \in Registry : stage'[k][q] \in {"none", "hello"}
    <3>1. \A q \in Registry : q \notin {r, p} => stage[k][q] = "none"
      BY <1>2 DEF Dial, BegunHaveLinks, Joins
    <3> QED BY <1>2, <3>1 DEF Dial, Shape
  <2> QED BY <2>1, <2>2 DEF LeftAreClosed
<1>3. ASSUME NEW r \in Registry, NEW p \in Registry, NEW k \in Link, DialFails(r, p, k)
      PROVE  LeftAreClosed'
  <2>1. ~open[k]
    BY <1>3 DEF DialFails, LeftAreClosed
  <2> QED BY <1>3, <2>1, StageKeepsLeft DEF DialFails, Stage
<1>4. ASSUME NEW r \in Registry, NEW p \in Registry, NEW k \in Link,
             AcceptHello(r, p, k) \/ ReadReply(r, p, k) \/ HandshakeFails(r, p, k)
      PROVE  LeftAreClosed'
  <2>1. PICK s \in {"done", "checked"} :
            /\ stage' = [stage EXCEPT ![k][r] = s] /\ ends' = ends
            /\ s = "done" => open' = [open EXCEPT ![k] = FALSE]
            /\ s = "checked" => open' = open
    BY <1>4 DEF AcceptHello, ReadReply, HandshakeFails
  <2>2. (\A j \in Link : open'[j] => open[j]) /\ (s = "done" => ~open'[k])
    BY <2>1 DEF Shape
  <2> QED BY <2>1, <2>2, StageKeepsLeft DEF Stage
<1>5. ASSUME NEW r \in Registry, NEW p \in Registry, NEW k \in Link,
             MapPeer(r, p, k) \/ AddPeer(r, p, k)
      PROVE  LeftAreClosed'
  <2>1. PICK s \in {"mapped", "reading", "closing"} :
            /\ stage' = [stage EXCEPT ![k][r] = s] /\ ends' = ends
            /\ \/ open' = open /\ s = "mapped"
               \/ /\ open' = [open EXCEPT ![k] = @ /\ ~stopped[r]]
                  /\ s = "closing" => stopped[r]
    BY <1>5 DEF MapPeer, AddPeer
  <2>2. (\A j \in Link : open'[j] => open[j]) /\ (s = "closing" => ~open'[k])
    BY <2>1 DEF Shape
  <2> QED BY <2>1, <2>2, StageKeepsLeft DEF Stage
<1>6. ASSUME NEW r \in Registry, NEW p \in Registry, NEW k \in Link, ReadFails(r, p, k)
      PROVE  LeftAreClosed'
  <2>1. (\A j \in Link : open'[j] => open[j]) /\ ~open'[k]
    BY <1>6 DEF ReadFails, Shape
  <2> QED BY <1>6, <2>1, StageKeepsLeft DEF ReadFails, Stage
<1>7. ASSUME NEW r \in Registry, NEW p \in Registry, NEW k \in Link,
             UnmapPeer(r, p, k) \/ RemovePeer(r, p, k)
      PROVE  LeftAreClosed'
  <2>1. ~open[k] /\ open' = open
    BY <1>7 DEF UnmapPeer, RemovePeer, LeftAreClosed
  <2> QED BY <1>7, <2>1, StageKeepsLeft DEF UnmapPeer, RemovePeer, Stage
<1>8. ASSUME NEW r \in Registry, NEW p \in Registry, NEW k \in Link, Heartbeat(r, p, k)
      PROVE  LeftAreClosed'
  BY <1>8 DEF Heartbeat, LeftAreClosed
<1>9. ASSUME NEW r \in Stoppers, Stop(r) PROVE LeftAreClosed'
  BY <1>9 DEF Stop, LeftAreClosed
<1>10. CASE UNCHANGED vars
  BY <1>10 DEF vars, LeftAreClosed
<1> QED BY <1>1, <1>2, <1>3, <1>4, <1>5, <1>6, <1>7, <1>8, <1>9, <1>10 DEF Next, Goroutine

\* Type correctness of the transport: a link is open only while both goroutines
\* hold it, so none of the ways out of handleInbound, ConnectTo and readLoop
\* leaves a connection open behind it.
THEOREM TypeCorrect == Spec => []TypeOK
<1>1. Init => LeftAreClosed
  BY DEF Init, LeftAreClosed
<1>2. Shape /\ LeftAreClosed => TypeOK
  BY DEF TypeOK, LeftAreClosed
<1> QED BY <1>1, <1>2, ShapeAlways, BegunAlways, LeftStep, PTL DEF Spec

-----------------------------------------------------------------------------
\* A step of r's goroutine for k changes the stage of no other goroutine.
LEMMA StageWrite ==
    ASSUME Shape, NEW k \in Link, NEW r \in Registry, NEW s,
           stage' = [stage EXCEPT ![k][r] = s], ends' = ends
    PROVE  /\ \A j \in Link, q \in Registry :
                stage'[j][q] = IF j = k /\ q = r THEN s ELSE stage[j][q]
           /\ \A j, q, p : Joins(j, q, p)' <=> Joins(j, q, p)
  BY DEF Shape, Joins

\* A step that leaves the tables alone, and takes no goroutine that is
\* responsible for an entry out of its stage of responsibility, is harmless.
LEMMA QuietStep ==
    ASSUME Shape, EntriesHaveLoops,
           ends' = ends, conns' = conns, peers' = peers, blooms' = blooms,
           \A j \in Link, q \in Registry :
               /\ Mapped(q, j) => Mapped(q, j)'
               /\ Listed(q, j) => Listed(q, j)'
    PROVE  EntriesHaveLoops'
<1>1. ConnsHaveLoops'
  <2> SUFFICES ASSUME NEW r \in Registry, NEW p \in Registry,
                      conns'[r][p] # NoLink
               PROVE  (Joins(conns[r][p], r, p) /\ Mapped(r, conns[r][p]))'
    BY DEF ConnsHaveLoops, Joins, Mapped
  <2>1. conns[r][p] \in Link /\ conns'[r][p] = conns[r][p]
    BY DEF Shape
  <2>2. Joins(conns[r][p], r, p) /\ Mapped(r, conns[r][p])
    BY <2>1 DEF EntriesHaveLoops, ConnsHaveLoops
  <2>3. Mapped(r, conns[r][p])'
    <3>1. PICK k \in Link : k = conns[r][p]
      BY <2>1
    <3>2. Mapped(r, k)'
      BY <2>2, <3>1
    <3>3. QED
      BY <2>1, <3>1, <3>2 DEF Mapped
  <2>4. QED
    BY <2>1, <2>2, <2>3 DEF Joins
<1>2. PeersHaveLoops'
  <2> SUFFICES ASSUME NEW r \in Registry, NEW p \in peers[r] \cup blooms[r]
               PROVE  \E k \in Link : Joins(k, r, p)' /\ Listed(r, k)'
    BY DEF PeersHaveLoops, Joins, Listed
  <2>1. PICK k \in Link : Joins(k, r, p) /\ Listed(r, k)
    BY DEF EntriesHaveLoops, PeersHaveLoops
  <2>2. QED
    BY <2>1 DEF Joins
<1>3. QED
  BY <1>1, <1>2 DEF EntriesHaveLoops

\* Every step keeps EntriesHaveLoops.
LEMMA LoopsStep == Shape /\ EntriesHaveLoops /\ [Next]_vars => EntriesHaveLoops'
<1> SUFFICES ASSUME Shape, EntriesHaveLoops, [Next]_vars
             PROVE  EntriesHaveLoops'
  OBVIOUS
<1>0. ASSUME NEW r \in Registry, NEW p \in Registry, NEW k \in Link,
             BeginDial(r, p, k)
      PROVE  EntriesHaveLoops'
  <2>1. \A q, o : ~Joins(k, q, o)
    BY <1>0, FreshLink DEF BeginDial
  <2>2. \A j \in Link : j # k => \A q, o :
          /\ stage'[j] = stage[j]
          /\ Joins(j, q, o)' <=> Joins(j, q, o)
    BY <1>0 DEF BeginDial, Shape, Joins
  <2>3. ConnsHaveLoops'
    <3> SUFFICES ASSUME NEW q \in Registry, NEW o \in Registry,
                        conns'[q][o] # NoLink
                 PROVE  (Joins(conns[q][o], q, o) /\ Mapped(q, conns[q][o]))'
      BY DEF ConnsHaveLoops
    <3>1. conns' = conns /\ conns[q][o] \in Link
      BY <1>0 DEF BeginDial, Shape
    <3>2. Joins(conns[q][o], q, o) /\ Mapped(q, conns[q][o])
      BY <3>1 DEF EntriesHaveLoops, ConnsHaveLoops
    <3>3. conns[q][o] # k
      BY <2>1, <3>2
    <3>4. QED
      BY <2>2, <3>1, <3>2, <3>3 DEF Joins, Mapped
  <2>4. PeersHaveLoops'
    <3> SUFFICES ASSUME NEW q \in Registry, NEW o \in peers[q] \cup blooms[q]
                 PROVE  \E j \in Link : Joins(j, q, o)' /\ Listed(q, j)'
      BY <1>0 DEF BeginDial, PeersHaveLoops
    <3>1. PICK j \in Link : Joins(j, q, o) /\ Listed(q, j)
      BY DEF EntriesHaveLoops, PeersHaveLoops
    <3>2. j # k
      BY <2>1, <3>1
    <3>3. QED
      BY <2>2, <3>1, <3>2 DEF Listed
  <2>5. QED
    BY <2>3, <2>4 DEF EntriesHaveLoops
<1>1. ASSUME NEW r \in Registry, NEW p \in Registry, NEW k \in Link,
             Dial(r, p, k)
      PROVE  EntriesHaveLoops'
  <2>1. \A j \in Link, q \in Registry :
          \/ stage'[j][q] = stage[j][q]
          \/ stage[j][q] \in {"dialing", "none"}
    BY <1>1 DEF Dial, Shape
  <2>2. \A j \in Link, q \in Registry :
          /\ Mapped(q, j) => Mapped(q, j)'
          /\ Listed(q, j) => Listed(q, j)'
    BY <2>1 DEF Mapped, Listed
  <2>3. QED
    BY <1>1, <2>2, QuietStep DEF Dial
<1>a. ASSUME NEW r \in Registry, NEW p \in Registry, NEW k \in Link,
             DialFails(r, p, k)
      PROVE  EntriesHaveLoops'
  <2>1. \A j \in Link, q \in Registry :
          \/ stage'[j][q] = stage[j][q]
          \/ stage[j][q] = "dialing"
    BY <1>a DEF DialFails, Shape
  <2>2. \A j \in Link, q \in Registry :
          /\ Mapped(q, j) => Mapped(q, j)'
          /\ Listed(q, j) => Listed(q, j)'
    BY <2>1 DEF Mapped, Listed
  <2>3. QED
    BY <1>a, <2>2, QuietStep DEF DialFails
<1>2. ASSUME NEW r \in Registry, NEW p \in Registry, NEW k \in Link,
             AcceptHello(r, p, k)
      PROVE  EntriesHaveLoops'
  <2>1. PICK s \in Stage : /\ stage' = [stage EXCEPT ![k][r] = s]
                           /\ s \in {"closing"} \/ stage[k][r] = "hello"
                           /\ stage[k][r] \in {"hello", "reading"}
    BY <1>2 DEF AcceptHello, Stage
  <2>2. \A j \in Link, q \in Registry :
          /\ Mapped(q, j) => Mapped(q, j)'
          /\ Listed(q, j) => Listed(q, j)'
    BY <1>2, <2>1, StageWrite DEF AcceptHello, Mapped, Listed
  <2>3. QED
    BY <1>2, <2>2, QuietStep DEF AcceptHello
<1>3. ASSUME NEW r \in Registry, NEW p \in Registry, NEW k \in Link,
             ReadReply(r, p, k)
      PROVE  EntriesHaveLoops'
  <2>1. PICK s \in Stage : /\ stage' = [stage EXCEPT ![k][r] = s]
                           /\ s \in {"closing"} \/ stage[k][r] = "hello"
                           /\ stage[k][r] \in {"hello", "reading"}
    BY <1>3 DEF ReadReply, Stage
  <2>2. \A j \in Link, q \in Registry :
          /\ Mapped(q, j) => Mapped(q, j)'
          /\ Listed(q, j) => Listed(q, j)'
    BY <1>3, <2>1, StageWrite DEF ReadReply, Mapped, Listed
  <2>3. QED
    BY <1>3, <2>2, QuietStep DEF ReadReply
<1>4. ASSUME NEW r \in Registry, NEW p \in Registry, NEW k \in Link,
             HandshakeFails(r, p, k)
      PROVE  EntriesHaveLoops'
  <2>1. PICK s \in Stage : /\ stage' = [stage EXCEPT ![k][r] = s]
                           /\ s \in {"closing"} \/ stage[k][r] = "hello"
                           /\ stage[k][r] \in {"hello", "reading"}
    BY <1>4 DEF HandshakeFails, Stage
  <2>2. \A j \in Link, q \in Registry :
          /\ Mapped(q, j) => Mapped(q, j)'
          /\ Listed(q, j) => Listed(q, j)'
    BY <1>4, <2>1, StageWrite DEF HandshakeFails, Mapped, Listed
  <2>3. QED
    BY <1>4, <2>2, QuietStep DEF HandshakeFails
<1>5. ASSUME NEW r \in Registry, NEW p \in Registry, NEW k \in Link,
             ReadFails(r, p, k)
      PROVE  EntriesHaveLoops'
  <2>1. PICK s \in Stage : /\ stage' = [stage EXCEPT ![k][r] = s]
                           /\ s \in {"closing"} \/ stage[k][r] = "hello"
                           /\ stage[k][r] \in {"hello", "reading"}
    BY <1>5 DEF ReadFails, Stage
  <2>2. \A j \in Link, q \in Registry :
          /\ Mapped(q, j) => Mapped(q, j)'
          /\ Listed(q, j) => Listed(q, j)'
    BY <1>5, <2>1, StageWrite DEF ReadFails, Mapped, Listed
  <2>3. QED
    BY <1>5, <2>2, QuietStep DEF ReadFails
<1>6. ASSUME NEW r \in Registry, NEW p \in Registry, NEW k \in Link,
             MapPeer(r, p, k)
      PROVE  EntriesHaveLoops'
  <2>1. /\ \A j \in Link, q \in Registry :
             stage'[j][q] = IF j = k /\ q = r THEN "mapped" ELSE stage[j][q]
        /\ \A j, q, o : Joins(j, q, o)' <=> Joins(j, q, o)
    BY <1>6, StageWrite DEF MapPeer
  <2>2. ConnsHaveLoops'
    <3> SUFFICES ASSUME NEW q \in Registry, NEW o \in Registry,
                        conns'[q][o] # NoLink
                 PROVE  (Joins(conns[q][o], q, o) /\ Mapped(q, conns[q][o]))'
      BY DEF ConnsHaveLoops
    <3>1. CASE q = r /\ o = p
      <4>1. conns'[q][o] = k
        BY <1>6, <3>1 DEF MapPeer, Shape
      <4>2. QED
        BY <1>6, <2>1, <3>1, <4>1 DEF MapPeer, Joins, Mapped
    <3>2. CASE ~(q = r /\ o = p)
      <4>1. conns'[q][o] = conns[q][o] /\ conns[q][o] \in Link
        BY <1>6, <3>2 DEF MapPeer, Shape
      <4>2. Joins(conns[q][o], q, o) /\ Mapped(q, conns[q][o])
        BY <4>1 DEF EntriesHaveLoops, ConnsHaveLoops
      <4>3. QED
        BY <1>6, <2>1, <4>1, <4>2 DEF MapPeer, Joins, Mapped
    <3>3. QED
      BY <3>1, <3>2
  <2>3. PeersHaveLoops'
    BY <1>6, <2>1 DEF MapPeer, EntriesHaveLoops, PeersHaveLoops, Listed
  <2>4. QED
    BY <2>2, <2>3 DEF EntriesHaveLoops
<1>7. ASSUME NEW r \in Registry, NEW p \in Registry, NEW k \in Link,
             AddPeer(r, p, k)
      PROVE  EntriesHaveLoops'
  <2>0. PICK s \in {"reading", "closing"} :
            stage' = [stage EXCEPT ![k][r] = s] /\ ends' = ends
    BY <1>7 DEF AddPeer
  <2>1. /\ \A j \in Link, q \in Registry :
             stage'[j][q] = IF j = k /\ q = r THEN s ELSE stage[j][q]
        /\ \A j, q, o : Joins(j, q, o)' <=> Joins(j, q, o)
    BY <2>0, StageWrite
  <2>2. ConnsHaveLoops'
    <3> SUFFICES ASSUME NEW q \in Registry, NEW o \in Registry,
                        conns'[q][o] # NoLink
                 PROVE  (Joins(conns[q][o], q, o) /\ Mapped(q, conns[q][o]))'
      BY DEF ConnsHaveLoops
    <3>1. conns' = conns /\ conns[q][o] \in Link
      BY <1>7 DEF AddPeer, Shape
    <3>2. Joins(conns[q][o], q, o) /\ Mapped(q, conns[q][o])
      BY <3>1 DEF EntriesHaveLoops, ConnsHaveLoops
    <3>3. QED
      BY <1>7, <2>1, <3>1, <3>2 DEF AddPeer, Joins, Mapped
  <2>3. PeersHaveLoops'
    <3> SUFFICES ASSUME NEW q \in Registry, NEW o \in peers'[q] \cup blooms'[q]
                 PROVE  \E j \in Link : Joins(j, q, o)' /\ Listed(q, j)'
      BY DEF PeersHaveLoops
    <3>1. (q = r /\ o = p) \/ o \in peers[q] \cup blooms[q]
      BY <1>7 DEF AddPeer, Shape
    <3>2. CASE q = r /\ o = p
      BY <1>7, <2>1, <3>2 DEF AddPeer, Listed
    <3>3. CASE o \in peers[q] \cup blooms[q]
      <4>1. PICK j \in Link : Joins(j, q, o) /\ Listed(q, j)
        BY <3>3 DEF EntriesHaveLoops, PeersHaveLoops
      <4>2. QED
        BY <1>7, <2>1, <4>1 DEF AddPeer, Listed
    <3>4. QED
      BY <3>1, <3>2, <3>3
  <2>4. QED
    BY <2>2, <2>3 DEF EntriesHaveLoops
<1>8. ASSUME NEW r \in Registry, NEW p \in Registry, NEW k \in Link,
             Heartbeat(r, p, k)
      PROVE  EntriesHaveLoops'
  <2>1. ConnsHaveLoops'
    BY <1>8 DEF Heartbeat, EntriesHaveLoops, ConnsHaveLoops, Joins, Mapped
  <2>2. PeersHaveLoops'
    <3> SUFFICES ASSUME NEW q \in Registry, NEW o \in peers'[q] \cup blooms'[q]
                 PROVE  \E j \in Link : Joins(j, q, o)' /\ Listed(q, j)'
      BY DEF PeersHaveLoops
    <3>1. (q = r /\ o = p) \/ o \in peers[q] \cup blooms[q]
      BY <1>8 DEF Heartbeat, Shape
    <3>2. CASE q = r /\ o = p
      BY <1>8, <3>2 DEF Heartbeat, Listed, Joins
    <3>3. CASE o \in peers[q] \cup blooms[q]
      <4>1. PICK j \in Link : Joins(j, q, o) /\ Listed(q, j)
        BY <3>3 DEF EntriesHaveLoops, PeersHaveLoops
      <4>2. QED
        BY <1>8, <4>1 DEF Heartbeat, Listed, Joins
    <3>4. QED
      BY <3>1, <3>2, <3>3
  <2>3. QED
    BY <2>1, <2>2 DEF EntriesHaveLoops
<1>9. ASSUME NEW r \in Registry, NEW p \in Registry, NEW k \in Link,
             UnmapPeer(r, p, k)
      PROVE  EntriesHaveLoops'
  <2>1. /\ \A j \in Link, q \in Registry :
             stage'[j][q] = IF j = k /\ q = r THEN "unmapped" ELSE stage[j][q]
        /\ \A j, q, o : Joins(j, q, o)' <=> Joins(j, q, o)
    BY <1>9, StageWrite DEF UnmapPeer
  <2>2. ConnsHaveLoops'
    <3> SUFFICES ASSUME NEW q \in Registry, NEW o \in Registry,
                        conns'[q][o] # NoLink
                 PROVE  (Joins(conns[q][o], q, o) /\ Mapped(q, conns[q][o]))'
      BY DEF ConnsHaveLoops
    <3>1. /\ conns'[q][o] = conns[q][o] /\ conns[q][o] \in Link
          /\ ~(q = r /\ o = p)
      BY <1>9 DEF UnmapPeer, Shape
    <3>2. Joins(conns[q][o], q, o) /\ Mapped(q, conns[q][o])
      BY <3>1 DEF EntriesHaveLoops, ConnsHaveLoops
    <3>3. ~(conns[q][o] = k /\ q = r)
      BY <1>9, <3>1, <3>2, OtherEnd DEF UnmapPeer
    <3>4. QED
      BY <1>9, <2>1, <3>1, <3>2, <3>3 DEF UnmapPeer, Joins, Mapped
  <2>3. PeersHaveLoops'
    <3> SUFFICES ASSUME NEW q \in Registry, NEW o \in peers[q] \cup blooms[q]
                 PROVE  \E j \in Link : Joins(j, q, o)' /\ Listed(q, j)'
      BY <1>9 DEF UnmapPeer, PeersHaveLoops
    <3>1. PICK j \in Link : Joins(j, q, o) /\ Listed(q, j)
      BY DEF EntriesHaveLoops, PeersHaveLoops
    <3>2. QED
      BY <2>1, <3>1 DEF Listed
  <2>4. QED
    BY <2>2, <2>3 DEF EntriesHaveLoops
<1>10. ASSUME NEW r \in Registry, NEW p \in Registry, NEW k \in Link,
              RemovePeer(r, p, k)
       PROVE  EntriesHaveLoops'
  <2>1. /\ \A j \in Link, q \in Registry :
             stage'[j][q] = IF j = k /\ q = r THEN "done" ELSE stage[j][q]
        /\ \A j, q, o : Joins(j, q, o)' <=> Joins(j, q, o)
    BY <1>10, StageWrite DEF RemovePeer
  <2>2. ConnsHaveLoops'
    <3> SUFFICES ASSUME NEW q \in Registry, NEW o \in Registry,
                        conns'[q][o] # NoLink
                 PROVE  (Joins(conns[q][o], q, o) /\ Mapped(q, conns[q][o]))'
      BY DEF ConnsHaveLoops
    <3>1. conns' = conns /\ conns[q][o] \in Link
      BY <1>10 DEF RemovePeer, Shape
    <3>2. Joins(conns[q][o], q, o) /\ Mapped(q, conns[q][o])
      BY <3>1 DEF EntriesHaveLoops, ConnsHaveLoops
    <3>3. QED
      BY <1>10, <2>1, <3>1, <3>2 DEF RemovePeer, Joins, Mapped
  <2>3. PeersHaveLoops'
    <3> SUFFICES ASSUME NEW q \in Registry, NEW o \in peers'[q] \cup blooms'[q]
                 PROVE  \E j \in Link : Joins(j, q, o)' /\ Listed(q, j)'
      BY DEF PeersHaveLoops
    <3>1. ~(q = r /\ o = p) /\ o \in peers[q] \cup blooms[q]
      BY <1>10 DEF RemovePeer, Shape
    <3>2. PICK j \in Link : Joins(j, q, o) /\ Listed(q, j)
      BY <3>1 DEF EntriesHaveLoops, PeersHaveLoops
    <3>3. ~(j = k /\ q = r)
      BY <1>10, <3>1, <3>2, OtherEnd DEF RemovePeer
    <3>4. QED
      BY <2>1, <3>2, <3>3 DEF Listed
  <2>4. QED
    BY <2>2, <2>3 DEF EntriesHaveLoops
<1>11. ASSUME NEW r \in Registry, Stop(r) PROVE EntriesHaveLoops'
  <2>1. \A j \in Link, q \in Registry :
          /\ Mapped(q, j) => Mapped(q, j)'
          /\ Listed(q, j) => Listed(q, j)'
    BY <1>11 DEF Stop, Mapped, Listed
  <2>2. QED
    BY <1>11, <2>1, QuietStep DEF Stop
<1>12. CASE UNCHANGED vars
  <2>1. \A j \in Link, q \in Registry :
          /\ Mapped(q, j) => Mapped(q, j)'
          /\ Listed(q, j) => Listed(q, j)'
    BY <1>12 DEF vars, Mapped, Listed
  <2>2. QED
    BY <1>12, <2>1, QuietStep DEF vars
<1>13. QED
  BY <1>0, <1>1, <1>a, <1>2, <1>3, <1>4, <1>5, <1>6, <1>7, <1>8, <1>9, <1>10, <1>11,
     <1>12, TransportAssumption DEF Next, Goroutine

\* Whatever the interleaving of links to the same peer, no entry of the map
\* of connections, of the peer table or of the bloom filters outlives the
\* read loops that will remove it.
THEOREM NothingLeaks == Spec => []EntriesHaveLoops
<1>1. Init => EntriesHaveLoops
  BY DEF Init, EntriesHaveLoops, ConnsHaveLoops, PeersHaveLoops
<1>2. QED
  BY <1>1, ShapeAlways, LoopsStep, PTL DEF Spec

-----------------------------------------------------------------------------
TablesFit ==
    \A r \in Registry : IsFiniteSet(peers[r]) /\ Cardinality(peers[r]) <= MaxPeers

\* AddPeer makes room in a full table before it adds to it.
LEMMA AddPeerFits ==
    ASSUME NEW S, IsFiniteSet(S), Cardinality(S) <= MaxPeers,
           NEW gone \in Evicted(S), NEW p
    PROVE  /\ IsFiniteSet((S \ gone) \cup {p})
           /\ Cardinality((S \ gone) \cup {p}) <= MaxPeers
<1> USE TransportAssumption
<1>0. Cardinality(S) \in Nat
  BY FS_CardinalityType
<1>1. CASE Cardinality(S) >= MaxPeers
  <2>1. PICK q \in S : gone = {q}
    BY <1>1 DEF Evicted
  <2>2. /\ IsFiniteSet(S \ gone)
        /\ Cardinality(S \ gone) = Cardinality(S) - 1
    BY <2>1, FS_RemoveElement
  <2>3. /\ IsFiniteSet((S \ gone) \cup {p})
        /\ \/ Cardinality((S \ gone) \cup {p}) = Cardinality(S \ gone)
           \/ Cardinality((S \ gone) \cup {p}) = Cardinality(S \ gone) + 1
    BY <2>2, FS_AddElement
  <2> QED BY <1>0, <2>2, <2>3
<1>2. CASE ~(Cardinality(S) >= MaxPeers)
  <2>1. gone = {} /\ S \ gone = S
    BY <1>2 DEF Evicted
  <2>2. /\ IsFiniteSet(S \cup {p})
        /\ \/ Cardinality(S \cup {p}) = Cardinality(S)
           \/ Cardinality(S \cup {p}) = Cardinality(S) + 1
    BY FS_AddElement
  <2> QED BY <1>0, <1>2, <2>1, <2>2
<1> QED BY <1>1, <1>2

\* Only AddPeer and RemovePeer change a peer table.
LEMMA TablesStep == Shape /\ TablesFit /\ [Next]_vars => TablesFit'
<1> SUFFICES ASSUME Shape, TablesFit, [Next]_vars PROVE TablesFit'
  OBVIOUS
<1>0. peers \in [Registry -> SUBSET Registry]
  BY DEF Shape
<1>1. ASSUME NEW r \in Registry, NEW p \in Registry, NEW k \in Link, AddPeer(r, p, k)
      PROVE  TablesFit'
  <2>1. PICK gone \in Evicted(peers[r]) :
              peers' = [peers EXCEPT ![r] = (peers[r] \ gone) \cup {p}]
    BY <1>1 DEF AddPeer
  <2>2. /\ IsFiniteSet((peers[r] \ gone) \cup {p})
        /\ Cardinality((peers[r] \ gone) \cup {p}) <= MaxPeers
    BY AddPeerFits DEF TablesFit
  <2> QED BY <1>0, <2>1, <2>2 DEF TablesFit
<1>2. ASSUME NEW r \in Registry, NEW p \in Registry, NEW k \in Link, RemovePeer(r, p, k)
      PROVE  TablesFit'
  <2>1. peers' = [peers EXCEPT ![r] = peers[r] \ {p}]
    BY <1>2 DEF RemovePeer
  <2>2. IsFiniteSet(peers[r]) /\ Cardinality(peers[r]) <= MaxPeers
    BY DEF TablesFit
  <2>3. /\ IsFiniteSet(peers[r] \ {p})
        /\ Cardinality(peers[r] \ {p}) <= Cardinality(peers[r])
    BY <2>2, FS_Subset
  <2>4. Cardinality(peers[r]) \in Nat /\ Cardinality(peers[r] \ {p}) \in Nat
    BY <2>2, <2>3, FS_CardinalityType
  <2>5. Cardinality(peers[r] \ {p}) <= MaxPeers
    BY <2>2, <2>3, <2>4, TransportAssumption
  <2> QED BY <1>0, <2>1, <2>3, <2>5 DEF TablesFit
<1>3. CASE UNCHANGED peers
  BY <1>3 DEF TablesFit
<1>4. CASE UNCHANGED vars
  BY <1>3, <1>4 DEF vars
<1>5. ASSUME NEW r \in Registry, NEW k \in Link, Goroutine(r, k)
      PROVE  TablesFit'
  <2>1. PICK p \in Registry :
              \/ Dial(r, p, k) \/ DialFails(r, p, k)
              \/ AcceptHello(r, p, k) \/ ReadReply(r, p, k) \/ HandshakeFails(r, p, k)
              \/ MapPeer(r, p, k) \/ AddPeer(r, p, k)
              \/ ReadFails(r, p, k) \/ UnmapPeer(r, p, k) \/ RemovePeer(r, p, k)
    BY <1>5 DEF Goroutine
  <2>2. AddPeer(r, p, k) \/ RemovePeer(r, p, k) \/ UNCHANGED peers
    BY <2>1 DEF Dial, DialFails, AcceptHello, ReadReply, HandshakeFails, MapPeer, ReadFails,
                UnmapPeer
  <2> QED BY <2>2, <1>1, <1>2, <1>3
<1>6. ASSUME NEW r \in Registry, NEW p \in Registry, NEW k \in Link,
             BeginDial(r, p, k) \/ Heartbeat(r, p, k)
      PROVE  TablesFit'
  BY <1>3, <1>6 DEF BeginDial, Heartbeat
<1>7. ASSUME NEW r \in Stoppers, Stop(r) PROVE TablesFit'
  BY <1>3, <1>7 DEF Stop
<1> QED BY <1>4, <1>5, <1>6, <1>7 DEF Next

\* No interleaving of handshakes and disconnections takes the peer table past
\* mesh.max_peers.
THEOREM PeerTableFits == Spec => []PeersBounded
<1>1. Init => TablesFit
  BY FS_EmptySet, TransportAssumption DEF Init, TablesFit
<1>2. TablesFit => PeersBounded
  BY DEF TablesFit, PeersBounded
<1> QED BY <1>1, <1>2, ShapeAlways, TablesStep, PTL DEF Spec

-----------------------------------------------------------------------------
(***************************************************************************)
(* Which links are read from without being in the map.                     *)
(***************************************************************************)

\* r's goroutine for k has been past the lookup of duplicates and the map; it
\* has put k into the map and has not begun to clean up.
Past(k, r) == stage[k][r] \notin {"none", "dialing", "hello", "checked"}
Held(k, r) == stage[k][r] \in {"mapped", "reading"}

\* OrphansComeFromDuplicates, for goroutines between the two halves of
\* registerPeer as well.
OrphanInv ==
    \A r, p \in Registry, k \in Link :
        Joins(k, r, p) /\ Held(k, r) /\ conns[r][p] # k =>
            \E j \in Link \ {k} : Joins(j, r, p) /\ Past(j, r)

\* A step that leaves the map alone and moves goroutines forward keeps it.
LEMMA OrphansKept ==
    ASSUME OrphanInv, ends' = ends, conns' = conns,
           \A j \in Link, q \in Registry :
               /\ Past(j, q) => stage'[j][q] \notin {"none", "dialing", "hello", "checked"}
               /\ stage'[j][q] \in {"mapped", "reading"} => Held(j, q)
    PROVE  OrphanInv'
  BY DEF OrphanInv, Joins, Held, Past

\* A goroutine that is not in the map's business moves to another stage.
LEMMA StageKeepsOrphans ==
    ASSUME Shape, OrphanInv, NEW k \in Link, NEW r \in Registry, NEW s \in Stage,
           stage' = [stage EXCEPT ![k][r] = s], ends' = ends, conns' = conns,
           s \notin {"none", "dialing", "hello"}, s = "checked" => ~Past(k, r),
           s \in {"mapped", "reading"} => Held(k, r)
    PROVE  OrphanInv'
<1>1. \A j \in Link, q \in Registry :
        stage'[j][q] = IF j = k /\ q = r THEN s ELSE stage[j][q]
  BY DEF Shape
<1>2. \A j \in Link, q \in Registry :
        /\ Past(j, q) => stage'[j][q] \notin {"none", "dialing", "hello", "checked"}
        /\ stage'[j][q] \in {"mapped", "reading"} => Held(j, q)
  BY <1>1 DEF Past, Held
<1>3. QED
  BY <1>2, OrphansKept

\* Every step keeps OrphanInv.
LEMMA OrphanStep == Shape /\ BegunHaveLinks /\ OrphanInv /\ [Next]_vars => OrphanInv'
<1> SUFFICES ASSUME Shape, BegunHaveLinks, OrphanInv, [Next]_vars PROVE OrphanInv'
  OBVIOUS
<1>0. ASSUME NEW r \in Registry, NEW p \in Registry, NEW k \in Link,
             BeginDial(r, p, k)
      PROVE  OrphanInv'
  <2>1. \A q, o : ~Joins(k, q, o)
    BY <1>0, FreshLink DEF BeginDial
  <2>2. /\ \A j \in Link : j # k => stage'[j] = stage[j] /\ ends'[j] = ends[j]
        /\ \A q \in Registry : stage'[k][q] \in {"none", "dialing"}
        /\ conns' = conns
    <3>1. \A q \in Registry : stage[k][q] = "none"
      BY <2>1 DEF BegunHaveLinks
    <3> QED BY <1>0, <3>1 DEF BeginDial, Shape
  <2> SUFFICES ASSUME NEW q \in Registry, NEW o \in Registry, NEW j \in Link,
                      Joins(j, q, o)', Held(j, q)', conns'[q][o] # j
               PROVE  \E i \in Link \ {j} : Joins(i, q, o)' /\ Past(i, q)'
    BY DEF OrphanInv
  <2>3. j # k
    BY <2>2 DEF Held
  <2>4. Joins(j, q, o) /\ Held(j, q) /\ conns[q][o] # j
    BY <2>2, <2>3 DEF Joins, Held
  <2>5. PICK i \in Link \ {j} : Joins(i, q, o) /\ Past(i, q)
    BY <2>4 DEF OrphanInv
  <2>6. i # k
    BY <2>1, <2>5
  <2>7. QED
    BY <2>2, <2>5, <2>6 DEF Joins, Past
<1>1. ASSUME NEW r \in Registry, NEW p \in Registry, NEW k \in Link,
             Dial(r, p, k)
      PROVE  OrphanInv'
  <2>1. \A j \in Link, q \in Registry :
          \/ stage'[j][q] = stage[j][q]
          \/ stage[j][q] \in {"dialing", "none"} /\ stage'[j][q] = "hello"
    BY <1>1 DEF Dial, Shape
  <2>2. \A j \in Link, q \in Registry :
          /\ Past(j, q) => stage'[j][q] \notin {"none", "dialing", "hello", "checked"}
          /\ stage'[j][q] \in {"mapped", "reading"} => Held(j, q)
    BY <2>1 DEF Past, Held
  <2>3. QED
    BY <1>1, <2>2, OrphansKept DEF Dial
<1>a. ASSUME NEW r \in Registry, NEW p \in Registry, NEW k \in Link,
             DialFails(r, p, k)
      PROVE  OrphanInv'
  BY <1>a, StageKeepsOrphans DEF DialFails, Stage, Past, Held
<1>2. ASSUME NEW r \in Registry, NEW p \in Registry, NEW k \in Link,
             AcceptHello(r, p, k) \/ ReadReply(r, p, k) \/ HandshakeFails(r, p, k)
      PROVE  OrphanInv'
  <2>1. stage[k][r] = "hello" /\ ends' = ends /\ conns' = conns
    BY <1>2 DEF AcceptHello, ReadReply, HandshakeFails
  <2>2. \E s \in {"done", "checked"} : stage' = [stage EXCEPT ![k][r] = s]
    BY <1>2 DEF AcceptHello, ReadReply, HandshakeFails
  <2>3. QED
    BY <2>1, <2>2, StageKeepsOrphans DEF Stage, Past, Held
<1>3. ASSUME NEW r \in Registry, NEW p \in Registry, NEW k \in Link,
             MapPeer(r, p, k)
      PROVE  OrphanInv'
  <2>1. Joins(k, r, p) /\ ends' = ends
    BY <1>3 DEF MapPeer
  <2>2. /\ \A j \in Link, q \in Registry :
             stage'[j][q] = IF j = k /\ q = r THEN "mapped" ELSE stage[j][q]
        /\ \A q, o \in Registry :
             conns'[q][o] = IF q = r /\ o = p THEN k ELSE conns[q][o]
    BY <1>3, StageWrite DEF MapPeer, Shape
  <2> SUFFICES ASSUME NEW q \in Registry, NEW o \in Registry, NEW j \in Link,
                      Joins(j, q, o)', Held(j, q)', conns'[q][o] # j
               PROVE  \E i \in Link \ {j} : Joins(i, q, o)' /\ Past(i, q)'
    BY DEF OrphanInv
  <2>3. CASE q = r /\ o = p
    BY <2>1, <2>2, <2>3 DEF Joins, Past
  <2>4. CASE ~(q = r /\ o = p)
    <3>1. ~(j = k /\ q = r)
      BY <2>1, <2>4 DEF Joins
    <3>2. Joins(j, q, o) /\ Held(j, q) /\ conns[q][o] # j
      BY <2>1, <2>2, <2>4, <3>1 DEF Joins, Held
    <3>3. PICK i \in Link \ {j} : Joins(i, q, o) /\ Past(i, q)
      BY <3>2 DEF OrphanInv
    <3>4. QED
      BY <2>1, <2>2, <3>3 DEF Joins, Past
  <2>5. QED
    BY <2>3, <2>4
<1>4. ASSUME NEW r \in Registry, NEW p \in Registry, NEW k \in Link,
             AddPeer(r, p, k)
      PROVE  OrphanInv'
  BY <1>4, StageKeepsOrphans DEF AddPeer, Stage, Past, Held
<1>5. ASSUME NEW r \in Registry, NEW p \in Registry, NEW k \in Link,
             ReadFails(r, p, k) \/ RemovePeer(r, p, k)
      PROVE  OrphanInv'
  BY <1>5, StageKeepsOrphans DEF ReadFails, RemovePeer, Stage, Past, Held
<1>6. ASSUME NEW r \in Registry, NEW p \in Registry, NEW k \in Link,
             UnmapPeer(r, p, k)
      PROVE  OrphanInv'
  <2>1. Joins(k, r, p) /\ ends' = ends
    BY <1>6 DEF UnmapPeer
  <2>2. /\ \A j \in Link, q \in Registry :
             stage'[j][q] = IF j = k /\ q = r THEN "unmapped" ELSE stage[j][q]
        /\ \A q, o \in Registry : ~(q = r /\ o = p) => conns'[q][o] = conns[q][o]
    BY <1>6, StageWrite DEF UnmapPeer, Shape
  <2> SUFFICES ASSUME NEW q \in Registry, NEW o \in Registry, NEW j \in Link,
                      Joins(j, q, o)', Held(j, q)', conns'[q][o] # j
               PROVE  \E i \in Link \ {j} : Joins(i, q, o)' /\ Past(i, q)'
    BY DEF OrphanInv
  <2>3. CASE q = r /\ o = p
    <3>1. j # k
      BY <2>2, <2>3 DEF Held
    <3>2. QED
      BY <2>1, <2>2, <2>3, <3>1 DEF Joins, Past
  <2>4. CASE ~(q = r /\ o = p)
    <3>1. ~(j = k /\ q = r)
      BY <2>1, <2>4 DEF Joins
    <3>2. Joins(j, q, o) /\ Held(j, q) /\ conns[q][o] # j
      BY <2>1, <2>2, <2>4, <3>1 DEF Joins, Held
    <3>3. PICK i \in Link \ {j} : Joins(i, q, o) /\ Past(i, q)
      BY <3>2 DEF OrphanInv
    <3>4. QED
      BY <2>1, <2>2, <3>3 DEF Joins, Past
  <2>5. QED
    BY <2>3, <2>4
<1>7. ASSUME NEW r \in Registry, NEW p \in Registry, NEW k \in Link,
             Heartbeat(r, p, k)
      PROVE  OrphanInv'
  BY <1>7, OrphansKept DEF Heartbeat, Past, Held
<1>8. ASSUME NEW r \in Stoppers, Stop(r) PROVE OrphanInv'
  BY <1>8, OrphansKept DEF Stop, Past, Held
<1>9. CASE UNCHANGED vars
  BY <1>9, OrphansKept DEF vars, Past, Held
<1>10. QED
  BY <1>0, <1>1, <1>a, <1>2, <1>3, <1>4, <1>5, <1>6, <1>7, <1>8, <1>9 DEF Next, Goroutine

\* A registry reads from a link that its map has lost only if a second link to
\* the same peer has been registered: eviction from the peer table, heartbeats
\* and links to others never do it, for any number of registries and links.
THEOREM OrphansHaveCause == Spec => []OrphansComeFromDuplicates
<1>1. Init => OrphanInv
  BY DEF Init, OrphanInv, Joins
<1>2. OrphanInv => OrphansComeFromDuplicates
  BY DEF OrphanInv, OrphansComeFromDuplicates, Held, Past
<1>3. QED
  BY <1>1, <1>2, OrphanStep, ShapeAlways, BegunAlways, PTL DEF Spec

-----------------------------------------------------------------------------
(***************************************************************************)
(* What is left to do when a registry is stopped.                          *)
(***************************************************************************)

\* A goroutine that has begun has a link to a peer, which each of its steps asks
\* for, and AddPeer finds a peer to evict when the table is full.
GoroutinesCanEnd ==
    \A r \in Registry, k \in Link :
        /\ stage[k][r] # "none" => \E p \in Registry : Joins(k, r, p)
        /\ stage[k][r] = "mapped" => Evicted(peers[r]) # {}

\* The goroutine of a registry that begins to dial because of a heartbeat that
\* another one of it, in its last read, has got.
LastHeartbeat(r, k) ==
    /\ stage[k][r] = "none" /\ stage'[k][r] = "dialing"
    /\ \E j \in Link : stage[j][r] = "reading"

\* A registry that is stopped stays so, accepts no link, and a goroutine of it
\* that does something has fewer steps left and does not get to read, also one
\* whose dial was under way, which registers its peer after Stop has walked the
\* map. The only ones to begin are the dials of last heartbeats.
StopOnlyDrains ==
    [][\A r \in Registry, k \in Link : stopped[r] =>
          /\ stopped'[r]
          /\ stage'[k][r] = stage[k][r] \/ Nears(k, r) \/ LastHeartbeat(r, k)]_vars

\* A goroutine that registers a peer always has somebody to evict from a full
\* table (mesh.max_peers is at least 1), and none is without a link: what
\* StopCompletes needs for every goroutine to have a step until it is done.
THEOREM GoroutinesHaveSteps == Spec => []GoroutinesCanEnd
<1>1. ASSUME TablesFit, NEW r \in Registry PROVE Evicted(peers[r]) # {}
  <2>1. CASE Cardinality(peers[r]) >= MaxPeers
    <3>1. peers[r] # {}
      BY <2>1, FS_EmptySet, TransportAssumption
    <3> QED BY <2>1, <3>1 DEF Evicted
  <2>2. CASE ~(Cardinality(peers[r]) >= MaxPeers)
    BY <2>2 DEF Evicted
  <2> QED BY <2>1, <2>2
<1>2. BegunHaveLinks /\ TablesFit => GoroutinesCanEnd
  BY <1>1 DEF BegunHaveLinks, GoroutinesCanEnd
<1>3. Init => TablesFit
  BY FS_EmptySet, TransportAssumption DEF Init, TablesFit
<1> QED BY <1>2, <1>3, BegunAlways, ShapeAlways, TablesStep, PTL DEF Spec

\* Once Stop has closed stopCh, the goroutines of the registry only come nearer to
\* their end, at most seven steps away, on links of dials under way and on links
\* that others dialed as well, although ConnectTo never looks at stopCh. None
\* begins but the dials of a heartbeat, and for those a loop must still be in the
\* read it began before Stop: no further read begins, so when these reads are over
\* nothing begins any more.
THEOREM StopDrains == Spec => StopOnlyDrains
<1>1. ASSUME Shape, BegunHaveLinks, Next, NEW q \in Registry, NEW j \in Link, stopped[q]
      PROVE  /\ stopped'[q]
             /\ stage'[j][q] = stage[j][q] \/ Nears(j, q) \/ LastHeartbeat(q, j)
  <2>1. ASSUME NEW r \in Registry, NEW k \in Link, Goroutine(r, k)
        PROVE  stopped'[q] /\ (stage'[j][q] = stage[j][q] \/ Nears(j, q))
    BY <1>1, <2>1, GoroutineForward
  <2>2. ASSUME NEW r \in Registry, NEW p \in Registry, NEW k \in Link, BeginDial(r, p, k)
        PROVE  stopped'[q] /\ (stage'[j][q] = stage[j][q] \/ LastHeartbeat(q, j))
    <3>1. CASE j = k /\ q = r
      <4>1. stage[k][r] = "none"
        BY <1>1, <2>2, FreshLink DEF BeginDial, BegunHaveLinks
      <4>2. stage'[k][r] = "dialing" /\ \E i \in Link : stage[i][r] = "reading"
        BY <1>1, <2>2, <3>1 DEF BeginDial, Shape
      <4> QED BY <1>1, <2>2, <3>1, <4>1, <4>2 DEF BeginDial, LastHeartbeat
    <3>2. CASE ~(j = k /\ q = r)
      BY <1>1, <2>2, <3>2 DEF BeginDial, Shape
    <3> QED BY <3>1, <3>2
  <2>3. ASSUME NEW r \in Registry, NEW p \in Registry, NEW k \in Link, Heartbeat(r, p, k)
        PROVE  stopped'[q] /\ stage'[j][q] = stage[j][q]
    BY <1>1, <2>3 DEF Heartbeat
  <2>4. ASSUME NEW r \in Stoppers, Stop(r)
        PROVE  stopped'[q] /\ stage'[j][q] = stage[j][q]
    BY <1>1, <2>4 DEF Stop, Shape
  <2> QED BY <1>1, <2>1, <2>2, <2>3, <2>4 DEF Next
<1>2. ASSUME Shape, BegunHaveLinks, [Next]_vars
      PROVE  [\A r \in Registry, k \in Link : stopped[r] =>
                 /\ stopped'[r]
                 /\ stage'[k][r] = stage[k][r] \/ Nears(k, r) \/ LastHeartbeat(r, k)]_vars
  BY <1>1, <1>2
<1> QED BY <1>2, ShapeAlways, BegunAlways, PTL DEF Spec, StopOnlyDrains

=============================================================================
