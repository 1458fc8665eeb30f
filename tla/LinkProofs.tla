----------------------------- MODULE LinkProofs -----------------------------
(***************************************************************************)
(* The connection of Link, for any number of searches, DHT requests and    *)
(* heartbeats: its types, whose answer a search takes, what breaks it, and *)
(* who holds its lock.                                                     *)
(***************************************************************************)
EXTENDS Link, SequenceTheorems, TLAPS

\* A reader reads exactly in its phase "read", the read loop has an answer
\* exactly while it sends one, and the bytes are awaited by a reader of the node.
\* A goroutine between the two pieces of a message is writing.
ReadersRead == \A p \in Reader : reads[p] # None <=> phase[p] = "read"
LoopsAnswer ==
    \A n \in Node : /\ phase[n] \in {"read", "lock", "write", "failed"}
                    /\ answer[n] # None <=> phase[n] \in {"lock", "write"}
OwnReads == \A n \in Node : fd[n] # None => Home(fd[n]) = n
WritersWrite == \A p \in Proc : part[p] = "payload" => phase[p] = "write"

\* pc.mu is held by whoever writes, DHT requests excepted, and by a search until
\* it has read.
LockHeld ==
    \A p \in Proc \ Dht :
        phase[p] = "write" \/ (p \in Search /\ phase[p] = "read") => mu[Home(p)] = p

Shape == /\ Types /\ ReadersRead /\ LoopsAnswer /\ OwnReads
         /\ WritersWrite /\ LockHeld
-----------------------------------------------------------------------------
(* Whose answer *)

\* x is the request of search t, or the answer to it, once it is written.
Carries(x, t) == /\ x.part = "payload" /\ x.frame.kind \in {"search", "ack"}
                 /\ x.frame.id = t
OnWire(n, t) == \E i \in DOMAIN wire[n] : Carries(wire[n][i], t)
InHand(n, t) == answer[n] = [kind |-> "ack", id |-> t]

\* The exchange of t has not come to its end.
Outstanding(t) == \E n \in Node : OnWire(n, t) \/ InHand(n, t)

\* A request is on its way from its node, an answer on its way back.
OnTheirWay ==
    \A n \in Node, t \in Search :
        /\ InHand(n, t) => At[t] # n
        /\ \A i \in DOMAIN wire[n] : Carries(wire[n][i], t) =>
             (wire[n][i].frame.kind = "ack" <=> At[t] = n)

\* A request is in one place only.
OnePlace ==
    \A t \in Search : \A n, m \in Node :
        /\ \A i \in DOMAIN wire[n], j \in DOMAIN wire[m] :
             Carries(wire[n][i], t) /\ Carries(wire[m][j], t) => n = m /\ i = j
        /\ ~(OnWire(n, t) /\ InHand(m, t))

\* An exchange that has not ended was given up, or still is waited for.
OutstandingFor ==
    \A t \in Search : Outstanding(t) =>
        \/ phase[t] \in {"read", "failed"}
        \/ phase[t] = "done" /\ got[t] \notin {None, t}

\* A read loop sends no request.
LoopsReply == \A n \in Node : answer[n] # None => answer[n].kind # "search"

AnswersInv == LoopsReply /\ OnTheirWay /\ OnePlace /\ OutstandingFor /\ AnswersMatch
-----------------------------------------------------------------------------
(* What breaks the connection *)

Follows(x, y) == IF x.part = "length" THEN y.part = "payload" /\ y.frame = x.frame
                 ELSE y.part = "length"

Reading(p, n) == Home(p) = n /\ reads[p] # None
Between(p, n) == Home(p) = n /\ part[p] = "payload"

\* One goroutine of a node reads, and one is between the pieces of its message.
OneReader == \A n \in Node : \A p, q \in Reader : Reading(p, n) /\ Reading(q, n) => p = q
OneWriter == \A n \in Node : \A p, q \in Proc : Between(p, n) /\ Between(q, n) => p = q

\* Lengths and payloads alternate on the wire to n, from the piece that is read
\* next to the one that is written next.
Alternate(n) ==
    \A i \in 1..(Len(wire[n]) - 1) : Follows(wire[n][i], wire[n][i + 1])
NextFits(n) ==
    wire[n] # << >> =>
        /\ \A p \in Reader : Reading(p, n) => Fits(p, wire[n][1])
        /\ (\A p \in Reader : ~Reading(p, n)) => wire[n][1].part = "length"
LastIsWritten(n) ==
    IF wire[n] # << >>
    THEN wire[n][Len(wire[n])].part = "length" =>
           \E p \in Proc : Between(p, Other(n)) /\ Message(p) = wire[n][Len(wire[n])].frame
    ELSE \A q \in Reader : Reading(q, n) /\ reads[q].part = "payload" =>
           \E p \in Proc : Between(p, Other(n)) /\ Message(p) = reads[q].frame
WriterIsLast(n) ==
    \A p \in Proc : Between(p, Other(n)) =>
        IF wire[n] # << >>
        THEN /\ wire[n][Len(wire[n])].part = "length"
             /\ wire[n][Len(wire[n])].frame = Message(p)
        ELSE \E q \in Reader : /\ Reading(q, n)
                               /\ reads[q].part = "payload" /\ reads[q].frame = Message(p)

AlignedAt(n) == Alternate(n) /\ NextFits(n) /\ LastIsWritten(n) /\ WriterIsLast(n)
Aligned == OneReader /\ OneWriter /\ \A n \in Node : AlignedAt(n)

\* A deadline that passes is blamed; otherwise nothing is amiss.
BlameInv == /\ \A n \in Node : late[n] => "timeout" \in blame
            /\ blame = {} => open /\ Aligned
-----------------------------------------------------------------------------
(* Constants and frames *)

\* The connection has two ends.
LEMMA Ends ==
    /\ \A n \in Node : Other(n) \in Node /\ Other(n) # n
    /\ \A m, n \in Node : m # n => m = Other(n)
    /\ \A n \in Node : Other(Other(n)) = n
    /\ \A p \in Proc : Home(p) \in Node
    /\ \A n \in Node : Home(n) = n
    /\ \A s \in Search : Home(s) = At[s]
<1>1. PICK a, b \in Node : a # b /\ Node = {a, b}
  BY LinkAssumption
<1>2. ASSUME NEW n \in Node PROVE Other(n) \in Node /\ Other(n) # n
  <2>1. \E m \in Node : m # n
    BY <1>1
  <2> QED BY <2>1 DEF Other
<1>3. ASSUME NEW p \in Proc PROVE Home(p) \in Node
  BY LinkAssumption DEF Home, Proc
<1>4. \A s \in Search : Home(s) = At[s]
  BY LinkAssumption DEF Home
<1>5. \A n \in Node : Home(n) = n
  BY DEF Home
<1>6. ASSUME NEW m \in Node, NEW n \in Node, m # n PROVE m = Other(n)
  BY <1>1, <1>2, <1>6
<1>7. ASSUME NEW n \in Node PROVE Other(Other(n)) = n
  BY <1>2, <1>6
<1> QED BY <1>2, <1>3, <1>4, <1>5, <1>6, <1>7

\* Goroutines of different kinds are different.
LEMMA Kinds ==
    /\ \A p \in Proc : p # None
    /\ \A p \in Node : p \notin Search /\ p \notin Dht /\ p \notin Beat
    /\ \A p \in Search : p \notin Node /\ p \notin Dht /\ p \notin Beat
    /\ \A p \in Dht : p \notin Node /\ p \notin Search /\ p \notin Beat
    /\ \A p \in Beat : p \notin Node /\ p \notin Search /\ p \notin Dht
    /\ Node \subseteq Reader /\ Search \subseteq Reader /\ Reader \subseteq Proc
    /\ Node \subseteq Proc /\ Search \subseteq Proc /\ Dht \subseteq Proc /\ Beat \subseteq Proc
    /\ \A p \in Reader : p \in Node \/ p \in Search
    /\ \A p \in Proc : p \in Node \/ p \in Search \/ p \in Dht \/ p \in Beat
  BY LinkAssumption DEF Proc, Reader

\* Frames and what a reader expects are not the absence of one.
LEMMA Frames ==
    /\ \A f \in Frame : /\ f # None
                        /\ f.kind \in {"beat", "search", "ack", "dht", "reply"}
                        /\ f.kind \in {"search", "ack"} => f.id \in Search
                        /\ f.kind \in {"dht", "reply"} => f.id \in Dht
    /\ \A x \in Expected : x # None /\ x.part \in {"length", "payload"}
    /\ \A x \in Expected : x.part = "payload" => x \in Piece
    /\ \A t \in Search : [kind |-> "search", id |-> t] \in Frame /\ [kind |-> "ack", id |-> t] \in Frame
    /\ \A q \in Dht : [kind |-> "dht", id |-> q] \in Frame /\ [kind |-> "reply", id |-> q] \in Frame
    /\ [kind |-> "beat", id |-> None] \in Frame
    /\ [part |-> "length"] \in Expected
    /\ Piece \subseteq Expected
    /\ \A x \in Piece : /\ x.frame \in Frame /\ x.part \in {"length", "payload"}
                        /\ [x EXCEPT !.part = "payload"] \in Piece
                        /\ [x EXCEPT !.part = "payload"].part = "payload"
                        /\ [x EXCEPT !.part = "payload"].frame = x.frame
<1>1. None \notin Frame /\ None \notin Expected
  BY LinkAssumption
<1>2. \A f \in Frame : /\ f.kind \in {"beat", "search", "ack", "dht", "reply"}
                       /\ f.kind \in {"search", "ack"} => f.id \in Search
                       /\ f.kind \in {"dht", "reply"} => f.id \in Dht
  BY DEF Frame
<1>3. \A x \in Expected : x.part \in {"length", "payload"} /\ (x.part = "payload" => x \in Piece)
  BY DEF Expected, Piece
<1>4. /\ \A t \in Search : [kind |-> "search", id |-> t] \in Frame /\ [kind |-> "ack", id |-> t] \in Frame
      /\ \A q \in Dht : [kind |-> "dht", id |-> q] \in Frame /\ [kind |-> "reply", id |-> q] \in Frame
      /\ [kind |-> "beat", id |-> None] \in Frame
  BY DEF Frame
<1>5. [part |-> "length"] \in Expected /\ Piece \subseteq Expected
  BY DEF Expected
<1>6. ASSUME NEW x \in Piece
      PROVE  /\ x.frame \in Frame /\ x.part \in {"length", "payload"}
             /\ [x EXCEPT !.part = "payload"] \in Piece
             /\ [x EXCEPT !.part = "payload"].part = "payload"
             /\ [x EXCEPT !.part = "payload"].frame = x.frame
  BY DEF Piece
<1> QED BY <1>1, <1>2, <1>3, <1>4, <1>5, <1>6

\* What a goroutine sends is a frame.
LEMMA MessageIsFrame ==
    ASSUME Shape, NEW p \in Proc, phase[p] = "write"
    PROVE  Message(p) \in Frame
<1>1. CASE p \in Node
  <2>1. answer[p] \in Opt(Frame) /\ answer[p] # None
    BY <1>1 DEF Shape, Types, LoopsAnswer
  <2> QED BY <1>1, <2>1, Kinds DEF Message, Opt
<1>2. CASE p \in Search
  BY <1>2, Kinds, Frames DEF Message
<1>3. CASE p \in Dht
  BY <1>3, Kinds, Frames DEF Message
<1>4. CASE p \in Beat
  BY <1>4, Kinds, Frames DEF Message
<1> QED BY <1>1, <1>2, <1>3, <1>4, Kinds
-----------------------------------------------------------------------------
(* Shape *)

\* The initial state.
LEMMA ShapeStarts == Init => Shape
<1> SUFFICES ASSUME Init PROVE Shape
  OBVIOUS
<1>1. PICK S \in Scenarios :
        phase = [p \in Proc |-> CASE p \in Node -> "read" [] p \in S -> "idle" [] OTHER -> "done"]
  BY DEF Init
<1>2. \A p \in Node : p \notin S
  BY LinkAssumption
<1>3. \A p \in Proc : /\ phase[p] \in {"read", "idle", "done"}
                      /\ phase[p] = "read" <=> p \in Node
  BY <1>1, <1>2
<1>4. phase \in [Proc -> Phase]
  BY <1>1, <1>3 DEF Phase
<1>5. reads \in [Reader -> Opt(Expected)] /\ \A p \in Reader : reads[p] # None <=> p \in Node
  BY Frames DEF Init, Opt
<1>6. ReadersRead
  BY <1>3, <1>5, Kinds DEF ReadersRead
<1>7. wire \in [Node -> Seq(Piece)]
  BY DEF Init
<1>8. Types
  BY <1>4, <1>5, <1>7 DEF Init, Types, Opt
<1>9. LoopsAnswer /\ OwnReads /\ WritersWrite
  BY <1>3, Kinds DEF Init, LoopsAnswer, OwnReads, WritersWrite
<1>10. LockHeld
  BY <1>3, Kinds DEF LockHeld
<1> QED BY <1>6, <1>8, <1>9, <1>10 DEF Shape

\* A goroutine starts to write, or to wait for the lock.
LEMMA BeginShape == ASSUME Shape, NEW p \in Proc, Begin(p) PROVE Shape'
<1> USE DEF Begin
<1>1. p \notin Node
  BY Kinds DEF Shape, LoopsAnswer
<1>2. Types'
  BY DEF Shape, Types, Phase
<1>3. \A q \in Proc : q # p => phase'[q] = phase[q]
  BY DEF Shape, Types
<1>4. phase'[p] = IF p \in Dht THEN "write" ELSE "lock"
  BY DEF Shape, Types
<1>5. ReadersRead'
  BY <1>3, <1>4, Kinds DEF Shape, ReadersRead
<1>6. LoopsAnswer'
  BY <1>1, <1>3, Kinds DEF Shape, LoopsAnswer
<1>7. OwnReads' /\ WritersWrite'
  BY <1>3, <1>4 DEF Shape, OwnReads, WritersWrite, Home
<1>8. LockHeld'
  BY <1>3, <1>4 DEF Shape, LockHeld, Home
<1> QED BY <1>2, <1>5, <1>6, <1>7, <1>8 DEF Shape

\* A goroutine takes pc.mu.
LEMMA LockShape == ASSUME Shape, NEW p \in Proc, Lock(p) PROVE Shape'
<1> USE DEF Lock
<1>1. Home(p) \in Node
  BY Ends
<1>2. Types'
  BY <1>1 DEF Shape, Types, Phase, Opt
<1>3. \A q \in Proc : q # p => phase'[q] = phase[q]
  BY DEF Shape, Types
<1>4. phase'[p] = "write" /\ phase[p] = "lock"
  BY DEF Shape, Types
<1>5. \A n \in Node : mu'[n] = IF n = Home(p) THEN p ELSE mu[n]
  BY DEF Shape, Types
<1>6. ReadersRead'
  BY <1>3, <1>4, Kinds DEF Shape, ReadersRead
<1>7. LoopsAnswer'
  BY <1>3, <1>4, Kinds DEF Shape, LoopsAnswer
<1>8. OwnReads' /\ WritersWrite'
  BY <1>3, <1>4 DEF Shape, OwnReads, WritersWrite, Home
<1>9. ASSUME NEW q \in Proc \ Dht, phase'[q] = "write" \/ (q \in Search /\ phase'[q] = "read")
      PROVE  mu'[Home(q)] = q
  <2>1. CASE q = p
    BY <1>1, <1>5, <2>1
  <2>2. CASE q # p
    <3>1. mu[Home(q)] = q /\ Home(q) \in Node /\ q # None
      BY <1>3, <1>9, <2>2, Ends, Kinds DEF Shape, LockHeld
    <3> QED BY <1>5, <3>1
  <2> QED BY <2>1, <2>2
<1>10. LockHeld'
  BY <1>9 DEF LockHeld, Home
<1> QED BY <1>2, <1>6, <1>7, <1>8, <1>10 DEF Shape

\* Unlock gives the lock of p back, if p has it.
LEMMA ReleasedKeeps ==
    ASSUME Shape, NEW p \in Proc
    PROVE  /\ Released(p) \in [Node -> Opt(Proc)]
           /\ \A n \in Node : mu[n] # p => Released(p)[n] = mu[n]
  BY Ends DEF Shape, Types, Released, Opt

\* A step in which only p goes to another phase, and may leave pc.mu.
LEMMA LockHeldAfter ==
    ASSUME Shape, NEW p \in Proc,
           \A q \in Proc : q # p => phase'[q] \in {phase[q], "done", "failed"},
           \/ mu' = mu
           \/ /\ mu' = Released(p)
              /\ p \in Dht \/ (phase'[p] # "write" /\ (p \in Search => phase'[p] # "read")),
           p \notin Dht /\ (phase'[p] = "write" \/ (p \in Search /\ phase'[p] = "read"))
              => phase[p] = "write" \/ (p \in Search /\ phase[p] = "read")
    PROVE  LockHeld'
<1> SUFFICES ASSUME NEW q \in Proc \ Dht, phase'[q] = "write" \/ (q \in Search /\ phase'[q] = "read")
             PROVE  mu'[Home(q)] = q
  BY DEF LockHeld, Home
<1>1. mu[Home(q)] = q
  BY DEF Shape, LockHeld
<1>2. Home(q) \in Node
  BY Ends
<1>3. CASE mu' = mu
  BY <1>1, <1>3
<1>4. CASE mu' # mu
  BY <1>1, <1>2, <1>4, ReleasedKeeps
<1> QED BY <1>3, <1>4

\* Appending a piece to a wire.
LEMMA AppendPiece ==
    ASSUME NEW w \in Seq(Piece), NEW x \in Piece
    PROVE  /\ Append(w, x) \in Seq(Piece)
           /\ Len(Append(w, x)) = Len(w) + 1
           /\ Append(w, x)[Len(w) + 1] = x
           /\ \A i \in 1..Len(w) : Append(w, x)[i] = w[i]
  OBVIOUS

\* What is written when p writes a piece.
Wrote(p) ==
    /\ open /\ phase[p] = "write" /\ open' = open /\ fd' = fd /\ got' = got
    /\ Other(Home(p)) \in Node
    /\ [frame |-> Message(p), part |-> part[p]] \in Piece
    /\ wire' \in [Node -> Seq(Piece)]
    /\ wire'[Other(Home(p))] =
         Append(wire[Other(Home(p))], [frame |-> Message(p), part |-> part[p]])
    /\ \A n \in Node : n # Other(Home(p)) => wire'[n] = wire[n]
    /\ blame' \in SUBSET {"timeout", "reader", "writer", "network"}

\* Wrote says what WritePiece does to the wire.
LEMMA WriteFacts ==
    ASSUME Shape, NEW p \in Proc, WritePiece(p)
    PROVE  Wrote(p)
<1>1. Home(p) \in Node /\ Other(Home(p)) \in Node
  BY Ends
<1>2. open /\ phase[p] = "write" /\ open' = open /\ fd' = fd /\ got' = got
  BY DEF WritePiece
<1>3. wire \in [Node -> Seq(Piece)] /\ part[p] \in {"length", "payload"}
  BY DEF Shape, Types
<1>4. PICK x : x = [frame |-> Message(p), part |-> part[p]]
  OBVIOUS
<1>5. x \in Piece
  BY <1>2, <1>3, <1>4, MessageIsFrame DEF Piece
<1>6. wire' = [wire EXCEPT ![Other(Home(p))] = Append(@, x)]
  BY <1>4 DEF WritePiece
<1>7. Append(wire[Other(Home(p))], x) \in Seq(Piece)
  BY <1>1, <1>3, <1>5, AppendPiece
<1>8. /\ wire' \in [Node -> Seq(Piece)]
      /\ wire'[Other(Home(p))] = Append(wire[Other(Home(p))], x)
      /\ \A n \in Node : n # Other(Home(p)) => wire'[n] = wire[n]
  BY <1>1, <1>3, <1>6, <1>7
<1>9. blame' \in SUBSET {"timeout", "reader", "writer", "network"}
  BY DEF WritePiece, Shape, Types
<1> QED BY <1>1, <1>2, <1>4, <1>5, <1>8, <1>9 DEF Wrote

\* What changes besides when p writes the length of its message.
WroteLength(p) ==
    /\ part' \in [Proc -> {"length", "payload"}] /\ part'[p] = "payload"
    /\ \A q \in Proc : q # p => part'[q] = part[q]
    /\ mu' = mu /\ phase' = phase /\ answer' = answer /\ reads' = reads /\ late' = late

\* WroteLength says what WritePiece of a length does.
LEMMA LengthFacts ==
    ASSUME Shape, NEW p \in Proc, WritePiece(p), part[p] = "length"
    PROVE  WroteLength(p)
  BY DEF WritePiece, Shape, Types, WroteLength

\* What changes besides when p writes the payload.
WrotePayload(p) ==
    /\ part' \in [Proc -> {"length", "payload"}] /\ part'[p] = "length"
    /\ \A q \in Proc : q # p => part'[q] = part[q]
    /\ mu' = IF p \in Search THEN mu ELSE Released(p)
    /\ phase' \in [Proc -> Phase] /\ phase'[p] = AfterWrite(p)
    /\ \A q \in Proc : q # p => phase'[q] = phase[q]
    /\ answer' \in [Node -> Opt(Frame)]
    /\ p \in Node => answer'[p] = None
    /\ \A n \in Node : n # p => answer'[n] = answer[n]
    /\ reads' \in [Reader -> Opt(Expected)]
    /\ p \in Reader => reads'[p] = [part |-> "length"]
    /\ \A q \in Reader : q # p => reads'[q] = reads[q]
    /\ late' \in [Node -> BOOLEAN]
    /\ \A n \in Node : late'[n] => late[n]

\* WrotePayload says what WritePiece of a payload does.
LEMMA PayloadFacts ==
    ASSUME Shape, NEW p \in Proc, WritePiece(p), part[p] = "payload"
    PROVE  WrotePayload(p)
<1> USE DEF WritePiece
<1>1. /\ part' = [part EXCEPT ![p] = "length"]
      /\ mu' = AfterMessage(p)
      /\ phase' = [phase EXCEPT ![p] = AfterWrite(p)]
      /\ answer' = IF p \in Node THEN [answer EXCEPT ![p] = None] ELSE answer
      /\ reads' = IF p \in Reader THEN ReadsNext(p) ELSE reads
      /\ late' = IF p \in Reader THEN Undue(p) ELSE late
  OBVIOUS
<1>2. AfterWrite(p) \in Phase
  BY Kinds DEF AfterWrite, Phase
<1>3. /\ part' \in [Proc -> {"length", "payload"}] /\ part'[p] = "length"
      /\ \A q \in Proc : q # p => part'[q] = part[q]
  BY <1>1 DEF Shape, Types
<1>4. /\ phase' \in [Proc -> Phase] /\ phase'[p] = AfterWrite(p)
      /\ \A q \in Proc : q # p => phase'[q] = phase[q]
  BY <1>1, <1>2 DEF Shape, Types
<1>5. /\ answer' \in [Node -> Opt(Frame)]
      /\ p \in Node => answer'[p] = None
      /\ \A n \in Node : n # p => answer'[n] = answer[n]
  BY <1>1 DEF Shape, Types, Opt
<1>6. /\ reads' \in [Reader -> Opt(Expected)]
      /\ p \in Reader => reads'[p] = [part |-> "length"]
      /\ \A q \in Reader : q # p => reads'[q] = reads[q]
  BY <1>1, Frames DEF Shape, Types, Opt, ReadsNext
<1>7. /\ late' \in [Node -> BOOLEAN]
      /\ \A n \in Node : late'[n] => late[n]
  BY <1>1, Ends DEF Shape, Types, Undue
<1>8. mu' = IF p \in Search THEN mu ELSE Released(p)
  BY <1>1 DEF AfterMessage
<1> QED BY <1>3, <1>4, <1>5, <1>6, <1>7, <1>8 DEF WrotePayload

\* Writing a piece.
LEMMA WriteShape == ASSUME Shape, NEW p \in Proc, WritePiece(p) PROVE Shape'
<1>w. Wrote(p)
  BY WriteFacts
<1>0. phase[p] = "write" /\ part[p] \in {"length", "payload"}
  BY <1>w DEF Wrote, Shape, Types
<1>1. CASE part[p] = "length"
  <2>0. WroteLength(p)
    BY <1>1, LengthFacts
  <2>1. Types'
    BY <1>w, <2>0 DEF Wrote, WroteLength, Shape, Types
  <2>2. ReadersRead' /\ LoopsAnswer' /\ OwnReads' /\ LockHeld'
    BY <1>w, <2>0 DEF Wrote, WroteLength, Shape, ReadersRead, LoopsAnswer, OwnReads, LockHeld, Home
  <2>3. WritersWrite'
    BY <1>w, <2>0 DEF Wrote, WroteLength, Shape, WritersWrite
  <2> QED BY <2>1, <2>2, <2>3 DEF Shape
<1>2. CASE part[p] = "payload"
  <2>0. WrotePayload(p)
    BY <1>2, PayloadFacts
  <2>r. Released(p) \in [Node -> Opt(Proc)]
    BY ReleasedKeeps
  <2>1. mu' \in [Node -> Opt(Proc)]
    BY <2>0, <2>r DEF WrotePayload, Shape, Types
  <2>2. \A n \in Node : fd[n] # None => reads'[fd[n]] # None
    <3> SUFFICES ASSUME NEW n \in Node, fd[n] # None PROVE reads'[fd[n]] # None
      OBVIOUS
    <3>1. fd[n] \in Reader /\ reads[fd[n]] # None
      BY DEF Shape, Types, Opt
    <3>2. phase[fd[n]] = "read"
      BY <3>1 DEF Shape, ReadersRead
    <3> QED BY <1>0, <2>0, <3>1, <3>2 DEF WrotePayload
  <2>3. Types'
    BY <1>w, <2>0, <2>1, <2>2 DEF Wrote, WrotePayload, Shape, Types
  <2>4. p \in Reader => AfterWrite(p) = "read"
    BY Kinds DEF AfterWrite
  <2>5. ReadersRead'
    BY <2>0, <2>4, Frames, Kinds DEF WrotePayload, Shape, ReadersRead
  <2>6. LoopsAnswer'
    BY <2>0, <2>4, Kinds DEF WrotePayload, Shape, LoopsAnswer
  <2>7. OwnReads'
    BY <1>w DEF Wrote, Shape, OwnReads, Home
  <2>8. WritersWrite'
    BY <2>0 DEF WrotePayload, Shape, WritersWrite
  <2>9. LockHeld'
    <3>1. AfterWrite(p) # "write" /\ (p \notin Search => p \in Dht \/ AfterWrite(p) # "write")
      BY Kinds DEF AfterWrite
    <3>2. \A q \in Proc : q # p => phase'[q] \in {phase[q], "done", "failed"}
      BY <2>0 DEF WrotePayload
    <3>3. \/ mu' = mu
          \/ /\ mu' = Released(p)
             /\ p \in Dht \/ (phase'[p] # "write" /\ (p \in Search => phase'[p] # "read"))
      BY <2>0, <3>1 DEF WrotePayload
    <3> QED BY <1>0, <3>2, <3>3, LockHeldAfter
  <2> QED BY <2>3, <2>5, <2>6, <2>7, <2>8, <2>9 DEF Shape
<1> QED BY <1>0, <1>1, <1>2

\* What changes when p fails to write.
FailedWrite(p) ==
    /\ open /\ phase[p] = "write" /\ open' = open /\ fd' = fd /\ got' = got /\ wire' = wire
    /\ part' \in [Proc -> {"length", "payload"}] /\ part'[p] = "length"
    /\ \A q \in Proc : q # p => part'[q] = part[q]
    /\ mu' = Released(p)
    /\ phase' \in [Proc -> Phase] /\ phase'[p] = IF p \in Node THEN "read" ELSE "failed"
    /\ \A q \in Proc : q # p => phase'[q] = phase[q]
    /\ answer' \in [Node -> Opt(Frame)]
    /\ p \in Node => answer'[p] = None
    /\ \A n \in Node : n # p => answer'[n] = answer[n]
    /\ reads' \in [Reader -> Opt(Expected)]
    /\ p \in Node => reads'[p] = [part |-> "length"]
    /\ \A q \in Reader : q # p \/ p \notin Node => reads'[q] = reads[q]
    /\ late' \in [Node -> BOOLEAN]
    /\ \A n \in Node : late'[n] => late[n]
    /\ blame' = blame \cup {"timeout"}

\* FailedWrite says what WriteFails does.
LEMMA FailFacts ==
    ASSUME Shape, NEW p \in Proc, WriteFails(p)
    PROVE  FailedWrite(p)
<1>1. /\ open /\ phase[p] = "write" /\ open' = open /\ fd' = fd /\ got' = got /\ wire' = wire
      /\ part' = [part EXCEPT ![p] = "length"]
      /\ mu' = Released(p)
      /\ phase' = [phase EXCEPT ![p] = IF p \in Node THEN "read" ELSE "failed"]
      /\ answer' = IF p \in Node THEN [answer EXCEPT ![p] = None] ELSE answer
      /\ reads' = IF p \in Node THEN ReadsNext(p) ELSE reads
      /\ late' = IF p \in Node THEN Undue(p) ELSE late
      /\ blame' = blame \cup {"timeout"}
  BY DEF WriteFails
<1>2. /\ part' \in [Proc -> {"length", "payload"}] /\ part'[p] = "length"
      /\ \A q \in Proc : q # p => part'[q] = part[q]
  BY <1>1 DEF Shape, Types
<1>3. /\ phase' \in [Proc -> Phase] /\ phase'[p] = IF p \in Node THEN "read" ELSE "failed"
      /\ \A q \in Proc : q # p => phase'[q] = phase[q]
  BY <1>1 DEF Shape, Types, Phase
<1>4. /\ answer' \in [Node -> Opt(Frame)]
      /\ p \in Node => answer'[p] = None
      /\ \A n \in Node : n # p => answer'[n] = answer[n]
  BY <1>1 DEF Shape, Types, Opt
<1>5. /\ reads' \in [Reader -> Opt(Expected)]
      /\ p \in Node => reads'[p] = [part |-> "length"]
      /\ \A q \in Reader : q # p \/ p \notin Node => reads'[q] = reads[q]
  BY <1>1, Frames, Kinds DEF Shape, Types, Opt, ReadsNext
<1>6. /\ late' \in [Node -> BOOLEAN]
      /\ \A n \in Node : late'[n] => late[n]
  BY <1>1, Ends DEF Shape, Types, Undue
<1> QED BY <1>1, <1>2, <1>3, <1>4, <1>5, <1>6 DEF FailedWrite

\* A write fails.
LEMMA FailShape == ASSUME Shape, NEW p \in Proc, WriteFails(p) PROVE Shape'
<1>0. FailedWrite(p)
  BY FailFacts
<1>1. mu' \in [Node -> Opt(Proc)]
  BY <1>0, ReleasedKeeps DEF FailedWrite
<1>2. \A n \in Node : fd[n] # None => reads'[fd[n]] # None
  <2> SUFFICES ASSUME NEW n \in Node, fd[n] # None PROVE reads'[fd[n]] # None
    OBVIOUS
  <2>1. fd[n] \in Reader /\ reads[fd[n]] # None
    BY DEF Shape, Types, Opt
  <2>2. phase[fd[n]] = "read"
    BY <2>1 DEF Shape, ReadersRead
  <2> QED BY <1>0, <2>1, <2>2 DEF FailedWrite
<1>3. Types'
  BY <1>0, <1>1, <1>2 DEF FailedWrite, Shape, Types
<1>4. ReadersRead'
  BY <1>0, Frames, Kinds DEF FailedWrite, Shape, ReadersRead
<1>5. LoopsAnswer'
  BY <1>0, Kinds DEF FailedWrite, Shape, LoopsAnswer
<1>6. OwnReads'
  BY <1>0 DEF FailedWrite, Shape, OwnReads, Home
<1>7. WritersWrite'
  BY <1>0 DEF FailedWrite, Shape, WritersWrite
<1>8. LockHeld'
  <2>1. \A q \in Proc : q # p => phase'[q] \in {phase[q], "done", "failed"}
    BY <1>0 DEF FailedWrite
  <2>2. mu' = Released(p) /\ phase'[p] # "write" /\ (p \in Search => phase'[p] # "read")
    BY <1>0, Kinds DEF FailedWrite
  <2> QED BY <2>1, <2>2, LockHeldAfter
<1> QED BY <1>3, <1>4, <1>5, <1>6, <1>7, <1>8 DEF Shape

\* A DHT request gives up.
LEMMA TimeoutShape == ASSUME Shape, NEW q \in Dht, DhtTimeout(q) PROVE Shape'
<1>1. /\ phase' \in [Proc -> Phase] /\ phase'[q] = "failed" /\ phase[q] = "wait"
      /\ \A r \in Proc : r # q => phase'[r] = phase[r]
  BY Kinds DEF DhtTimeout, Shape, Types, Phase
<1>2. UNCHANGED <<open, wire, mu, fd, late, part, answer, reads, got, blame>>
  BY DEF DhtTimeout
<1>3. Types'
  BY <1>1, <1>2 DEF Shape, Types
<1>4. ReadersRead' /\ LoopsAnswer'
  BY <1>1, <1>2, Kinds DEF Shape, ReadersRead, LoopsAnswer
<1>5. OwnReads' /\ WritersWrite'
  BY <1>1, <1>2 DEF Shape, OwnReads, WritersWrite, Home
<1>6. LockHeld'
  BY <1>1, <1>2, Kinds DEF Shape, LockHeld, Home
<1> QED BY <1>3, <1>4, <1>5, <1>6 DEF Shape

\* A reader gets to wait for bytes.
LEMMA AcquireShape == ASSUME Shape, NEW p \in Reader, AcquireRead(p) PROVE Shape'
<1>1. Home(p) \in Node /\ reads[p] # None
  BY Ends, Kinds DEF AcquireRead
<1>2. /\ fd' \in [Node -> Opt(Reader)] /\ fd'[Home(p)] = p
      /\ \A n \in Node : n # Home(p) => fd'[n] = fd[n]
  BY <1>1 DEF AcquireRead, Shape, Types, Opt
<1>3. UNCHANGED <<open, wire, mu, late, phase, part, answer, reads, got, blame>>
  BY DEF AcquireRead
<1>4. Types'
  BY <1>1, <1>2, <1>3 DEF Shape, Types
<1>5. OwnReads'
  <2> SUFFICES ASSUME NEW n \in Node, fd'[n] # None PROVE Home(fd'[n]) = n
    BY DEF OwnReads, Home
  <2> QED BY <1>2 DEF Shape, OwnReads
<1>6. ReadersRead' /\ LoopsAnswer' /\ WritersWrite' /\ LockHeld'
  BY <1>3 DEF Shape, ReadersRead, LoopsAnswer, WritersWrite, LockHeld, Home
<1> QED BY <1>4, <1>5, <1>6 DEF Shape

\* The deadline passes.
LEMMA DeadlineShape == ASSUME Shape, NEW n \in Node, DeadlinePasses(n) PROVE Shape'
<1>1. UNCHANGED <<open, wire, mu, fd, phase, part, answer, reads, got>>
  BY DEF DeadlinePasses
<1>2. /\ late' \in [Node -> BOOLEAN]
      /\ blame' \in SUBSET {"timeout", "reader", "writer", "network"}
  BY DEF DeadlinePasses, Shape, Types
<1>3. Types'
  BY <1>1, <1>2 DEF Shape, Types
<1>4. ReadersRead' /\ LoopsAnswer' /\ OwnReads' /\ WritersWrite' /\ LockHeld'
  BY <1>1 DEF Shape, ReadersRead, LoopsAnswer, OwnReads, WritersWrite, LockHeld, Home
<1> QED BY <1>3, <1>4 DEF Shape

\* The connection is closed.
LEMMA CloseShape ==
    ASSUME Shape, Close, blame' \in SUBSET {"timeout", "reader", "writer", "network"}
    PROVE  Shape'
<1>1. \A p \in Proc : /\ phase'[p] \notin {"lock", "write", "read", "wait"}
                      /\ phase[p] \in {"lock", "write", "read", "wait"} => phase'[p] = "failed"
                      /\ phase[p] = "failed" => phase'[p] = "failed"
  BY DEF Close
<1>2. phase' \in [Proc -> Phase]
  BY DEF Close, Shape, Types, Phase
<1>3. wire' \in [Node -> Seq(Piece)]
  BY DEF Close
<1>4. Types'
  BY <1>2, <1>3 DEF Close, Shape, Types, Opt
<1>5. ReadersRead'
  BY <1>1, Kinds DEF Close, ReadersRead
<1>6. LoopsAnswer'
  BY <1>1, Kinds DEF Close, Shape, LoopsAnswer
<1>7. OwnReads' /\ WritersWrite'
  BY DEF Close, OwnReads, WritersWrite
<1>8. LockHeld'
  BY <1>1 DEF LockHeld
<1> QED BY <1>4, <1>5, <1>6, <1>7, <1>8 DEF Shape

\* A search that reads gives up: what is left on its wire is rest.
GaveUp(p, rest) ==
    /\ phase[p] = "read" /\ reads' \in [Reader -> Opt(Expected)] /\ reads'[p] = None
    /\ \A q \in Reader : q # p => reads'[q] = reads[q]
    /\ fd' \in [Node -> Opt(Reader)]
    /\ \A n \in Node : fd'[n] = IF fd[n] = p THEN None ELSE fd[n]
    /\ phase' \in [Proc -> Phase] /\ phase'[p] = "failed"
    /\ \A q \in Proc : q # p => phase'[q] = phase[q]
    /\ mu' = Released(p)
    /\ wire' \in [Node -> Seq(Piece)] /\ wire'[Home(p)] = rest
    /\ \A n \in Node : n # Home(p) => wire'[n] = wire[n]
    /\ UNCHANGED <<open, part, answer, got, late, blame>>

\* GaveUp says what ReadError does to a search.
LEMMA GiveUpFacts ==
    ASSUME Shape, NEW p \in Search, reads[p] # None, NEW rest \in Seq(Piece), ReadError(p, rest)
    PROVE  GaveUp(p, rest)
<1>1. p \in Proc /\ p \in Reader /\ p \notin Node /\ Home(p) \in Node
  BY Kinds, Ends
<1>2. /\ reads' = [reads EXCEPT ![p] = None]
      /\ fd' = [fd EXCEPT ![Home(p)] = IF @ = p THEN None ELSE @]
      /\ phase' = [phase EXCEPT ![p] = "failed"]
      /\ mu' = Released(p)
      /\ wire' = [wire EXCEPT ![Home(p)] = rest]
      /\ UNCHANGED <<open, part, answer, got, late, blame>>
  BY <1>1 DEF ReadError
<1>3. phase[p] = "read"
  BY <1>1 DEF Shape, ReadersRead
<1>4. /\ reads' \in [Reader -> Opt(Expected)] /\ reads'[p] = None
      /\ \A q \in Reader : q # p => reads'[q] = reads[q]
  BY <1>1, <1>2 DEF Shape, Types, Opt
<1>5. /\ phase' \in [Proc -> Phase] /\ phase'[p] = "failed"
      /\ \A q \in Proc : q # p => phase'[q] = phase[q]
  BY <1>1, <1>2 DEF Shape, Types, Phase
<1>6. /\ wire' \in [Node -> Seq(Piece)] /\ wire'[Home(p)] = rest
      /\ \A n \in Node : n # Home(p) => wire'[n] = wire[n]
  BY <1>1, <1>2 DEF Shape, Types
<1>7. \A n \in Node : fd[n] = p => n = Home(p)
  BY <1>1, Kinds DEF Shape, OwnReads
<1>8. /\ fd' \in [Node -> Opt(Reader)]
      /\ \A n \in Node : fd'[n] = IF fd[n] = p THEN None ELSE fd[n]
  BY <1>1, <1>2, <1>7 DEF Shape, Types, Opt
<1> QED BY <1>2, <1>3, <1>4, <1>5, <1>6, <1>8 DEF GaveUp

\* A search ends with an error.
LEMMA GiveUpShape ==
    ASSUME Shape, NEW p \in Search, NEW rest, GaveUp(p, rest)
    PROVE  Shape'
<1>1. p \in Proc /\ p \in Reader /\ p \notin Node
  BY Kinds
<1>2. mu' \in [Node -> Opt(Proc)]
  BY <1>1, ReleasedKeeps DEF GaveUp
<1>3. Types'
  BY <1>1, <1>2 DEF GaveUp, Shape, Types, Opt
<1>4. ReadersRead'
  BY <1>1, Kinds DEF GaveUp, Shape, ReadersRead
<1>5. LoopsAnswer'
  BY <1>1, Kinds DEF GaveUp, Shape, LoopsAnswer
<1>6. OwnReads'
  <2> SUFFICES ASSUME NEW n \in Node, fd'[n] # None PROVE Home(fd'[n]) = n
    BY DEF OwnReads, Home
  <2> QED BY DEF GaveUp, Shape, OwnReads
<1>7. WritersWrite'
  BY <1>1 DEF GaveUp, Shape, WritersWrite
<1>8. LockHeld'
  <2>1. /\ \A q \in Proc : q # p => phase'[q] \in {phase[q], "done", "failed"}
        /\ mu' = Released(p) /\ phase'[p] = "failed"
    BY DEF GaveUp
  <2> QED BY <1>1, <2>1, LockHeldAfter
<1> QED BY <1>3, <1>4, <1>5, <1>6, <1>7, <1>8 DEF Shape

\* Taking the first piece off a wire.
LEMMA TailPiece ==
    ASSUME NEW w \in Seq(Piece), w # << >>
    PROVE  /\ Head(w) = w[1] /\ w[1] \in Piece /\ Len(w) \in Nat \ {0}
           /\ Tail(w) \in Seq(Piece) /\ Len(Tail(w)) = Len(w) - 1
           /\ \A i \in 1..(Len(w) - 1) : Tail(w)[i] = w[i + 1]
  OBVIOUS

\* Reader p takes the piece that it expects.
Popped(p) ==
    /\ open /\ fd[Home(p)] = p /\ ~late[Home(p)] /\ wire[Home(p)] # << >>
    /\ phase[p] = "read" /\ reads[p] # None
    /\ wire[Home(p)][1] \in Piece /\ Fits(p, wire[Home(p)][1])
    /\ wire' \in [Node -> Seq(Piece)] /\ wire'[Home(p)] = Tail(wire[Home(p)])
    /\ \A n \in Node : n # Home(p) => wire'[n] = wire[n]
    /\ fd' \in [Node -> Opt(Reader)] /\ fd'[Home(p)] = None
    /\ \A n \in Node : n # Home(p) => fd'[n] = fd[n]
    /\ UNCHANGED <<open, part, blame>>

\* It is a length.
ReceivedLength(p) ==
    /\ wire[Home(p)][1].part = "length"
    /\ reads' \in [Reader -> Opt(Expected)]
    /\ reads'[p] = [wire[Home(p)][1] EXCEPT !.part = "payload"]
    /\ \A q \in Reader : q # p => reads'[q] = reads[q]
    /\ UNCHANGED <<phase, answer, mu, got, late>>

\* It is a payload, for the read loop of n.
Dispatched(n, f) ==
    /\ wire[n][1].part = "payload" /\ wire[n][1].frame = f
    /\ answer' \in [Node -> Opt(Frame)] /\ answer'[n] = Answer(n, f)
    /\ \A m \in Node : m # n => answer'[m] = answer[m]
    /\ phase' \in [Proc -> Phase]
    /\ phase'[n] = IF answer'[n] = None THEN "read" ELSE "lock"
    /\ \A q \in Proc : \/ q = n
                       \/ phase'[q] = phase[q]
                       \/ q \in Dht /\ phase[q] = "wait" /\ phase'[q] = "done"
    /\ reads' \in [Reader -> Opt(Expected)]
    /\ reads'[n] = IF answer'[n] = None THEN [part |-> "length"] ELSE None
    /\ \A q \in Reader : q # n => reads'[q] = reads[q]
    /\ late' \in [Node -> BOOLEAN] /\ \A m \in Node : late'[m] => late[m]
    /\ UNCHANGED <<mu, got>>

\* It is a payload, for search s.
Completed(s, f) ==
    /\ wire[At[s]][1].part = "payload" /\ wire[At[s]][1].frame = f
    /\ phase' \in [Proc -> Phase]
    /\ phase'[s] = IF f.kind = "ack" THEN "done" ELSE "failed"
    /\ \A q \in Proc : q # s => phase'[q] = phase[q]
    /\ got' \in [Search -> Opt(Search)]
    /\ got'[s] = IF f.kind = "ack" THEN f.id ELSE None
    /\ \A t \in Search : t # s => got'[t] = got[t]
    /\ mu' = Released(s)
    /\ reads' \in [Reader -> Opt(Expected)] /\ reads'[s] = None
    /\ \A q \in Reader : q # s => reads'[q] = reads[q]
    /\ UNCHANGED <<answer, late>>

\* What the read loop answers with is a frame, or nothing.
LEMMA AnswerIsFrame == \A n \in Node, f \in Frame : Answer(n, f) \in Opt(Frame)
<1> TAKE n \in Node, f \in Frame
<1>1. CASE f.kind = "search"
  BY <1>1, Frames DEF Answer, Opt
<1>2. CASE f.kind = "dht"
  BY <1>2, Frames DEF Answer, Opt
<1>3. CASE f.kind = "reply"
  BY <1>3, Frames DEF Answer, Opt
<1>4. CASE f.kind \in {"beat", "ack"}
  BY <1>4, Frames DEF Answer, Opt
<1> QED BY <1>1, <1>2, <1>3, <1>4, Frames

\* Popped says what happens to the piece that fits.
LEMMA PopFacts ==
    ASSUME Shape, NEW p \in Reader, Receive(p), Fits(p, wire[Home(p)][1])
    PROVE  Popped(p)
<1>1. p \in Proc /\ Home(p) \in Node
  BY Kinds, Ends
<1>2. open /\ fd[Home(p)] = p /\ ~late[Home(p)] /\ wire[Home(p)] # << >>
  BY DEF Receive
<1>3. reads[p] # None /\ phase[p] = "read"
  BY <1>1, <1>2, Kinds DEF Shape, Types, ReadersRead
<1>4. wire[Home(p)] \in Seq(Piece)
  BY <1>1 DEF Shape, Types
<1>5. /\ Head(wire[Home(p)]) = wire[Home(p)][1] /\ wire[Home(p)][1] \in Piece
      /\ Tail(wire[Home(p)]) \in Seq(Piece)
  BY <1>2, <1>4, TailPiece
<1>6. /\ wire' = [wire EXCEPT ![Home(p)] = Tail(@)]
      /\ fd' = [fd EXCEPT ![Home(p)] = None]
      /\ UNCHANGED <<open, part, blame>>
  BY <1>5 DEF Receive
<1>7. /\ wire' \in [Node -> Seq(Piece)] /\ wire'[Home(p)] = Tail(wire[Home(p)])
      /\ \A n \in Node : n # Home(p) => wire'[n] = wire[n]
  BY <1>1, <1>5, <1>6 DEF Shape, Types
<1>8. /\ fd' \in [Node -> Opt(Reader)] /\ fd'[Home(p)] = None
      /\ \A n \in Node : n # Home(p) => fd'[n] = fd[n]
  BY <1>1, <1>6 DEF Shape, Types, Opt
<1> QED BY <1>2, <1>3, <1>5, <1>6, <1>7, <1>8 DEF Popped

\* ReceivedLength, Dispatched and Completed say what is done with it.
LEMMA LengthCase ==
    ASSUME Shape, NEW p \in Reader, Receive(p), Popped(p), wire[Home(p)][1].part = "length"
    PROVE  ReceivedLength(p)
<1>1. Home(p) \in Node /\ Head(wire[Home(p)]) = wire[Home(p)][1]
  BY Kinds, Ends, TailPiece DEF Shape, Types, Popped
<1>2. PICK y : y = [wire[Home(p)][1] EXCEPT !.part = "payload"]
  OBVIOUS
<1>3. y \in Opt(Expected)
  BY <1>2, Frames DEF Popped, Opt
<1>4. Fits(p, wire[Home(p)][1])
  BY DEF Popped
<1>5. /\ reads' = [reads EXCEPT ![p] = y]
      /\ UNCHANGED <<phase, answer, mu, got, late>>
  BY <1>1, <1>2, <1>4 DEF Receive
<1>6. /\ reads' \in [Reader -> Opt(Expected)] /\ reads'[p] = y
      /\ \A q \in Reader : q # p => reads'[q] = reads[q]
  BY <1>3, <1>5 DEF Shape, Types
<1> QED BY <1>2, <1>5, <1>6 DEF ReceivedLength

\* The case of the read loop.
LEMMA DispatchCase ==
    ASSUME Shape, NEW n \in Node, Receive(n), Popped(n), wire[n][1].part = "payload"
    PROVE  Dispatched(n, wire[n][1].frame)
<1>0. n \in Reader /\ n \in Proc /\ Home(n) = n
  BY Kinds, Ends
<1>1. Head(wire[n]) = wire[n][1] /\ wire[n][1] \in Piece
  BY <1>0, TailPiece DEF Shape, Types, Popped
<1>2. PICK f \in Frame : f = wire[n][1].frame
  BY <1>1, Frames
<1>3. Fits(n, wire[n][1])
  BY <1>0 DEF Popped
<1>4. Dispatch(n, f)
  BY <1>0, <1>1, <1>2, <1>3 DEF Receive
<1>5. answer' = [answer EXCEPT ![n] = Answer(n, f)]
  BY <1>4 DEF Dispatch
<1>6. /\ answer' \in [Node -> Opt(Frame)] /\ answer'[n] = Answer(n, f)
      /\ \A m \in Node : m # n => answer'[m] = answer[m]
  BY <1>5, AnswerIsFrame DEF Shape, Types
<1>7. CASE answer'[n] # None
  <2>1. phase' = [phase EXCEPT ![n] = "lock", ![n] = @]
    BY <1>4, <1>7 DEF Dispatch
  <2>2. /\ phase' \in [Proc -> Phase] /\ phase'[n] = "lock"
        /\ \A q \in Proc : q # n => phase'[q] = phase[q]
    BY <1>0, <2>1 DEF Shape, Types, Phase
  <2>3. reads' = [reads EXCEPT ![n] = None] /\ late' = late /\ UNCHANGED <<mu, got>>
    BY <1>4, <1>7 DEF Dispatch
  <2>4. /\ reads' \in [Reader -> Opt(Expected)] /\ reads'[n] = None
        /\ \A q \in Reader : q # n => reads'[q] = reads[q]
        /\ late' \in [Node -> BOOLEAN] /\ \A m \in Node : late'[m] => late[m]
    BY <1>0, <2>3 DEF Shape, Types, Opt
  <2> QED BY <1>0, <1>2, <1>6, <1>7, <2>2, <2>3, <2>4, <1>4 DEF Dispatched
<1>8. CASE answer'[n] = None
  <2>1. reads' = ReadsNext(n) /\ late' = Undue(n) /\ UNCHANGED <<mu, got>>
    BY <1>4, <1>8 DEF Dispatch
  <2>2. /\ reads' \in [Reader -> Opt(Expected)] /\ reads'[n] = [part |-> "length"]
        /\ \A q \in Reader : q # n => reads'[q] = reads[q]
        /\ late' \in [Node -> BOOLEAN] /\ \A m \in Node : late'[m] => late[m]
    BY <1>0, <2>1, Frames DEF Shape, Types, Opt, ReadsNext, Undue
  <2>3. ASSUME f.kind = "reply"
        PROVE  /\ phase' \in [Proc -> Phase] /\ phase'[n] = "read"
               /\ \A q \in Proc : q # n => \/ phase'[q] = phase[q]
                                           \/ q \in Dht /\ phase[q] = "wait" /\ phase'[q] = "done"
    <3>1. f.id \in Dht /\ f.id \in Proc /\ f.id # n
      BY <2>3, Frames, Kinds
    <3>2. phase[f.id] = "wait"
      BY <1>6, <1>8, <2>3, <3>1, Frames DEF Answer
    <3>3. phase' = [phase EXCEPT ![n] = "read", ![f.id] = "done"]
      BY <1>4, <1>8, <2>3 DEF Dispatch
    <3> QED BY <1>0, <3>1, <3>2, <3>3 DEF Shape, Types, Phase
  <2>4. ASSUME f.kind # "reply"
        PROVE  /\ phase' \in [Proc -> Phase] /\ phase'[n] = "read"
               /\ \A q \in Proc : q # n => phase'[q] = phase[q]
    <3>1. phase' = [phase EXCEPT ![n] = "read", ![n] = @]
      BY <1>4, <1>8, <2>4 DEF Dispatch
    <3> QED BY <1>0, <3>1 DEF Shape, Types, Phase
  <2> QED BY <1>2, <1>6, <1>8, <2>1, <2>2, <2>3, <2>4 DEF Dispatched
<1> QED BY <1>7, <1>8

\* The case of a search.
LEMMA CompleteCase ==
    ASSUME Shape, NEW s \in Search, Receive(s), Popped(s), wire[At[s]][1].part = "payload"
    PROVE  Completed(s, wire[At[s]][1].frame)
<1>0. s \in Reader /\ s \in Proc /\ s \notin Node /\ Home(s) = At[s] /\ At[s] \in Node
  BY Kinds, Ends
<1>1. Head(wire[At[s]]) = wire[At[s]][1] /\ wire[At[s]][1] \in Piece
  BY <1>0, TailPiece DEF Shape, Types, Popped
<1>2. PICK f \in Frame : f = wire[At[s]][1].frame
  BY <1>1, Frames
<1>3. Fits(s, wire[At[s]][1])
  BY <1>0 DEF Popped
<1>4. Complete(s, f)
  BY <1>0, <1>1, <1>2, <1>3 DEF Receive
<1>5. f.kind = "ack" => f.id \in Search
  BY Frames
<1>6. /\ phase' \in [Proc -> Phase]
      /\ phase'[s] = IF f.kind = "ack" THEN "done" ELSE "failed"
      /\ \A q \in Proc : q # s => phase'[q] = phase[q]
  BY <1>0, <1>4 DEF Complete, Shape, Types, Phase
<1>7. /\ got' \in [Search -> Opt(Search)]
      /\ got'[s] = IF f.kind = "ack" THEN f.id ELSE None
      /\ \A t \in Search : t # s => got'[t] = got[t]
  BY <1>0, <1>4, <1>5 DEF Complete, Shape, Types, Opt
<1>8. /\ reads' \in [Reader -> Opt(Expected)] /\ reads'[s] = None
      /\ \A q \in Reader : q # s => reads'[q] = reads[q]
      /\ mu' = Released(s) /\ UNCHANGED <<answer, late>>
  BY <1>0, <1>4 DEF Complete, Shape, Types, Opt
<1> QED BY <1>2, <1>6, <1>7, <1>8 DEF Completed

\* Reader p has an error to report.
Misreads(p) ==
    \/ late[Home(p)]
    \/ reads[p] # None /\ wire[Home(p)] # << >> /\ ~Fits(p, wire[Home(p)][1])

\* The steps of readers and of the network, by what they do.
ReaderSteps ==
    \/ \E p \in Reader : AcquireRead(p) \/ (Popped(p) /\ ReceivedLength(p))
    \/ \E n \in Node : Popped(n) /\ Dispatched(n, wire[n][1].frame)
    \/ \E s \in Search : Popped(s) /\ Completed(s, wire[At[s]][1].frame)
    \/ \E s \in Search : /\ Misreads(s)
                         /\ \/ GaveUp(s, wire[At[s]])
                            \/ wire[At[s]] # << >> /\ GaveUp(s, Tail(wire[At[s]]))
    \/ \E n \in Node : Misreads(n) /\ Close /\ blame' = blame
    \/ \E n \in Node : DeadlinePasses(n)
    \/ Close /\ blame' = blame \cup {"network"}

\* A piece that is received.
LEMMA ReceiveCases == ASSUME Shape, NEW p \in Reader, Receive(p) PROVE ReaderSteps
<1>1. p \in Proc /\ Home(p) \in Node /\ (p \in Node => Home(p) = p) /\ (p \in Search => Home(p) = At[p])
  BY Kinds, Ends
<1>2. open /\ fd[Home(p)] = p /\ ~late[Home(p)] /\ wire[Home(p)] # << >>
  BY DEF Receive
<1>3. reads[p] # None
  BY <1>1, <1>2, Kinds DEF Shape, Types
<1>4. /\ Head(wire[Home(p)]) = wire[Home(p)][1] /\ wire[Home(p)][1] \in Piece
      /\ Tail(wire[Home(p)]) \in Seq(Piece)
  BY <1>1, <1>2, TailPiece DEF Shape, Types
<1>5. CASE ~Fits(p, wire[Home(p)][1])
  <2>1. ReadError(p, Tail(wire[Home(p)])) /\ Misreads(p)
    BY <1>2, <1>3, <1>4, <1>5 DEF Receive, Misreads
  <2>2. CASE p \in Node
    <3>1. Close /\ blame' = blame
      BY <2>1, <2>2 DEF ReadError
    <3> QED BY <2>1, <2>2, <3>1 DEF ReaderSteps
  <2>3. CASE p \in Search
    <3>1. GaveUp(p, Tail(wire[Home(p)]))
      BY <1>3, <1>4, <2>1, <2>3, GiveUpFacts
    <3> QED BY <1>1, <1>2, <2>1, <2>3, <3>1 DEF ReaderSteps
  <2> QED BY <2>2, <2>3, Kinds
<1>6. CASE Fits(p, wire[Home(p)][1])
  <2>1. Popped(p)
    BY <1>6, PopFacts
  <2>2. CASE wire[Home(p)][1].part = "length"
    <3>1. ReceivedLength(p)
      BY <2>1, <2>2, LengthCase
    <3> QED BY <2>1, <3>1 DEF ReaderSteps
  <2>3. CASE wire[Home(p)][1].part = "payload"
    <3>1. CASE p \in Node
      <4>1. Dispatched(p, wire[p][1].frame)
        BY <1>1, <2>1, <2>3, <3>1, DispatchCase
      <4> QED BY <2>1, <3>1, <4>1 DEF ReaderSteps
    <3>2. CASE p \in Search
      <4>1. Completed(p, wire[At[p]][1].frame)
        BY <1>1, <2>1, <2>3, <3>2, CompleteCase
      <4> QED BY <2>1, <3>2, <4>1 DEF ReaderSteps
    <3> QED BY <3>1, <3>2, Kinds
  <2> QED BY <1>4, <2>2, <2>3, Frames
<1> QED BY <1>5, <1>6

\* Every step is a writer's, or one of ReaderSteps.
LEMMA Steps ==
    ASSUME Shape, Next
    PROVE  \/ \E p \in Proc : Begin(p) \/ Lock(p) \/ WritePiece(p) \/ WriteFails(p)
           \/ \E q \in Dht : DhtTimeout(q)
           \/ ReaderSteps
<1>1. ASSUME NEW p \in Reader, ReadTimeout(p) PROVE ReaderSteps
  <2>1. p \in Proc /\ Home(p) \in Node /\ (p \in Search => Home(p) = At[p])
    BY Kinds, Ends
  <2>2. Misreads(p) /\ reads[p] # None /\ ReadError(p, wire[Home(p)])
    BY <1>1 DEF ReadTimeout, Misreads
  <2>3. CASE p \in Node
    <3>1. Close /\ blame' = blame
      BY <2>2, <2>3 DEF ReadError
    <3> QED BY <2>2, <2>3, <3>1 DEF ReaderSteps
  <2>4. CASE p \in Search
    <3>1. wire[Home(p)] \in Seq(Piece)
      BY <2>1 DEF Shape, Types
    <3>2. GaveUp(p, wire[Home(p)])
      BY <2>2, <2>4, <3>1, GiveUpFacts
    <3> QED BY <2>1, <2>2, <2>4, <3>2 DEF ReaderSteps
  <2> QED BY <2>3, <2>4, Kinds
<1>2. ASSUME Drop PROVE ReaderSteps
  BY <1>2 DEF Drop, ReaderSteps
<1>3. ASSUME NEW p \in Reader, AcquireRead(p) PROVE ReaderSteps
  BY <1>3 DEF ReaderSteps
<1>4. ASSUME NEW n \in Node, DeadlinePasses(n) PROVE ReaderSteps
  BY <1>4 DEF ReaderSteps
<1> QED BY <1>1, <1>2, <1>3, <1>4, ReceiveCases DEF Next

\* The bytes are no longer awaited where a piece was taken.
LEMMA PoppedReads ==
    ASSUME Shape, NEW p \in Reader, Popped(p), reads' \in [Reader -> Opt(Expected)],
           \A q \in Reader : q # p => reads'[q] = reads[q]
    PROVE  (\A n \in Node : fd'[n] # None => reads'[fd'[n]] # None) /\ OwnReads'
<1>0. p \in Proc /\ Home(p) \in Node /\ p # None
  BY Kinds, Ends
<1> SUFFICES ASSUME NEW n \in Node, fd'[n] # None
             PROVE  reads'[fd'[n]] # None /\ Home(fd'[n]) = n
  BY DEF OwnReads, Home
<1>1. n # Home(p) /\ fd'[n] = fd[n]
  BY DEF Popped
<1>2. fd[n] \in Reader /\ reads[fd[n]] # None /\ Home(fd[n]) = n
  BY <1>1 DEF Shape, Types, OwnReads, Opt
<1> QED BY <1>1, <1>2

\* A length is received.
LEMMA LengthShape ==
    ASSUME Shape, NEW p \in Reader, Popped(p), ReceivedLength(p)
    PROVE  Shape'
<1>1. (\A n \in Node : fd'[n] # None => reads'[fd'[n]] # None) /\ OwnReads'
  BY PoppedReads DEF ReceivedLength
<1>2. Types'
  BY <1>1 DEF Popped, ReceivedLength, Shape, Types
<1>3. reads'[p] # None
  BY Frames DEF Popped, ReceivedLength
<1>4. ReadersRead'
  BY <1>3 DEF Popped, ReceivedLength, Shape, ReadersRead
<1>5. LoopsAnswer' /\ WritersWrite' /\ LockHeld'
  BY DEF Popped, ReceivedLength, Shape, LoopsAnswer, WritersWrite, LockHeld, Home
<1> QED BY <1>1, <1>2, <1>4, <1>5 DEF Shape

\* The read loop takes a message.
LEMMA DispatchShape ==
    ASSUME Shape, NEW n \in Node, NEW f, Popped(n), Dispatched(n, f)
    PROVE  Shape'
<1>0. n \in Reader /\ n \in Proc
  BY Kinds
<1>1. (\A m \in Node : fd'[m] # None => reads'[fd'[m]] # None) /\ OwnReads'
  BY <1>0, PoppedReads DEF Dispatched
<1>2. Types'
  BY <1>1 DEF Popped, Dispatched, Shape, Types
<1>3. ASSUME NEW q \in Proc, q # n
      PROVE  \/ phase'[q] = phase[q]
             \/ q \in Dht /\ phase[q] = "wait" /\ phase'[q] = "done"
  BY <1>3 DEF Dispatched
<1>4. ReadersRead'
  BY <1>0, <1>3, Frames, Kinds DEF Dispatched, Shape, ReadersRead
<1>5. LoopsAnswer'
  BY <1>3, Kinds DEF Dispatched, Shape, LoopsAnswer
<1>6. part' = part /\ mu' = mu /\ phase[n] = "read" /\ phase'[n] # "write"
  BY DEF Popped, Dispatched
<1>7. WritersWrite'
  BY <1>0, <1>3, <1>6 DEF Shape, WritersWrite
<1>8. LockHeld'
  BY <1>0, <1>3, <1>6, Kinds, LockHeldAfter
<1> QED BY <1>1, <1>2, <1>4, <1>5, <1>7, <1>8 DEF Shape

\* A search takes a message.
LEMMA CompleteShape ==
    ASSUME Shape, NEW s \in Search, NEW f, Popped(s), Completed(s, f)
    PROVE  Shape'
<1>0. s \in Reader /\ s \in Proc /\ s \notin Node
  BY Kinds
<1>1. (\A m \in Node : fd'[m] # None => reads'[fd'[m]] # None) /\ OwnReads'
  BY <1>0, PoppedReads DEF Completed
<1>2. mu' \in [Node -> Opt(Proc)]
  BY <1>0, ReleasedKeeps DEF Completed
<1>3. Types'
  BY <1>1, <1>2 DEF Popped, Completed, Shape, Types
<1>4. phase'[s] \in {"done", "failed"} /\ phase[s] = "read" /\ part' = part
  BY DEF Popped, Completed
<1>5. ReadersRead'
  BY <1>0, <1>4, Kinds DEF Completed, Shape, ReadersRead
<1>6. LoopsAnswer'
  BY <1>0, <1>4, Kinds DEF Completed, Shape, LoopsAnswer
<1>7. WritersWrite'
  BY <1>4 DEF Completed, Shape, WritersWrite
<1>8. LockHeld'
  <2>1. /\ \A q \in Proc : q # s => phase'[q] \in {phase[q], "done", "failed"}
        /\ mu' = Released(s)
    BY DEF Completed
  <2> QED BY <1>0, <1>4, <2>1, LockHeldAfter
<1> QED BY <1>1, <1>3, <1>5, <1>6, <1>7, <1>8 DEF Shape

\* Every step keeps the shape.
LEMMA ShapeKeeps == Shape /\ [Next]_vars => Shape'
<1> SUFFICES ASSUME Shape, [Next]_vars PROVE Shape'
  OBVIOUS
<1>1. CASE UNCHANGED vars
  BY <1>1 DEF vars, Shape, Types, ReadersRead, LoopsAnswer, OwnReads, WritersWrite, LockHeld, Home
<1>2. CASE Next
  <2>0. blame \in SUBSET {"timeout", "reader", "writer", "network"}
    BY DEF Shape, Types
  <2>1. CASE \E p \in Proc : Begin(p) \/ Lock(p) \/ WritePiece(p) \/ WriteFails(p)
    BY <2>1, BeginShape, LockShape, WriteShape, FailShape
  <2>2. CASE \E q \in Dht : DhtTimeout(q)
    BY <2>2, TimeoutShape
  <2>3. CASE ReaderSteps
    <3>1. ASSUME Close, blame' \in {blame, blame \cup {"network"}} PROVE Shape'
      BY <2>0, <3>1, CloseShape
    <3>2. ASSUME NEW p \in Reader, AcquireRead(p) \/ (Popped(p) /\ ReceivedLength(p)) PROVE Shape'
      BY <3>2, AcquireShape, LengthShape
    <3>3. ASSUME NEW n \in Node, Popped(n), Dispatched(n, wire[n][1].frame) PROVE Shape'
      BY <3>3, DispatchShape
    <3>4. ASSUME NEW s \in Search, Popped(s), Completed(s, wire[At[s]][1].frame) PROVE Shape'
      BY <3>4, CompleteShape
    <3>5. ASSUME NEW s \in Search, NEW rest, GaveUp(s, rest) PROVE Shape'
      BY <3>5, GiveUpShape
    <3> QED BY <2>3, <3>1, <3>2, <3>3, <3>4, <3>5, DeadlineShape DEF ReaderSteps
  <2> QED BY <1>2, <2>1, <2>2, <2>3, Steps
<1> QED BY <1>1, <1>2

-----------------------------------------------------------------------------
(* Whose answer a search takes *)

\* The initial state.
LEMMA AnswersStart == Init => AnswersInv
<1> SUFFICES ASSUME Init PROVE AnswersInv
  OBVIOUS
<1>1. \A n \in Node : wire[n] = << >> /\ answer[n] = None
  BY DEF Init
<1>2. \A n \in Node : DOMAIN wire[n] = {}
  BY <1>1
<1>3. ASSUME NEW n \in Node, NEW t \in Search PROVE ~InHand(n, t) /\ ~OnWire(n, t)
  <2>1. [kind |-> "ack", id |-> t] # None
    BY Frames
  <2>2. ~InHand(n, t)
    BY <1>1, <2>1 DEF InHand
  <2>3. ~OnWire(n, t)
    BY <1>2 DEF OnWire
  <2> QED BY <2>2, <2>3
<1>4. OnTheirWay /\ OnePlace /\ OutstandingFor
  BY <1>2, <1>3 DEF OnTheirWay, OnePlace, OutstandingFor, Outstanding
<1>5. AnswersMatch /\ LoopsReply
  BY <1>1 DEF Init, AnswersMatch, LoopsReply
<1> QED BY <1>4, <1>5 DEF AnswersInv

\* Messages leave the wires at their front, and a read loop takes an answer in
\* hand only for a request that it has taken off.
LEMMA WiresShrink ==
    ASSUME OnTheirWay, OnePlace, NEW k \in [Node -> Nat],
           \A n \in Node : \A i \in DOMAIN wire'[n] :
               i \in Nat /\ i + k[n] \in DOMAIN wire[n] /\ wire'[n][i] = wire[n][i + k[n]],
           \A n \in Node, t \in Search : InHand(n, t)' =>
               \/ InHand(n, t)
               \/ Outstanding(t) /\ At[t] # n /\ \A m \in Node : ~OnWire(m, t)'
    PROVE  /\ OnTheirWay' /\ OnePlace'
           /\ \A t \in Search : Outstanding(t)' => Outstanding(t)
<1>1. ASSUME NEW n \in Node, NEW t \in Search, OnWire(n, t)' PROVE OnWire(n, t)
  <2>1. PICK i \in DOMAIN wire'[n] : Carries(wire'[n][i], t)
    BY <1>1 DEF OnWire
  <2> QED BY <2>1 DEF OnWire
<1>2. OnTheirWay'
  <2> SUFFICES ASSUME NEW n \in Node, NEW t \in Search
               PROVE  /\ InHand(n, t)' => At[t] # n
                      /\ \A i \in DOMAIN wire'[n] : Carries(wire'[n][i], t) =>
                           (wire'[n][i].frame.kind = "ack" <=> At[t] = n)
    BY DEF OnTheirWay, Carries
  <2>1. InHand(n, t)' => At[t] # n
    BY DEF OnTheirWay
  <2>2. ASSUME NEW i \in DOMAIN wire'[n], Carries(wire'[n][i], t)
        PROVE  wire'[n][i].frame.kind = "ack" <=> At[t] = n
    <3>1. i + k[n] \in DOMAIN wire[n] /\ wire'[n][i] = wire[n][i + k[n]]
      OBVIOUS
    <3>2. Carries(wire[n][i + k[n]], t)
      BY <2>2, <3>1
    <3> QED BY <3>1, <3>2 DEF OnTheirWay
  <2> QED BY <2>1, <2>2
<1>3. ASSUME NEW t \in Search, NEW n \in Node, NEW m \in Node
      PROVE  /\ \A i \in DOMAIN wire'[n], j \in DOMAIN wire'[m] :
                  Carries(wire'[n][i], t) /\ Carries(wire'[m][j], t) => n = m /\ i = j
             /\ ~(OnWire(n, t)' /\ InHand(m, t)')
  <2>1. ASSUME NEW i \in DOMAIN wire'[n], NEW j \in DOMAIN wire'[m],
               Carries(wire'[n][i], t), Carries(wire'[m][j], t)
        PROVE  n = m /\ i = j
    <3>1. /\ i + k[n] \in DOMAIN wire[n] /\ Carries(wire[n][i + k[n]], t) /\ i \in Nat
          /\ j + k[m] \in DOMAIN wire[m] /\ Carries(wire[m][j + k[m]], t) /\ j \in Nat
      BY <2>1
    <3>2. n = m /\ i + k[n] = j + k[m]
      BY <3>1 DEF OnePlace
    <3> QED BY <3>1, <3>2
  <2>2. ~(OnWire(n, t)' /\ InHand(m, t)')
    BY <1>1 DEF OnePlace
  <2> QED BY <2>1, <2>2
<1>4. OnePlace'
  BY <1>3 DEF OnePlace, Carries
<1>5. ASSUME NEW t \in Search, Outstanding(t)' PROVE Outstanding(t)
  <2>1. PICK n \in Node : OnWire(n, t)' \/ InHand(n, t)'
    BY <1>5 DEF Outstanding
  <2> QED BY <1>1, <2>1 DEF Outstanding
<1> QED BY <1>2, <1>4, <1>5

\* A piece is put on a wire: the request or answer that it carries, if any, is
\* nowhere else.
LEMMA WireGrows ==
    ASSUME Shape, OnTheirWay, OnePlace, NEW o \in Node, NEW x \in Piece,
           wire' \in [Node -> Seq(Piece)], wire'[o] = Append(wire[o], x),
           \A n \in Node : n # o => wire'[n] = wire[n],
           \A n \in Node, t \in Search : InHand(n, t)' => InHand(n, t),
           \A t \in Search : Carries(x, t) =>
               /\ x.frame.kind = "ack" <=> At[t] = o
               /\ \A n \in Node : ~OnWire(n, t) /\ ~InHand(n, t)'
    PROVE  /\ OnTheirWay' /\ OnePlace'
           /\ \A t \in Search : Outstanding(t)' => Outstanding(t) \/ Carries(x, t)
<1>0. PICK l \in Nat : l = Len(wire[o]) /\ DOMAIN wire[o] = 1..l
  BY DEF Shape, Types
<1>1. /\ DOMAIN wire'[o] = 1..(l + 1) /\ wire'[o][l + 1] = x
      /\ \A i \in 1..l : wire'[o][i] = wire[o][i]
  BY <1>0, AppendPiece DEF Shape, Types
<1>2. ASSUME NEW n \in Node, NEW i \in DOMAIN wire'[n]
      PROVE  \/ i \in DOMAIN wire[n] /\ wire'[n][i] = wire[n][i]
             \/ n = o /\ i = l + 1 /\ wire'[n][i] = x
  <2>1. CASE n # o
    BY <2>1
  <2>2. CASE n = o
    BY <1>0, <1>1, <2>2
  <2> QED BY <2>1, <2>2
<1>3. ASSUME NEW n \in Node, NEW t \in Search, OnWire(n, t)'
      PROVE  OnWire(n, t) \/ Carries(x, t)
  <2>1. PICK i \in DOMAIN wire'[n] : Carries(wire'[n][i], t)
    BY <1>3 DEF OnWire
  <2> QED BY <1>2, <2>1 DEF OnWire
<1>4. OnTheirWay'
  <2> SUFFICES ASSUME NEW n \in Node, NEW t \in Search
               PROVE  /\ InHand(n, t)' => At[t] # n
                      /\ \A i \in DOMAIN wire'[n] : Carries(wire'[n][i], t) =>
                           (wire'[n][i].frame.kind = "ack" <=> At[t] = n)
    BY DEF OnTheirWay, Carries
  <2>1. InHand(n, t)' => At[t] # n
    BY DEF OnTheirWay
  <2>2. ASSUME NEW i \in DOMAIN wire'[n], Carries(wire'[n][i], t)
        PROVE  wire'[n][i].frame.kind = "ack" <=> At[t] = n
    <3>1. CASE i \in DOMAIN wire[n] /\ wire'[n][i] = wire[n][i]
      BY <2>2, <3>1 DEF OnTheirWay
    <3>2. CASE n = o /\ wire'[n][i] = x
      BY <2>2, <3>2
    <3> QED BY <1>2, <3>1, <3>2
  <2> QED BY <2>1, <2>2
<1>5. ASSUME NEW t \in Search, NEW n \in Node, NEW m \in Node
      PROVE  /\ \A i \in DOMAIN wire'[n], j \in DOMAIN wire'[m] :
                  Carries(wire'[n][i], t) /\ Carries(wire'[m][j], t) => n = m /\ i = j
             /\ ~(OnWire(n, t)' /\ InHand(m, t)')
  <2>1. ASSUME NEW i \in DOMAIN wire'[n], NEW j \in DOMAIN wire'[m],
               Carries(wire'[n][i], t), Carries(wire'[m][j], t)
        PROVE  n = m /\ i = j
    <3>1. CASE Carries(x, t)
      <4>1. ~OnWire(n, t) /\ ~OnWire(m, t)
        BY <3>1
      <4>2. n = o /\ i = l + 1 /\ m = o /\ j = l + 1
        BY <1>2, <2>1, <4>1 DEF OnWire
      <4> QED BY <4>2
    <3>2. CASE ~Carries(x, t)
      <4>1. /\ i \in DOMAIN wire[n] /\ Carries(wire[n][i], t)
            /\ j \in DOMAIN wire[m] /\ Carries(wire[m][j], t)
        BY <1>2, <2>1, <3>2
      <4>2. \A a \in DOMAIN wire[n], b \in DOMAIN wire[m] :
              Carries(wire[n][a], t) /\ Carries(wire[m][b], t) => n = m /\ a = b
        BY Zenon DEF OnePlace
      <4> QED BY <4>1, <4>2, Zenon
    <3> QED BY <3>1, <3>2
  <2>2. ~(OnWire(n, t)' /\ InHand(m, t)')
    BY <1>3 DEF OnePlace
  <2> QED BY <2>1, <2>2
<1>6. OnePlace'
  BY <1>5 DEF OnePlace, Carries
<1>7. ASSUME NEW t \in Search, Outstanding(t)' PROVE Outstanding(t) \/ Carries(x, t)
  <2>1. PICK n \in Node : OnWire(n, t)' \/ InHand(n, t)'
    BY <1>7 DEF Outstanding
  <2> QED BY <1>3, <2>1 DEF Outstanding
<1> QED BY <1>4, <1>6, <1>7

\* A step in which no search gets an answer.
LEMMA NothingGot ==
    ASSUME OutstandingFor, AnswersMatch, got' = got,
           \A t \in Search : \/ phase'[t] \in {phase[t], "failed"}
                             \/ phase[t] \in {"idle", "lock", "write"},
           \A t \in Search : Outstanding(t)' => Outstanding(t) \/ phase'[t] \in {"read", "failed"}
    PROVE  OutstandingFor' /\ AnswersMatch'
<1>1. ASSUME NEW t \in Search, Outstanding(t)'
      PROVE  \/ phase'[t] \in {"read", "failed"}
             \/ phase'[t] = "done" /\ got'[t] \notin {None, t}
  BY <1>1 DEF OutstandingFor
<1>2. ASSUME NEW s \in Search, got'[s] \notin {None, s}
      PROVE  \E t \in Search \ {s} : At[t] = At[s] /\ phase'[t] = "failed"
  <2>1. PICK t \in Search \ {s} : At[t] = At[s] /\ phase[t] = "failed"
    BY <1>2 DEF AnswersMatch
  <2>2. phase'[t] = "failed"
    BY <2>1
  <2> QED BY <2>1, <2>2
<1> QED BY <1>1, <1>2 DEF OutstandingFor, AnswersMatch

\* Steps that leave the wires and the answers alone.
LEMMA AnswersUntouched ==
    ASSUME AnswersInv, wire' = wire, answer' = answer, got' = got,
           \A t \in Search : \/ phase'[t] \in {phase[t], "failed"}
                             \/ phase[t] \in {"idle", "lock", "write"}
    PROVE  AnswersInv'
<1>1. LoopsReply' /\ OnTheirWay' /\ OnePlace'
  BY DEF AnswersInv, LoopsReply, OnTheirWay, OnePlace, OnWire, InHand, Carries
<1>2. \A t \in Search : Outstanding(t)' => Outstanding(t)
  BY DEF Outstanding, OnWire, InHand, Carries
<1>3. OutstandingFor' /\ AnswersMatch'
  BY <1>2, NothingGot DEF AnswersInv
<1> QED BY <1>1, <1>3 DEF AnswersInv

\* Where the pieces of a wire go when its first is taken.
LEMMA PopShifts ==
    ASSUME Shape, NEW h \in Node, wire[h] # << >>, wire'[h] = Tail(wire[h]),
           \A n \in Node : n # h => wire'[n] = wire[n]
    PROVE  \E k \in [Node -> Nat] :
             /\ k[h] = 1
             /\ \A n \in Node : \A i \in DOMAIN wire'[n] :
                  i \in Nat \ {0} /\ i + k[n] \in DOMAIN wire[n] /\ wire'[n][i] = wire[n][i + k[n]]
<1>1. PICK k : k = [n \in Node |-> IF n = h THEN 1 ELSE 0]
  OBVIOUS
<1>2. k \in [Node -> Nat] /\ k[h] = 1 /\ \A n \in Node : n # h => k[n] = 0
  BY <1>1
<1>3. ASSUME NEW n \in Node, NEW i \in DOMAIN wire'[n]
      PROVE  i \in Nat \ {0} /\ i + k[n] \in DOMAIN wire[n] /\ wire'[n][i] = wire[n][i + k[n]]
  <2>1. CASE n = h
    <3>1. PICK l \in Nat \ {0} : l = Len(wire[h]) /\ DOMAIN wire[h] = 1..l
      BY TailPiece DEF Shape, Types
    <3>2. /\ DOMAIN Tail(wire[h]) = 1..(l - 1)
          /\ \A j \in 1..(l - 1) : Tail(wire[h])[j] = wire[h][j + 1]
      BY <3>1, TailPiece DEF Shape, Types
    <3>3. i \in 1..(l - 1) /\ wire'[n][i] = Tail(wire[h])[i]
      BY <2>1, <3>2
    <3> QED BY <1>2, <2>1, <3>1, <3>2, <3>3
  <2>2. CASE n # h
    <3>0. wire[n] \in Seq(Piece)
      BY DEF Shape, Types
    <3>1. PICK l \in Nat : l = Len(wire[n]) /\ DOMAIN wire[n] = 1..l
      BY <3>0
    <3>2. i \in 1..l /\ wire'[n][i] = wire[n][i]
      BY <2>2, <3>1
    <3> QED BY <1>2, <2>2, <3>1, <3>2
  <2> QED BY <2>1, <2>2
<1> QED BY <1>2, <1>3

\* Steps that take a piece away, and give no search an answer nor the read loop.
LEMMA AnswersPopped ==
    ASSUME Shape, AnswersInv, NEW h \in Node, wire[h] # << >>, wire'[h] = Tail(wire[h]),
           \A n \in Node : n # h => wire'[n] = wire[n],
           answer' = answer, got' = got,
           \A t \in Search : phase'[t] \in {phase[t], "failed"}
    PROVE  AnswersInv'
<1>1. PICK k \in [Node -> Nat] :
         \A n \in Node : \A i \in DOMAIN wire'[n] :
           i \in Nat /\ i + k[n] \in DOMAIN wire[n] /\ wire'[n][i] = wire[n][i + k[n]]
  BY PopShifts
<1>2. \A n \in Node, t \in Search : InHand(n, t)' => InHand(n, t)
  BY DEF InHand
<1>3. /\ OnTheirWay' /\ OnePlace'
      /\ \A t \in Search : Outstanding(t)' => Outstanding(t)
  BY <1>1, <1>2, WiresShrink DEF AnswersInv
<1>4. OutstandingFor' /\ AnswersMatch'
  BY <1>3, NothingGot DEF AnswersInv
<1>5. LoopsReply'
  BY DEF AnswersInv, LoopsReply
<1> QED BY <1>3, <1>4, <1>5 DEF AnswersInv

\* Nothing is outstanding on a connection that is closed.
LEMMA AnswersClosed == ASSUME AnswersInv, Close PROVE AnswersInv'
<1>1. \A n \in Node : DOMAIN wire'[n] = {} /\ answer'[n] = None
  BY DEF Close
<1>2. ASSUME NEW n \in Node, NEW t \in Search PROVE ~InHand(n, t)' /\ ~OnWire(n, t)'
  <2>1. [kind |-> "ack", id |-> t] # None
    BY Frames
  <2>2. ~InHand(n, t)'
    BY <1>1, <2>1 DEF InHand
  <2>3. ~OnWire(n, t)'
    BY <1>1 DEF OnWire
  <2> QED BY <2>2, <2>3
<1>3. LoopsReply' /\ OnTheirWay' /\ OnePlace'
  BY <1>1, <1>2 DEF LoopsReply, OnTheirWay, OnePlace
<1>4. \A t \in Search : ~Outstanding(t)'
  BY <1>2 DEF Outstanding
<1>5. got' = got /\ \A t \in Search : phase'[t] \in {phase[t], "failed"}
  BY Kinds DEF Close
<1>6. OutstandingFor' /\ AnswersMatch'
  BY <1>4, <1>5, NothingGot DEF AnswersInv
<1> QED BY <1>3, <1>6 DEF AnswersInv

\* A piece is written: the request of a search, or the answer that the read loop
\* had in hand, or nothing of the kind.
LEMMA AnswersWritten == ASSUME Shape, AnswersInv, NEW p \in Proc, WritePiece(p) PROVE AnswersInv'
<1>w. Wrote(p)
  BY WriteFacts
<1>0. PICK x \in Piece : x = [frame |-> Message(p), part |-> part[p]]
  BY <1>w DEF Wrote
<1>1. PICK o \in Node : o = Other(Home(p))
  BY <1>w DEF Wrote
<1>2. /\ wire' \in [Node -> Seq(Piece)] /\ wire'[o] = Append(wire[o], x)
      /\ \A n \in Node : n # o => wire'[n] = wire[n]
      /\ got' = got /\ phase[p] = "write"
  BY <1>w, <1>0, <1>1 DEF Wrote
<1>3. /\ OnTheirWay /\ OnePlace
      /\ x.part = part[p] /\ x.frame = Message(p) /\ x.part \in {"length", "payload"}
  BY <1>0, Frames DEF AnswersInv
<1>4. CASE part[p] = "length"
  <2>0. WroteLength(p)
    BY <1>4, LengthFacts
  <2>1. \A t \in Search : ~Carries(x, t)
    BY <1>3, <1>4 DEF Carries
  <2>2. \A n \in Node, t \in Search : InHand(n, t)' => InHand(n, t)
    BY <2>0 DEF WroteLength, InHand
  <2>3. /\ OnTheirWay' /\ OnePlace'
        /\ \A t \in Search : Outstanding(t)' => Outstanding(t)
    BY <1>2, <1>3, <2>1, <2>2, WireGrows
  <2>4. OutstandingFor' /\ AnswersMatch'
    BY <1>2, <2>0, <2>3, NothingGot DEF AnswersInv, WroteLength
  <2>5. LoopsReply'
    BY <2>0 DEF WroteLength, AnswersInv, LoopsReply
  <2> QED BY <2>3, <2>4, <2>5 DEF AnswersInv
<1>5. CASE part[p] = "payload"
  <2>0. WrotePayload(p)
    BY <1>5, PayloadFacts
  <2>1. \A n \in Node, t \in Search : InHand(n, t)' => InHand(n, t) /\ n # p
    <3> SUFFICES ASSUME NEW n \in Node, NEW t \in Search, InHand(n, t)' PROVE InHand(n, t) /\ n # p
      OBVIOUS
    <3>0. answer'[n] # None
      BY Frames DEF InHand
    <3>1. n # p
      BY <2>0, <3>0 DEF WrotePayload
    <3> QED BY <2>0, <3>1 DEF WrotePayload, InHand
  <2>2. ASSUME NEW t \in Search, Carries(x, t)
        PROVE  /\ x.frame.kind = "ack" <=> At[t] = o
               /\ \A n \in Node : ~OnWire(n, t) /\ ~InHand(n, t)'
               /\ ~Outstanding(t) => phase'[t] = "read"
    <3>0. Message(p).kind \in {"search", "ack"} /\ Message(p).id = t
      BY <1>3, <2>2 DEF Carries
    <3>1. CASE p \in Search
      <4>1. p = t /\ x.frame.kind = "search"
        BY <1>3, <3>0, <3>1, Kinds DEF Message
      <4>2. o = Other(At[t]) /\ At[t] \in Node /\ At[t] # o
        BY <1>1, <4>1, <3>1, Ends, Kinds
      <4>3. ~Outstanding(t)
        BY <1>2, <4>1 DEF AnswersInv, OutstandingFor
      <4>4. \A n \in Node : ~OnWire(n, t) /\ ~InHand(n, t)
        BY <4>3 DEF Outstanding
      <4>5. phase'[t] = "read"
        BY <2>0, <3>1, <4>1, Kinds DEF WrotePayload, AfterWrite
      <4> QED BY <2>1, <4>1, <4>2, <4>4, <4>5
    <3>2. CASE p \in Node
      <4>1. answer[p] = Message(p) /\ answer[p] # None
        BY <1>2, <3>2, Kinds DEF Message, Shape, LoopsAnswer
      <4>2. answer[p] \in Frame
        BY <3>2, <4>1 DEF Shape, Types, Opt
      <4>3. CASE answer[p].kind = "ack"
        <5>1. answer[p] = [kind |-> "ack", id |-> t]
          BY <3>0, <4>1, <4>2, <4>3 DEF Frame
        <5>2. InHand(p, t) /\ At[t] # p /\ \A n \in Node : ~OnWire(n, t)
          BY <1>3, <3>2, <5>1 DEF InHand, OnTheirWay, OnePlace
        <5>3. o = Other(p) /\ At[t] \in Node
          BY <1>1, <3>2, Ends, Kinds
        <5>4. At[t] = o
          BY <3>2, <5>2, <5>3, Ends
        <5>5. ASSUME NEW n \in Node, InHand(n, t)' PROVE FALSE
          <6>1. InHand(n, t) /\ n # p
            BY <2>1, <5>5
          <6>2. At[t] # n
            BY <1>3, <6>1 DEF OnTheirWay
          <6> QED BY <3>2, <5>2, <5>3, <6>1, <6>2, Ends
        <5>6. Outstanding(t)
          BY <3>2, <5>2 DEF Outstanding
        <5> QED BY <1>3, <4>1, <4>3, <5>2, <5>4, <5>5, <5>6
      <4>4. CASE answer[p].kind = "search"
        BY <4>4, <3>2, <4>1 DEF AnswersInv, LoopsReply
      <4> QED BY <3>0, <4>1, <4>3, <4>4
    <3>3. CASE p \in Dht
      BY <3>0, <3>3, Kinds DEF Message
    <3>4. CASE p \in Beat
      BY <3>0, <3>4, Kinds DEF Message
    <3> QED BY <3>1, <3>2, <3>3, <3>4, Kinds
  <2>3. /\ OnTheirWay' /\ OnePlace'
        /\ \A t \in Search : Outstanding(t)' => Outstanding(t) \/ Carries(x, t)
    BY <1>2, <1>3, <2>1, <2>2, WireGrows
  <2>4. \A t \in Search : Outstanding(t)' => Outstanding(t) \/ phase'[t] = "read"
    BY <2>2, <2>3
  <2>5. \A t \in Search : \/ phase'[t] = phase[t]
                          \/ phase[t] \in {"idle", "lock", "write"}
    BY <1>2, <2>0, Kinds DEF WrotePayload
  <2>6. OutstandingFor' /\ AnswersMatch'
    BY <1>2, <2>4, <2>5, NothingGot DEF AnswersInv
  <2>7. LoopsReply'
    BY <2>0 DEF WrotePayload, AnswersInv, LoopsReply
  <2> QED BY <2>3, <2>6, <2>7 DEF AnswersInv
<1> QED BY <1>3, <1>4, <1>5

\* The first piece of a wire carries t: after it is taken, no wire does.
LEMMA TakenOffTheWire ==
    ASSUME Shape, OnePlace, NEW h \in Node, NEW t \in Search,
           wire[h] # << >>, Carries(wire[h][1], t), NEW k \in [Node -> Nat], k[h] = 1,
           \A n \in Node : \A i \in DOMAIN wire'[n] :
             i \in Nat \ {0} /\ i + k[n] \in DOMAIN wire[n] /\ wire'[n][i] = wire[n][i + k[n]]
    PROVE  /\ OnWire(h, t)
           /\ \A m \in Node : ~OnWire(m, t)' /\ ~InHand(m, t)
<1>1. 1 \in DOMAIN wire[h]
  <2>1. wire[h] \in Seq(Piece)
    BY DEF Shape, Types
  <2> QED BY <2>1, TailPiece
<1>2. OnWire(h, t)
  BY <1>1 DEF OnWire
<1>3. ASSUME NEW m \in Node, OnWire(m, t)' PROVE FALSE
  <2>1. PICK i \in DOMAIN wire'[m] : Carries(wire'[m][i], t)
    BY <1>3 DEF OnWire
  <2>2. i \in Nat \ {0} /\ i + k[m] \in DOMAIN wire[m] /\ Carries(wire[m][i + k[m]], t)
    BY <2>1
  <2>3. \A a \in DOMAIN wire[h], b \in DOMAIN wire[m] :
          Carries(wire[h][a], t) /\ Carries(wire[m][b], t) => h = m /\ a = b
    BY Zenon DEF OnePlace
  <2>4. h = m /\ 1 = i + k[m]
    BY <1>1, <2>2, <2>3
  <2> QED BY <2>2, <2>4
<1>4. \A m \in Node : ~InHand(m, t)
  BY <1>2, Zenon DEF OnePlace
<1> QED BY <1>2, <1>3, <1>4

\* The read loop takes a request in hand, or drops what it reads.
LEMMA AnswersDispatched ==
    ASSUME Shape, AnswersInv, NEW n \in Node, NEW f, Popped(n), Dispatched(n, f)
    PROVE  AnswersInv'
<1>0. Home(n) = n /\ n \in Proc /\ OnTheirWay /\ OnePlace /\ wire[n] \in Seq(Piece)
  BY Ends, Kinds DEF AnswersInv, Shape, Types
<1>1. wire[n] # << >> /\ wire'[n] = Tail(wire[n]) /\ \A m \in Node : m # n => wire'[m] = wire[m]
  BY <1>0 DEF Popped
<1>2. PICK k \in [Node -> Nat] :
         /\ k[n] = 1
         /\ \A m \in Node : \A i \in DOMAIN wire'[m] :
              i \in Nat \ {0} /\ i + k[m] \in DOMAIN wire[m] /\ wire'[m][i] = wire[m][i + k[m]]
  BY <1>1, PopShifts
<1>3. f \in Frame /\ wire[n][1].part = "payload" /\ wire[n][1].frame = f
  BY <1>0, Frames DEF Popped, Dispatched
<1>4. answer'[n] = Answer(n, f) /\ \A m \in Node : m # n => answer'[m] = answer[m]
  BY DEF Dispatched
<1>5. Answer(n, f) # None /\ f.kind # "search" => Answer(n, f).kind = "reply"
  BY <1>3, Frames DEF Answer
<1>6. f.kind = "search" => f.id \in Search /\ Answer(n, f) = [kind |-> "ack", id |-> f.id]
  BY <1>3, Frames DEF Answer
<1>7. ASSUME NEW m \in Node, NEW t \in Search, InHand(m, t)'
      PROVE  \/ InHand(m, t)
             \/ Outstanding(t) /\ At[t] # m /\ \A r \in Node : ~OnWire(r, t)'
  <2>1. CASE m # n
    BY <1>4, <1>7, <2>1 DEF InHand
  <2>2. CASE m = n
    <3>1. Answer(n, f) = [kind |-> "ack", id |-> t] /\ Answer(n, f) # None
      BY <1>4, <1>7, <2>2, Frames DEF InHand
    <3>2. f.kind = "search" /\ f.id = t
      BY <1>5, <1>6, <3>1
    <3>3. Carries(wire[n][1], t)
      BY <1>3, <3>2 DEF Carries
    <3>4. OnWire(n, t) /\ \A r \in Node : ~OnWire(r, t)'
      BY <1>0, <1>1, <1>2, <3>3, TakenOffTheWire
    <3>5. 1 \in DOMAIN wire[n]
      BY <1>0, <1>1, TailPiece
    <3>6. At[t] # n
      BY <1>0, <1>3, <3>2, <3>3, <3>5 DEF OnTheirWay
    <3> QED BY <2>2, <3>4, <3>6 DEF Outstanding
  <2> QED BY <2>1, <2>2
<1>8. /\ OnTheirWay' /\ OnePlace'
      /\ \A t \in Search : Outstanding(t)' => Outstanding(t)
  <2>1. \A m \in Node : \A i \in DOMAIN wire'[m] :
          i \in Nat /\ i + k[m] \in DOMAIN wire[m] /\ wire'[m][i] = wire[m][i + k[m]]
    BY <1>2
  <2> QED BY <1>0, <1>7, <2>1, WiresShrink
<1>9. got' = got /\ \A t \in Search : phase'[t] = phase[t]
  BY Kinds DEF Dispatched
<1>10. OutstandingFor' /\ AnswersMatch'
  BY <1>8, <1>9, NothingGot DEF AnswersInv
<1>11. LoopsReply'
  BY <1>4, <1>5, <1>6 DEF AnswersInv, LoopsReply
<1> QED BY <1>8, <1>10, <1>11 DEF AnswersInv

\* A search takes an answer: its own, which is not found again, or that of a
\* search which has given up, or that took the answer of one.
LEMMA AnswersCompleted ==
    ASSUME Shape, AnswersInv, NEW s \in Search, NEW f, Popped(s), Completed(s, f)
    PROVE  AnswersInv'
<1>0. /\ Home(s) = At[s] /\ s \in Proc /\ At[s] \in Node /\ OnTheirWay /\ OnePlace
      /\ wire[At[s]] \in Seq(Piece)
  BY Ends, Kinds DEF AnswersInv, Shape, Types
<1>1. /\ wire[At[s]] # << >> /\ wire'[At[s]] = Tail(wire[At[s]])
      /\ \A m \in Node : m # At[s] => wire'[m] = wire[m]
      /\ phase[s] = "read"
  BY <1>0 DEF Popped
<1>2. PICK k \in [Node -> Nat] :
         /\ k[At[s]] = 1
         /\ \A m \in Node : \A i \in DOMAIN wire'[m] :
              i \in Nat \ {0} /\ i + k[m] \in DOMAIN wire[m] /\ wire'[m][i] = wire[m][i + k[m]]
  BY <1>0, <1>1, PopShifts
<1>3. f \in Frame /\ wire[At[s]][1].part = "payload" /\ wire[At[s]][1].frame = f
  BY <1>0, Frames DEF Popped, Completed
<1>4. answer' = answer
  BY DEF Completed
<1>5. \A m \in Node, t \in Search : InHand(m, t)' <=> InHand(m, t)
  BY <1>4 DEF InHand
<1>6. /\ OnTheirWay' /\ OnePlace'
      /\ \A t \in Search : Outstanding(t)' => Outstanding(t)
  <2>1. \A m \in Node : \A i \in DOMAIN wire'[m] :
          i \in Nat /\ i + k[m] \in DOMAIN wire[m] /\ wire'[m][i] = wire[m][i + k[m]]
    BY <1>2
  <2> QED BY <1>0, <1>5, <2>1, WiresShrink
<1>7. ASSUME NEW t \in Search, f.kind = "ack", f.id = t
      PROVE  /\ ~Outstanding(t)' /\ At[t] = At[s] /\ Outstanding(t)
  <2>1. Carries(wire[At[s]][1], t)
    BY <1>3, <1>7 DEF Carries
  <2>2. /\ OnWire(At[s], t)
        /\ \A m \in Node : ~OnWire(m, t)' /\ ~InHand(m, t)
    BY <1>0, <1>1, <1>2, <2>1, TakenOffTheWire
  <2>3. ~Outstanding(t)'
    BY <1>5, <2>2 DEF Outstanding
  <2>4. 1 \in DOMAIN wire[At[s]]
    BY <1>0, <1>1, TailPiece
  <2>5. At[t] = At[s]
    BY <1>0, <1>3, <1>7, <2>1, <2>4 DEF OnTheirWay
  <2> QED BY <1>0, <2>2, <2>3, <2>5 DEF Outstanding
<1>8. /\ \A t \in Search : t # s => phase'[t] = phase[t] /\ got'[t] = got[t]
      /\ phase'[s] = IF f.kind = "ack" THEN "done" ELSE "failed"
      /\ got'[s] = IF f.kind = "ack" THEN f.id ELSE None
  BY Kinds DEF Completed
<1>9. f.kind = "ack" => f.id \in Search /\ f.id # None
  BY <1>3, Frames, Kinds
<1>10. ASSUME NEW t \in Search, Outstanding(t)'
       PROVE  \/ phase'[t] \in {"read", "failed"}
              \/ phase'[t] = "done" /\ got'[t] \notin {None, t}
  <2>1. CASE t # s
    BY <1>6, <1>8, <1>10, <2>1 DEF AnswersInv, OutstandingFor
  <2>2. CASE t = s
    BY <1>7, <1>8, <1>9, <1>10, <2>2
  <2> QED BY <2>1, <2>2
<1>11. ASSUME NEW u \in Search, got'[u] \notin {None, u}
       PROVE  \E t \in Search \ {u} : At[t] = At[u] /\ phase'[t] = "failed"
  <2>1. CASE u # s
    <3>1. PICK t \in Search \ {u} : At[t] = At[u] /\ phase[t] = "failed"
      BY <1>8, <1>11, <2>1 DEF AnswersInv, AnswersMatch
    <3>2. phase'[t] = "failed"
      BY <1>1, <1>8, <3>1
    <3> QED BY <3>1, <3>2
  <2>2. CASE u = s
    <3>1. f.kind = "ack" /\ f.id \in Search \ {s}
      BY <1>8, <1>9, <1>11, <2>2
    <3>2. PICK t \in Search \ {s} : t = f.id
      BY <3>1
    <3>3. At[t] = At[s] /\ Outstanding(t)
      BY <1>7, <3>1, <3>2
    <3>4. phase[t] # "read"
      <4>1. s \in Proc \ Dht /\ t \in Proc \ Dht /\ Home(t) = At[t]
        BY Kinds, Ends
      <4>2. mu[At[s]] = s
        BY <1>0, <1>1, <4>1 DEF Shape, LockHeld
      <4>3. phase[t] = "read" => mu[At[t]] = t
        BY <4>1 DEF Shape, LockHeld
      <4> QED BY <3>3, <4>2, <4>3
    <3>5. CASE phase[t] = "failed"
      BY <1>8, <2>2, <3>3, <3>5
    <3>6. CASE got[t] \notin {None, t}
      <4>1. PICK v \in Search \ {t} : At[v] = At[t] /\ phase[v] = "failed"
        BY <3>6 DEF AnswersInv, AnswersMatch
      <4>2. v # s /\ phase'[v] = "failed"
        BY <1>1, <1>8, <4>1
      <4> QED BY <2>2, <3>3, <4>1, <4>2
    <3> QED BY <3>3, <3>4, <3>5, <3>6 DEF AnswersInv, OutstandingFor
  <2> QED BY <2>1, <2>2
<1>12. LoopsReply'
  BY <1>4 DEF AnswersInv, LoopsReply
<1> QED BY <1>6, <1>10, <1>11, <1>12 DEF AnswersInv, OutstandingFor, AnswersMatch

\* A request or an answer that cannot be written is nowhere.
LEMMA AnswersFailed == ASSUME Shape, AnswersInv, NEW p \in Proc, WriteFails(p) PROVE AnswersInv'
<1>0. FailedWrite(p)
  BY FailFacts
<1>1. PICK k \in [Node -> Nat] : k = [n \in Node |-> 0]
  OBVIOUS
<1>2. \A n \in Node : \A i \in DOMAIN wire'[n] :
        i \in Nat /\ i + k[n] \in DOMAIN wire[n] /\ wire'[n][i] = wire[n][i + k[n]]
  <2> SUFFICES ASSUME NEW n \in Node, NEW i \in DOMAIN wire[n]
               PROVE  i \in Nat /\ i + 0 = i
    BY <1>0, <1>1 DEF FailedWrite
  <2>1. wire[n] \in Seq(Piece)
    BY DEF Shape, Types
  <2> QED BY <2>1
<1>3. \A n \in Node, t \in Search : InHand(n, t)' => InHand(n, t)
  <2> SUFFICES ASSUME NEW n \in Node, NEW t \in Search, answer'[n] = [kind |-> "ack", id |-> t]
               PROVE  answer[n] = [kind |-> "ack", id |-> t]
    BY DEF InHand
  <2>1. answer'[n] # None
    BY Frames
  <2> QED BY <1>0, <2>1 DEF FailedWrite
<1>4. /\ OnTheirWay' /\ OnePlace'
      /\ \A t \in Search : Outstanding(t)' => Outstanding(t)
  BY <1>2, <1>3, WiresShrink DEF AnswersInv
<1>5. /\ got' = got
      /\ \A t \in Search : phase'[t] \in {phase[t], "failed"}
  BY <1>0, Kinds DEF FailedWrite
<1>6. OutstandingFor' /\ AnswersMatch'
  BY <1>4, <1>5, NothingGot DEF AnswersInv
<1>7. LoopsReply'
  BY <1>0 DEF FailedWrite, AnswersInv, LoopsReply
<1> QED BY <1>4, <1>6, <1>7 DEF AnswersInv

\* Every step keeps exchanges apart.
LEMMA AnswersKeep == Shape /\ AnswersInv /\ [Next]_vars => AnswersInv'
<1> SUFFICES ASSUME Shape, AnswersInv, [Next]_vars PROVE AnswersInv'
  OBVIOUS
<1>1. CASE UNCHANGED vars
  BY <1>1, AnswersUntouched DEF vars
<1>2. CASE Next
  <2>1. ASSUME NEW p \in Proc, Begin(p) \/ Lock(p) PROVE AnswersInv'
    <3>1. wire' = wire /\ answer' = answer /\ got' = got
      BY <2>1 DEF Begin, Lock
    <3>2. \A t \in Search : phase'[t] = phase[t] \/ phase[t] \in {"idle", "lock", "write"}
      BY <2>1, Kinds DEF Begin, Lock, Shape, Types
    <3> QED BY <3>1, <3>2, AnswersUntouched
  <2>2. ASSUME NEW q \in Dht, DhtTimeout(q) PROVE AnswersInv'
    <3>1. wire' = wire /\ answer' = answer /\ got' = got
      BY <2>2 DEF DhtTimeout
    <3>2. \A t \in Search : phase'[t] = phase[t]
      BY <2>2, Kinds DEF DhtTimeout, Shape, Types
    <3> QED BY <3>1, <3>2, AnswersUntouched
  <2>3. CASE ReaderSteps
    <3>1. ASSUME NEW p \in Reader, AcquireRead(p) PROVE AnswersInv'
      BY <3>1, AnswersUntouched DEF AcquireRead
    <3>2. ASSUME NEW p \in Reader, Popped(p), ReceivedLength(p) PROVE AnswersInv'
      <4>1. Home(p) \in Node
        BY Ends, Kinds
      <4>2. /\ wire[Home(p)] # << >> /\ wire'[Home(p)] = Tail(wire[Home(p)])
            /\ \A n \in Node : n # Home(p) => wire'[n] = wire[n]
            /\ answer' = answer /\ got' = got /\ phase' = phase
        BY <3>2 DEF Popped, ReceivedLength
      <4> QED BY <4>1, <4>2, AnswersPopped
    <3>3. ASSUME NEW n \in Node, Popped(n), Dispatched(n, wire[n][1].frame) PROVE AnswersInv'
      BY <3>3, AnswersDispatched
    <3>4. ASSUME NEW s \in Search, Popped(s), Completed(s, wire[At[s]][1].frame) PROVE AnswersInv'
      BY <3>4, AnswersCompleted
    <3>5. ASSUME NEW s \in Search,
                 \/ GaveUp(s, wire[At[s]])
                 \/ wire[At[s]] # << >> /\ GaveUp(s, Tail(wire[At[s]]))
          PROVE  AnswersInv'
      <4>0. Home(s) = At[s] /\ At[s] \in Node /\ \A t \in Search : t \in Proc
        BY Ends, Kinds
      <4>1. answer' = answer /\ got' = got /\ \A t \in Search : phase'[t] \in {phase[t], "failed"}
        BY <3>5, <4>0 DEF GaveUp
      <4>2. CASE GaveUp(s, wire[At[s]])
        <5>1. wire' \in [Node -> Seq(Piece)] /\ wire \in [Node -> Seq(Piece)]
          BY <4>2 DEF GaveUp, Shape, Types
        <5>2. \A n \in Node : wire'[n] = wire[n]
          BY <4>0, <4>2 DEF GaveUp
        <5>3. wire' = wire
          BY <5>1, <5>2
        <5> QED BY <4>1, <5>3, AnswersUntouched
      <4>3. CASE wire[At[s]] # << >> /\ GaveUp(s, Tail(wire[At[s]]))
        <5>1. /\ wire'[At[s]] = Tail(wire[At[s]])
              /\ \A n \in Node : n # At[s] => wire'[n] = wire[n]
          BY <4>0, <4>3 DEF GaveUp
        <5> QED BY <4>0, <4>1, <4>3, <5>1, AnswersPopped
      <4> QED BY <3>5, <4>2, <4>3
    <3>6. ASSUME Close PROVE AnswersInv'
      BY <3>6, AnswersClosed
    <3>7. ASSUME NEW n \in Node, DeadlinePasses(n) PROVE AnswersInv'
      BY <3>7, AnswersUntouched DEF DeadlinePasses
    <3> QED BY <2>3, <3>1, <3>2, <3>3, <3>4, <3>5, <3>6, <3>7 DEF ReaderSteps
  <2> QED BY <1>2, <2>1, <2>2, <2>3, Steps, AnswersWritten, AnswersFailed
<1> QED BY <1>1, <1>2

\* SendSearchRequest never compares request IDs, and need not while no search of
\* the node has given up an exchange: results that it returns are its own.
THEOREM ResultsAreOwn == Spec => []AnswersMatch
<1>1. AnswersInv => AnswersMatch
  BY DEF AnswersInv
<1> QED BY <1>1, ShapeStarts, ShapeKeeps, AnswersStart, AnswersKeep, PTL DEF Spec
-----------------------------------------------------------------------------
(* What breaks the connection *)

\* The initial state.
LEMMA BlameStarts == Init => BlameInv
<1> SUFFICES ASSUME Init PROVE BlameInv
  OBVIOUS
<1>1. /\ \A n \in Node : wire[n] = << >> /\ late[n] = FALSE
      /\ \A p \in Proc : part[p] = "length"
      /\ open
  BY DEF Init
<1>2. \A p \in Reader : reads[p] # None => p \in Node /\ reads[p].part = "length"
  BY DEF Init
<1>3. OneReader
  BY <1>2, Ends DEF OneReader, Reading
<1>4. OneWriter
  BY <1>1 DEF OneWriter, Between
<1>5. ASSUME NEW n \in Node PROVE AlignedAt(n)
  <2>1. Len(wire[n]) = 0
    BY <1>1
  <2>2. Alternate(n) /\ NextFits(n)
    BY <1>1, <2>1 DEF Alternate, NextFits
  <2>3. LastIsWritten(n) /\ WriterIsLast(n)
    BY <1>1, <1>2 DEF LastIsWritten, WriterIsLast, Between, Reading
  <2> QED BY <2>2, <2>3 DEF AlignedAt
<1> QED BY <1>1, <1>3, <1>4, <1>5 DEF BlameInv, Aligned

\* An end of the connection that a step leaves alone.
LEMMA SameEnd ==
    ASSUME NEW n \in Node, AlignedAt(n), wire'[n] = wire[n],
           \A q \in Reader : Home(q) = n => reads'[q] = reads[q],
           \A q \in Proc : Home(q) = Other(n) => part'[q] = part[q],
           \A q \in Proc : Between(q, Other(n)) => Message(q)' = Message(q)
    PROVE  AlignedAt(n)'
<1>1. \A q \in Reader : /\ Reading(q, n)' <=> Reading(q, n)
                        /\ Reading(q, n) => reads'[q] = reads[q]
  BY DEF Reading, Home
<1>2. \A q \in Proc : Between(q, Other(n))' <=> Between(q, Other(n))
  BY DEF Between, Home, Other
<1>3. Alternate(n)'
  BY DEF AlignedAt, Alternate, Follows
<1>4. NextFits(n)'
  <2>1. \A q \in Reader : Reading(q, n) /\ Fits(q, wire[n][1]) => Fits(q, wire[n][1])'
    BY <1>1 DEF Fits
  <2> QED BY <1>1, <2>1 DEF AlignedAt, NextFits
<1>5. LastIsWritten(n)'
  <2>1. CASE wire[n] # << >>
    <3>1. ASSUME wire[n][Len(wire[n])].part = "length"
          PROVE  \E p \in Proc : Between(p, Other(n))' /\ Message(p)' = wire[n][Len(wire[n])].frame
      <4>1. PICK p \in Proc : Between(p, Other(n)) /\ Message(p) = wire[n][Len(wire[n])].frame
        BY <2>1, <3>1 DEF AlignedAt, LastIsWritten
      <4> QED BY <1>2, <4>1
    <3> QED BY <2>1, <3>1 DEF LastIsWritten
  <2>2. CASE wire[n] = << >>
    <3>1. ASSUME NEW q \in Reader, Reading(q, n)', reads'[q].part = "payload"
          PROVE  \E p \in Proc : Between(p, Other(n))' /\ Message(p)' = reads'[q].frame
      <4>1. Reading(q, n) /\ reads'[q] = reads[q]
        BY <1>1, <3>1
      <4>2. PICK p \in Proc : Between(p, Other(n)) /\ Message(p) = reads[q].frame
        BY <2>2, <3>1, <4>1 DEF AlignedAt, LastIsWritten
      <4> QED BY <1>2, <4>1, <4>2
    <3> QED BY <2>2, <3>1 DEF LastIsWritten
  <2> QED BY <2>1, <2>2
<1>6. WriterIsLast(n)'
  <2> SUFFICES ASSUME NEW p \in Proc, Between(p, Other(n))'
               PROVE  IF wire'[n] # << >>
                      THEN /\ wire'[n][Len(wire'[n])].part = "length"
                           /\ wire'[n][Len(wire'[n])].frame = Message(p)'
                      ELSE \E q \in Reader :
                             /\ Reading(q, n)'
                             /\ reads'[q].part = "payload" /\ reads'[q].frame = Message(p)'
    BY DEF WriterIsLast
  <2>1. Between(p, Other(n)) /\ Message(p)' = Message(p)
    BY <1>2
  <2>2. CASE wire[n] # << >>
    BY <2>1, <2>2 DEF AlignedAt, WriterIsLast
  <2>3. CASE wire[n] = << >>
    <3>1. PICK q \in Reader : /\ Reading(q, n)
                              /\ reads[q].part = "payload" /\ reads[q].frame = Message(p)
      BY <2>1, <2>3 DEF AlignedAt, WriterIsLast
    <3> QED BY <1>1, <2>1, <2>3, <3>1
  <2> QED BY <2>2, <2>3
<1> QED BY <1>3, <1>4, <1>5, <1>6 DEF AlignedAt

\* Steps that leave the wires, the readers and the writers alone.
LEMMA AlignedUntouched ==
    ASSUME Aligned, wire' = wire, reads' = reads, part' = part, answer' = answer
    PROVE  Aligned'
<1>1. OneReader' /\ OneWriter'
  BY DEF Aligned, OneReader, OneWriter, Reading, Between, Home
<1>2. \A q \in Proc : Message(q)' = Message(q)
  BY DEF Message
<1>3. \A n \in Node : AlignedAt(n)'
  BY <1>2, SameEnd DEF Aligned
<1> QED BY <1>1, <1>3 DEF Aligned

\* A writer that is blamed for nothing is alone between the pieces of messages,
\* and a reader that begins is alone.
LEMMA WritesAlone ==
    ASSUME Shape, Aligned, NEW p \in Proc, WritePiece(p), blame' = {}
    PROVE  /\ \A q \in Proc : Between(q, Home(p)) => q = p
           /\ p \in Reader => \A q \in Reader : ~Reading(q, Home(p))
<1>0. phase[p] = "write" /\ part[p] \in {"length", "payload"}
  BY DEF WritePiece, Shape, Types
<1>1. ~Mixes(p) /\ ~(p \in Search /\ Shares(p))
  BY DEF WritePiece
<1>2. ASSUME NEW q \in Proc, Between(q, Home(p)), q # p PROVE FALSE
  <2>1. Home(q) = Home(p) /\ phase[q] = "write" /\ part[q] = "payload"
    BY <1>2 DEF Between, Shape, WritersWrite
  <2>2. p \notin Dht /\ q \notin Dht
    BY <1>1, <1>2, <2>1 DEF Mixes
  <2>3. mu[Home(p)] = p /\ mu[Home(q)] = q
    BY <1>0, <2>1, <2>2 DEF Shape, LockHeld
  <2> QED BY <1>2, <2>1, <2>3
<1>3. ASSUME p \in Reader, NEW q \in Reader, Reading(q, Home(p)) PROVE FALSE
  <2>1. Home(q) = Home(p) /\ phase[q] = "read" /\ q # p
    BY <1>0, <1>3 DEF Reading, Shape, ReadersRead
  <2>2. p \in Node
    BY <1>1, <1>3, <2>1, Kinds DEF Shares, Reading
  <2>3. q \in Search
    BY <2>1, <2>2, <1>3, Kinds, Ends
  <2>4. mu[Home(p)] = p /\ mu[Home(q)] = q
    BY <1>0, <2>1, <2>2, <2>3, Kinds DEF Shape, LockHeld
  <2> QED BY <2>1, <2>4
<1> QED BY <1>2, <1>3

\* The length of a message is written.
LEMMA LengthAligned ==
    ASSUME Shape, Aligned, NEW p \in Proc, WritePiece(p), part[p] = "length", blame' = {}
    PROVE  Aligned'
<1>w. Wrote(p) /\ WroteLength(p)
  BY WriteFacts, LengthFacts
<1>0. PICK x \in Piece : x = [frame |-> Message(p), part |-> "length"]
  BY <1>w DEF Wrote
<1>1. PICK h \in Node, o \in Node : Home(p) = h /\ Other(h) = o /\ Other(o) = h /\ h # o
  BY Ends
<1>2. /\ wire'[o] = Append(wire[o], x) /\ wire'[h] = wire[h]
      /\ x.part = "length" /\ x.frame = Message(p)
  BY <1>w, <1>0, <1>1 DEF Wrote
<1>3. /\ part'[p] = "payload" /\ \A q \in Proc : q # p => part'[q] = part[q]
      /\ answer' = answer /\ reads' = reads
  BY <1>w DEF WroteLength
<1>4. \A q \in Proc : Message(q)' = Message(q)
  BY <1>3 DEF Message
<1>5. \A q \in Proc : ~Between(q, h)
  <2>1. \A q \in Proc : Between(q, h) => q = p
    BY <1>1, WritesAlone
  <2> QED BY <2>1 DEF Between
<1>6. OneReader'
  BY <1>3 DEF Aligned, OneReader, Reading, Home
<1>7. \A q \in Proc : \A n \in Node : Between(q, n)' => Between(q, n) \/ (q = p /\ n = h)
  BY <1>1, <1>3 DEF Between, Home
<1>8. OneWriter'
  <2> SUFFICES ASSUME NEW n \in Node, NEW r \in Proc, NEW q \in Proc, Between(r, n)', Between(q, n)'
               PROVE  r = q
    BY DEF OneWriter
  <2> QED BY <1>5, <1>7 DEF Aligned, OneWriter
<1>9. AlignedAt(h)'
  <2>1. \A q \in Proc : Home(q) = Other(h) => part'[q] = part[q]
    BY <1>1, <1>3
  <2> QED BY <1>2, <1>3, <1>4, <2>1, SameEnd DEF Aligned
<1>10. AlignedAt(o)'
  <2>0. AlignedAt(o) /\ wire[o] \in Seq(Piece)
    BY DEF Aligned, Shape, Types
  <2>1. PICK l \in Nat : l = Len(wire[o]) /\ (wire[o] # << >> <=> l # 0)
    BY <2>0
  <2>2. /\ Len(wire'[o]) = l + 1 /\ wire'[o] # << >> /\ wire'[o][l + 1] = x
        /\ \A i \in 1..l : wire'[o][i] = wire[o][i]
    <3>1. wire'[o] \in Seq(Piece) /\ Len(wire'[o]) = l + 1 /\ wire'[o][l + 1] = x
      BY <1>2, <2>0, <2>1, AppendPiece
    <3>2. \A i \in 1..l : wire'[o][i] = wire[o][i]
      BY <1>2, <2>0, <2>1, AppendPiece
    <3> QED BY <3>1, <3>2
  <2>3. l # 0 => wire[o][l].part # "length"
    BY <1>1, <1>5, <2>0, <2>1 DEF AlignedAt, LastIsWritten
  <2>4. Alternate(o)'
    <3> SUFFICES ASSUME NEW i \in 1..l PROVE Follows(wire'[o][i], wire'[o][i + 1])
      BY <2>2 DEF Alternate, Follows
    <3>1. CASE i = l
      BY <1>2, <2>2, <2>3, <3>1 DEF Follows
    <3>2. CASE i # l
      <4>1. i \in 1..(l - 1) /\ i + 1 \in 1..l
        BY <3>2
      <4>2. Follows(wire[o][i], wire[o][i + 1])
        BY <2>0, <2>1, <4>1 DEF AlignedAt, Alternate
      <4> QED BY <2>2, <4>1, <4>2
    <3> QED BY <3>1, <3>2
  <2>5. \A q \in Reader : /\ Reading(q, o)' <=> Reading(q, o)
                          /\ reads'[q] = reads[q]
    BY <1>3 DEF Reading, Home
  <2>6. NextFits(o)'
    <3>1. CASE l # 0
      <4>1. wire'[o][1] = wire[o][1]
        BY <2>2, <3>1
      <4>2. \A q \in Reader : Fits(q, wire[o][1]) => Fits(q, wire[o][1])'
        BY <1>3, <4>1 DEF Fits
      <4> QED BY <2>0, <2>1, <2>5, <3>1, <4>1, <4>2 DEF AlignedAt, NextFits
    <3>2. CASE l = 0
      <4>1. wire'[o][1] = x /\ wire[o] = << >>
        BY <2>1, <2>2, <3>2
      <4>2. ASSUME NEW q \in Reader, Reading(q, o) PROVE Fits(q, wire[o][1])'
        <5>1. reads[q].part # "payload"
          BY <1>1, <1>5, <2>0, <4>1, <4>2 DEF AlignedAt, LastIsWritten
        <5>2. reads[q] \in Expected
          BY <4>2 DEF Reading, Shape, Types, Opt
        <5>3. reads'[q].part = "length"
          BY <1>3, <5>1, <5>2, Frames
        <5> QED BY <1>2, <4>1, <5>3 DEF Fits
      <4> QED BY <1>2, <2>5, <4>1, <4>2 DEF NextFits
    <3> QED BY <3>1, <3>2
  <2>7. Between(p, h)'
    BY <1>1, <1>3 DEF Between, Home
  <2>8. LastIsWritten(o)'
    <3>1. \E q \in Proc : Between(q, Other(o))' /\ Message(q)' = x.frame
      BY <1>1, <1>2, <1>4, <2>7
    <3> QED BY <2>2, <3>1 DEF LastIsWritten
  <2>9. WriterIsLast(o)'
    <3>1. ASSUME NEW q \in Proc, Between(q, Other(o))' PROVE Message(q)' = x.frame
      BY <1>1, <1>2, <1>4, <1>5, <1>7, <3>1
    <3> QED BY <1>2, <2>2, <3>1 DEF WriterIsLast
  <2> QED BY <2>4, <2>6, <2>8, <2>9 DEF AlignedAt
<1>11. \A n \in Node : n = h \/ n = o
  BY <1>1, Ends
<1>12. \A n \in Node : AlignedAt(n)'
  BY <1>9, <1>10, <1>11
<1> QED BY <1>6, <1>8, <1>12 DEF Aligned

\* The payload of a message is written.
LEMMA PayloadAligned ==
    ASSUME Shape, Aligned, NEW p \in Proc, WritePiece(p), part[p] = "payload", blame' = {}
    PROVE  Aligned'
<1>w. Wrote(p) /\ WrotePayload(p)
  BY WriteFacts, PayloadFacts
<1>0. PICK x \in Piece : x = [frame |-> Message(p), part |-> "payload"]
  BY <1>w DEF Wrote
<1>1. PICK h \in Node, o \in Node : Home(p) = h /\ Other(h) = o /\ Other(o) = h /\ h # o
  BY Ends
<1>2. /\ wire'[o] = Append(wire[o], x) /\ wire'[h] = wire[h]
      /\ x.part = "payload" /\ x.frame = Message(p)
  BY <1>w, <1>0, <1>1 DEF Wrote
<1>3. /\ part'[p] = "length" /\ \A q \in Proc : q # p => part'[q] = part[q]
      /\ \A n \in Node : n # p => answer'[n] = answer[n]
      /\ \A q \in Reader : q # p => reads'[q] = reads[q]
      /\ p \in Reader => reads'[p] = [part |-> "length"]
  BY <1>w DEF WrotePayload
<1>4. \A q \in Proc : q # p => Message(q)' = Message(q)
  BY <1>3, Kinds DEF Message
<1>5. /\ \A q \in Proc : Between(q, h) => q = p
      /\ p \in Reader => \A q \in Reader : ~Reading(q, h)
  BY <1>1, WritesAlone
<1>6. Between(p, h)
  BY <1>1 DEF Between
<1>7. /\ \A q \in Proc : \A n \in Node : Between(q, n)' => Between(q, n) /\ q # p
      /\ \A q \in Proc : ~Between(q, h)'
  <2>1. \A q \in Proc : \A n \in Node : Between(q, n)' => Between(q, n) /\ q # p
    BY <1>3 DEF Between, Home
  <2> QED BY <1>5, <2>1
<1>8. OneWriter'
  <2> SUFFICES ASSUME NEW n \in Node, NEW r \in Proc, NEW q \in Proc, Between(r, n)', Between(q, n)'
               PROVE  r = q
    BY DEF OneWriter
  <2> QED BY <1>7 DEF Aligned, OneWriter
<1>9. ASSUME NEW q \in Reader, NEW n \in Node, Reading(q, n)'
      PROVE  Reading(q, n) \/ (q = p /\ n = h)
  BY <1>1, <1>3, <1>9 DEF Reading, Home
<1>10. OneReader'
  <2> SUFFICES ASSUME NEW n \in Node, NEW r \in Reader, NEW q \in Reader, Reading(r, n)', Reading(q, n)'
               PROVE  r = q
    BY DEF OneReader
  <2> QED BY <1>5, <1>9 DEF Aligned, OneReader
<1>11. AlignedAt(h)'
  <2>1. CASE p \notin Reader
    <3>1. \A q \in Reader : Home(q) = h => reads'[q] = reads[q]
      BY <1>3, <2>1
    <3>2. \A q \in Proc : Home(q) = Other(h) => part'[q] = part[q] /\ Message(q)' = Message(q)
      BY <1>1, <1>3, <1>4
    <3>3. \A q \in Proc : Between(q, Other(h)) => Message(q)' = Message(q)
      BY <3>2 DEF Between
    <3> QED BY <1>2, <3>1, <3>2, <3>3, SameEnd DEF Aligned
  <2>2. CASE p \in Reader
    <3>0. AlignedAt(h)
      BY DEF Aligned
    <3>1. Alternate(h)'
      BY <1>2, <3>0 DEF AlignedAt, Alternate, Follows
    <3>2. Reading(p, h)' /\ reads'[p].part = "length"
      <4>1. reads'[p] # None
        BY <1>3, <2>2, Frames
      <4> QED BY <1>1, <1>3, <2>2, <4>1 DEF Reading, Home
    <3>3. NextFits(h)'
      <4> SUFFICES ASSUME wire'[h] # << >>
                   PROVE  \A q \in Reader : Reading(q, h)' => Fits(q, wire[h][1])'
        BY <2>2, <3>2 DEF NextFits
      <4>1. wire'[h][1].part = "length"
        BY <1>2, <1>5, <2>2, <3>0 DEF AlignedAt, NextFits
      <4>2. Fits(p, wire[h][1])'
        BY <3>2, <4>1 DEF Fits
      <4> QED BY <1>5, <1>9, <2>2, <4>2
    <3>4. LastIsWritten(h)'
      <4>1. CASE wire[h] # << >>
        <5>1. ASSUME wire[h][Len(wire[h])].part = "length"
              PROVE  \E q \in Proc : Between(q, Other(h))' /\ Message(q)' = wire[h][Len(wire[h])].frame
          <6>1. PICK q \in Proc : Between(q, Other(h)) /\ Message(q) = wire[h][Len(wire[h])].frame
            BY <3>0, <4>1, <5>1 DEF AlignedAt, LastIsWritten
          <6>2. q # p
            BY <1>1, <6>1 DEF Between
          <6>3. Between(q, Other(h))'
            BY <1>3, <6>1, <6>2 DEF Between, Home
          <6> QED BY <1>4, <6>1, <6>2, <6>3
        <5> QED BY <1>2, <4>1, <5>1 DEF LastIsWritten
      <4>2. CASE wire[h] = << >>
        <5>1. \A q \in Reader : Reading(q, h)' => reads'[q].part # "payload"
          BY <1>5, <1>9, <2>2, <3>2
        <5> QED BY <1>2, <4>2, <5>1 DEF LastIsWritten
      <4> QED BY <4>1, <4>2
    <3>5. WriterIsLast(h)'
      <4>1. ASSUME NEW q \in Proc, Between(q, Other(h))'
            PROVE  /\ wire[h] # << >>
                   /\ wire[h][Len(wire[h])].part = "length"
                   /\ wire[h][Len(wire[h])].frame = Message(q)'
        <5>1. Between(q, Other(h)) /\ q # p
          BY <1>1, <1>7, <4>1
        <5>2. wire[h] # << >>
          BY <1>5, <2>2, <3>0, <5>1 DEF AlignedAt, WriterIsLast
        <5>3. /\ wire[h][Len(wire[h])].part = "length"
              /\ wire[h][Len(wire[h])].frame = Message(q)
          BY <3>0, <5>1, <5>2 DEF AlignedAt, WriterIsLast
        <5> QED BY <1>4, <5>1, <5>2, <5>3
      <4> QED BY <1>2, <4>1 DEF WriterIsLast
    <3> QED BY <3>1, <3>3, <3>4, <3>5 DEF AlignedAt
  <2> QED BY <2>1, <2>2
<1>12. AlignedAt(o)'
  <2>0. AlignedAt(o) /\ wire[o] \in Seq(Piece)
    BY DEF Aligned, Shape, Types
  <2>1. PICK l \in Nat : l = Len(wire[o]) /\ (wire[o] # << >> <=> l # 0)
    BY <2>0
  <2>2. /\ Len(wire'[o]) = l + 1 /\ wire'[o] # << >> /\ wire'[o][l + 1] = x
        /\ \A i \in 1..l : wire'[o][i] = wire[o][i]
    <3>1. wire'[o] \in Seq(Piece) /\ Len(wire'[o]) = l + 1 /\ wire'[o][l + 1] = x
      BY <1>2, <2>0, <2>1, AppendPiece
    <3>2. \A i \in 1..l : wire'[o][i] = wire[o][i]
      BY <1>2, <2>0, <2>1, AppendPiece
    <3> QED BY <3>1, <3>2
  <2>3. l # 0 => wire[o][l].part = "length" /\ wire[o][l].frame = Message(p)
    BY <1>1, <1>6, <2>0, <2>1 DEF AlignedAt, WriterIsLast
  <2>4. Alternate(o)'
    <3> SUFFICES ASSUME NEW i \in 1..l PROVE Follows(wire'[o][i], wire'[o][i + 1])
      BY <2>2 DEF Alternate, Follows
    <3>1. CASE i = l
      BY <1>2, <2>2, <2>3, <3>1 DEF Follows
    <3>2. CASE i # l
      <4>1. i \in 1..(l - 1) /\ i + 1 \in 1..l
        BY <3>2
      <4>2. Follows(wire[o][i], wire[o][i + 1])
        BY <2>0, <2>1, <4>1 DEF AlignedAt, Alternate
      <4> QED BY <2>2, <4>1, <4>2
    <3> QED BY <3>1, <3>2
  <2>5. \A q \in Reader : /\ Reading(q, o)' <=> Reading(q, o)
                          /\ Reading(q, o) => reads'[q] = reads[q]
    BY <1>1, <1>3 DEF Reading, Home
  <2>6. NextFits(o)'
    <3>1. CASE l # 0
      <4>1. wire'[o][1] = wire[o][1]
        BY <2>2, <3>1
      <4>2. \A q \in Reader : Reading(q, o) /\ Fits(q, wire[o][1]) => Fits(q, wire[o][1])'
        BY <2>5, <4>1 DEF Fits
      <4> QED BY <2>0, <2>1, <2>5, <3>1, <4>1, <4>2 DEF AlignedAt, NextFits
    <3>2. CASE l = 0
      <4>1. wire'[o][1] = x /\ wire[o] = << >>
        BY <2>1, <2>2, <3>2
      <4>2. PICK q \in Reader : /\ Reading(q, o)
                                /\ reads[q].part = "payload" /\ reads[q].frame = Message(p)
        BY <1>1, <1>6, <2>0, <4>1 DEF AlignedAt, WriterIsLast
      <4>3. \A r \in Reader : Reading(r, o) => r = q
        BY <4>2 DEF Aligned, OneReader
      <4>4. Fits(q, wire[o][1])'
        BY <1>2, <2>5, <4>1, <4>2 DEF Fits
      <4> QED BY <2>5, <4>2, <4>3, <4>4 DEF NextFits
    <3> QED BY <3>1, <3>2
  <2>7. LastIsWritten(o)'
    BY <1>2, <2>2 DEF LastIsWritten
  <2>8. WriterIsLast(o)'
    BY <1>1, <1>7 DEF WriterIsLast
  <2> QED BY <2>4, <2>6, <2>7, <2>8 DEF AlignedAt
<1>13. \A n \in Node : n = h \/ n = o
  BY <1>1, Ends
<1>14. \A n \in Node : AlignedAt(n)'
  BY <1>11, <1>12, <1>13
<1> QED BY <1>8, <1>10, <1>14 DEF Aligned

\* The piece that is expected is taken: the next one is what is expected then.
LEMMA PopAligned ==
    ASSUME Shape, Aligned, NEW p \in Reader, Popped(p),
           \A q \in Reader : q # p => reads'[q] = reads[q],
           \/ /\ wire[Home(p)][1].part = "length"
              /\ reads'[p] = [wire[Home(p)][1] EXCEPT !.part = "payload"]
           \/ /\ wire[Home(p)][1].part = "payload"
              /\ reads'[p] \in {None, [part |-> "length"]},
           \A q \in Proc : part[q] = "payload" => Message(q)' = Message(q)
    PROVE  Aligned'
<1>1. PICK h \in Node : Home(p) = h
  BY Ends, Kinds
<1>2. PICK c \in Piece : wire[h][1] = c
  BY <1>1 DEF Popped
<1>3. /\ wire[h] # << >> /\ wire'[h] = Tail(wire[h]) /\ part' = part
      /\ \A n \in Node : n # h => wire'[n] = wire[n]
      /\ reads[p] # None
  BY <1>1 DEF Popped
<1>4. Reading(p, h) /\ \A q \in Reader : Reading(q, h) => q = p
  BY <1>1, <1>3 DEF Reading, Aligned, OneReader
<1>5. \/ c.part = "length" /\ reads'[p].part = "payload" /\ reads'[p].frame = c.frame
      \/ c.part = "payload" /\ (reads'[p] = None \/ reads'[p].part = "length")
  <2>1. ASSUME c.part = "length"
        PROVE  reads'[p].part = "payload" /\ reads'[p].frame = c.frame
    <3>1. reads'[p] = [c EXCEPT !.part = "payload"]
      BY <1>1, <1>2, <2>1
    <3> QED BY <3>1 DEF Piece
  <2>2. ASSUME c.part = "payload"
        PROVE  reads'[p] = None \/ reads'[p].part = "length"
    BY <1>1, <1>2, <2>2
  <2>3. c.part \in {"length", "payload"}
    BY DEF Piece
  <2> QED BY <2>1, <2>2, <2>3
<1>6. \A n \in Node, q \in Reader : Reading(q, n)' => Reading(q, n)
  BY <1>1, <1>3 DEF Reading, Home
<1>7. \A n \in Node, q \in Proc : Between(q, n)' <=> Between(q, n)
  BY <1>3 DEF Between, Home
<1>8. OneReader'
  <2> SUFFICES ASSUME NEW n \in Node, NEW r \in Reader, NEW q \in Reader, Reading(r, n)', Reading(q, n)'
               PROVE  r = q
    BY DEF OneReader
  <2> QED BY <1>6 DEF Aligned, OneReader
<1>9. OneWriter'
  <2> SUFFICES ASSUME NEW n \in Node, NEW r \in Proc, NEW q \in Proc, Between(r, n)', Between(q, n)'
               PROVE  r = q
    BY DEF OneWriter
  <2> QED BY <1>7 DEF Aligned, OneWriter
<1>10. ASSUME NEW n \in Node, n # h PROVE AlignedAt(n)'
  <2>1. wire'[n] = wire[n] /\ \A q \in Reader : Home(q) = n => reads'[q] = reads[q]
    BY <1>1, <1>3, <1>10
  <2>2. \A q \in Proc : Between(q, Other(n)) => Message(q)' = Message(q)
    BY DEF Between
  <2> QED BY <1>3, <2>1, <2>2, SameEnd DEF Aligned
<1>11. AlignedAt(h)'
  <2>0. AlignedAt(h) /\ wire[h] \in Seq(Piece) /\ Other(h) \in Node
    BY Ends DEF Aligned, Shape, Types
  <2>1. PICK l \in Nat \ {0} : l = Len(wire[h])
    BY <1>3, <2>0, TailPiece
  <2>2. /\ Len(wire'[h]) = l - 1 /\ (wire'[h] # << >> <=> l # 1)
        /\ \A i \in 1..(l - 1) : wire'[h][i] = wire[h][i + 1]
    <3>1. wire'[h] \in Seq(Piece) /\ Len(wire'[h]) = l - 1
      BY <1>3, <2>0, <2>1, TailPiece
    <3>2. \A i \in 1..(l - 1) : wire'[h][i] = wire[h][i + 1]
      BY <1>3, <2>0, <2>1, TailPiece
    <3> QED BY <3>1, <3>2
  <2>3. \A i \in 1..(l - 1) : Follows(wire[h][i], wire[h][i + 1])
    BY <2>0, <2>1 DEF AlignedAt, Alternate
  <2>4. Alternate(h)'
    <3> SUFFICES ASSUME NEW i \in 1..(l - 2) PROVE Follows(wire'[h][i], wire'[h][i + 1])
      BY <2>2 DEF Alternate, Follows
    <3>1. i \in 1..(l - 1) /\ i + 1 \in 1..(l - 1)
      OBVIOUS
    <3>2. wire'[h][i] = wire[h][i + 1] /\ wire'[h][i + 1] = wire[h][(i + 1) + 1]
      BY <2>2, <3>1
    <3> QED BY <2>3, <3>1, <3>2
  <2>5. \A q \in Reader : Reading(q, h)' => q = p
    BY <1>4, <1>6
  <2>6. reads'[p] # None <=> Reading(p, h)'
    BY <1>1 DEF Reading, Home
  <2>7. NextFits(h)'
    <3> SUFFICES ASSUME l # 1
                 PROVE  /\ \A q \in Reader : Reading(q, h)' => Fits(q, wire[h][1])'
                        /\ (\A q \in Reader : ~Reading(q, h)') => wire'[h][1].part = "length"
      BY <2>2 DEF NextFits
    <3>0. 1 \in 1..(l - 1) /\ 1 + 1 = 2
      OBVIOUS
    <3>1. wire'[h][1] = wire[h][2] /\ Follows(c, wire[h][2])
      <4>1. wire'[h][1] = wire[h][1 + 1] /\ Follows(wire[h][1], wire[h][1 + 1])
        BY <2>2, <2>3, <3>0
      <4> QED BY <1>2, <3>0, <4>1
    <3>2. CASE c.part = "length"
      <4>1. /\ wire'[h][1].part = "payload" /\ wire'[h][1].frame = c.frame
            /\ reads'[p].part = "payload" /\ reads'[p].frame = c.frame
        BY <1>5, <3>1, <3>2 DEF Follows
      <4>2. Fits(p, wire[h][1])'
        BY <4>1 DEF Fits
      <4>3. reads'[p] # None
        <5>1. reads'[p] \in Piece
          BY <1>1, <1>2, <3>2, Frames
        <5> QED BY <5>1, Frames
      <4> QED BY <2>5, <2>6, <4>2, <4>3
    <3>3. CASE c.part = "payload"
      <4>1. wire'[h][1].part = "length" /\ (reads'[p] = None \/ reads'[p].part = "length")
        BY <1>5, <3>1, <3>3 DEF Follows
      <4>2. Reading(p, h)' => Fits(p, wire[h][1])'
        BY <2>6, <4>1 DEF Fits
      <4> QED BY <2>5, <4>1, <4>2
    <3> QED BY <1>5, <3>2, <3>3
  <2>8. wire'[h] # << >> => wire'[h][Len(wire'[h])] = wire[h][l]
    <3> SUFFICES ASSUME l # 1 PROVE wire'[h][l - 1] = wire[h][l]
      BY <2>2
    <3> QED BY <2>2
  <2>9. \A q \in Proc : Between(q, Other(h)) => Message(q)' = Message(q)
    BY DEF Between
  <2>10. LastIsWritten(h)'
    <3>1. ASSUME wire[h][l].part = "length"
          PROVE  \E q \in Proc : Between(q, Other(h))' /\ Message(q)' = wire[h][l].frame
      <4>1. PICK q \in Proc : Between(q, Other(h)) /\ Message(q) = wire[h][l].frame
        BY <1>3, <2>0, <2>1, <3>1 DEF AlignedAt, LastIsWritten
      <4> QED BY <1>7, <2>0, <2>9, <4>1
    <3>2. CASE wire'[h] # << >>
      BY <2>8, <3>1, <3>2 DEF LastIsWritten
    <3>3. CASE wire'[h] = << >>
      <4>1. ASSUME NEW q \in Reader, Reading(q, h)', reads'[q].part = "payload"
            PROVE  \E r \in Proc : Between(r, Other(h))' /\ Message(r)' = reads'[q].frame
        <5>1. q = p /\ l = 1
          BY <2>2, <2>5, <3>3, <4>1
        <5>2. c.part = "length" /\ reads'[q].frame = c.frame
          BY <1>5, <2>6, <4>1, <5>1
        <5> QED BY <1>2, <3>1, <5>1, <5>2
      <4> QED BY <3>3, <4>1 DEF LastIsWritten
    <3> QED BY <3>2, <3>3
  <2>11. WriterIsLast(h)'
    <3> SUFFICES ASSUME NEW q \in Proc, Between(q, Other(h))'
                 PROVE  IF wire'[h] # << >>
                        THEN /\ wire'[h][Len(wire'[h])].part = "length"
                             /\ wire'[h][Len(wire'[h])].frame = Message(q)'
                        ELSE \E r \in Reader :
                               /\ Reading(r, h)'
                               /\ reads'[r].part = "payload" /\ reads'[r].frame = Message(q)'
      BY DEF WriterIsLast
    <3>1. Between(q, Other(h)) /\ Message(q)' = Message(q)
      BY <1>7, <2>0, <2>9
    <3>2. wire[h][l].part = "length" /\ wire[h][l].frame = Message(q)
      BY <1>3, <2>0, <2>1, <3>1 DEF AlignedAt, WriterIsLast
    <3>3. CASE wire'[h] # << >>
      BY <2>8, <3>1, <3>2, <3>3
    <3>4. CASE wire'[h] = << >>
      <4>1. c.part = "length" /\ c.frame = Message(q)
        BY <1>2, <2>2, <3>2, <3>4
      <4>2. reads'[p].part = "payload" /\ reads'[p].frame = Message(q)'
        BY <1>5, <3>1, <4>1
      <4>3. reads'[p] # None
        <5>1. reads'[p] \in Piece
          BY <1>1, <1>2, <4>1, Frames
        <5> QED BY <5>1, Frames
      <4> QED BY <2>6, <3>4, <4>2, <4>3
    <3> QED BY <3>3, <3>4
  <2> QED BY <2>4, <2>7, <2>10, <2>11 DEF AlignedAt
<1> QED BY <1>8, <1>9, <1>10, <1>11 DEF Aligned

\* A reader of an aligned connection before its deadline has no error to report.
LEMMA NothingMisread ==
    ASSUME BlameInv, blame = {}, NEW p \in Reader, Misreads(p)
    PROVE  FALSE
<1>1. Home(p) \in Node /\ Aligned
  BY Ends, Kinds DEF BlameInv
<1>2. ~late[Home(p)]
  BY <1>1 DEF BlameInv
<1>3. reads[p] # None /\ wire[Home(p)] # << >> /\ ~Fits(p, wire[Home(p)][1])
  BY <1>2 DEF Misreads
<1>4. NextFits(Home(p))
  BY <1>1 DEF Aligned, AlignedAt
<1> QED BY <1>3, <1>4 DEF NextFits, Reading

\* Every step that is blamed for nothing keeps the connection open and aligned.
LEMMA BlameKeeps == Shape /\ BlameInv /\ [Next]_vars => BlameInv'
<1> SUFFICES ASSUME Shape, BlameInv, [Next]_vars PROVE BlameInv'
  OBVIOUS
<1>0. \A n \in Node : late[n] => "timeout" \in blame
  BY DEF BlameInv
<1>a. ASSUME blame' = blame, open' = open, \A n \in Node : late'[n] => late[n],
             blame = {} /\ Aligned => Aligned'
      PROVE  BlameInv'
  BY <1>0, <1>a DEF BlameInv
<1>b. ASSUME blame' = blame, open' = open, late' = late, wire' = wire, reads' = reads,
             part' = part, answer' = answer
      PROVE  BlameInv'
  BY <1>a, <1>b, AlignedUntouched
<1>1. CASE UNCHANGED vars
  BY <1>1, <1>b DEF vars
<1>2. CASE Next
  <2>1. ASSUME NEW p \in Proc, Begin(p) \/ Lock(p) PROVE BlameInv'
    BY <2>1, <1>b DEF Begin, Lock
  <2>2. ASSUME NEW q \in Dht, DhtTimeout(q) PROVE BlameInv'
    BY <2>2, <1>b DEF DhtTimeout
  <2>3. ASSUME NEW p \in Proc, WritePiece(p) PROVE BlameInv'
    <3>0. part[p] \in {"length", "payload"}
      BY DEF Shape, Types
    <3>w. Wrote(p)
      BY <2>3, WriteFacts
    <3>1. \A n \in Node : late'[n] => late[n]
      <4>1. CASE part[p] = "length"
        BY <2>3, <4>1, LengthFacts DEF WroteLength
      <4>2. CASE part[p] = "payload"
        BY <2>3, <4>2, PayloadFacts DEF WrotePayload
      <4> QED BY <3>0, <4>1, <4>2
    <3>2. blame \subseteq blame'
      BY <2>3 DEF WritePiece
    <3>3. ASSUME blame' = {} PROVE open' /\ Aligned'
      <4>1. open /\ Aligned
        BY <3>2, <3>3 DEF BlameInv
      <4>2. Aligned'
        BY <2>3, <3>0, <3>3, <4>1, LengthAligned, PayloadAligned
      <4> QED BY <3>w, <4>1, <4>2 DEF Wrote
    <3> QED BY <1>0, <3>1, <3>2, <3>3 DEF BlameInv
  <2>f. ASSUME NEW p \in Proc, WriteFails(p) PROVE BlameInv'
    BY <2>f, FailFacts DEF FailedWrite, BlameInv
  <2>4. CASE ReaderSteps
    <3>1. ASSUME NEW p \in Reader, AcquireRead(p) PROVE BlameInv'
      BY <3>1, <1>b DEF AcquireRead
    <3>2. ASSUME NEW p \in Reader, Popped(p), ReceivedLength(p) PROVE BlameInv'
      <4>1. blame' = blame /\ open' = open /\ late' = late /\ answer' = answer
        BY <3>2 DEF Popped, ReceivedLength
      <4>2. \A q \in Proc : Message(q)' = Message(q)
        BY <4>1 DEF Message
      <4>3. /\ \A q \in Reader : q # p => reads'[q] = reads[q]
            /\ wire[Home(p)][1].part = "length"
            /\ reads'[p] = [wire[Home(p)][1] EXCEPT !.part = "payload"]
        BY <3>2 DEF ReceivedLength
      <4>4. Aligned => Aligned'
        BY <3>2, <4>2, <4>3, PopAligned
      <4> QED BY <1>a, <4>1, <4>4
    <3>3. ASSUME NEW n \in Node, Popped(n), Dispatched(n, wire[n][1].frame) PROVE BlameInv'
      <4>0. Home(n) = n /\ n \in Reader /\ n \in Proc
        BY Ends, Kinds
      <4>1. blame' = blame /\ open' = open /\ \A m \in Node : late'[m] => late[m]
        BY <3>3 DEF Popped, Dispatched
      <4>2. part[n] # "payload"
        BY <3>3, <4>0 DEF Popped, Shape, WritersWrite
      <4>3. \A m \in Node : m # n => answer'[m] = answer[m]
        BY <3>3 DEF Dispatched
      <4>4. \A q \in Proc : part[q] = "payload" => Message(q)' = Message(q)
        BY <4>2, <4>3, Kinds DEF Message
      <4>5. /\ \A q \in Reader : q # n => reads'[q] = reads[q]
            /\ wire[Home(n)][1].part = "payload"
            /\ reads'[n] \in {None, [part |-> "length"]}
        BY <3>3, <4>0 DEF Dispatched
      <4>6. Aligned => Aligned'
        BY <3>3, <4>0, <4>4, <4>5, PopAligned
      <4> QED BY <1>a, <4>1, <4>6
    <3>4. ASSUME NEW s \in Search, Popped(s), Completed(s, wire[At[s]][1].frame) PROVE BlameInv'
      <4>0. Home(s) = At[s] /\ s \in Reader
        BY Ends, Kinds
      <4>1. blame' = blame /\ open' = open /\ late' = late /\ answer' = answer
        BY <3>4 DEF Popped, Completed
      <4>2. \A q \in Proc : Message(q)' = Message(q)
        BY <4>1 DEF Message
      <4>3. /\ \A q \in Reader : q # s => reads'[q] = reads[q]
            /\ wire[Home(s)][1].part = "payload"
            /\ reads'[s] \in {None, [part |-> "length"]}
        BY <3>4, <4>0 DEF Completed
      <4>4. Aligned => Aligned'
        BY <3>4, <4>0, <4>2, <4>3, PopAligned
      <4> QED BY <1>a, <4>1, <4>4
    <3>5. ASSUME NEW s \in Search, Misreads(s), NEW rest, GaveUp(s, rest) PROVE BlameInv'
      <4>1. blame' = blame /\ late' = late
        BY <3>5 DEF GaveUp
      <4>2. blame # {}
        BY <3>5, NothingMisread, Kinds
      <4> QED BY <1>0, <4>1, <4>2 DEF BlameInv
    <3>6. ASSUME NEW n \in Node, Misreads(n), Close, blame' = blame PROVE BlameInv'
      <4>1. late' = late
        BY <3>6 DEF Close
      <4>2. blame # {}
        BY <3>6, NothingMisread, Kinds
      <4> QED BY <1>0, <3>6, <4>1, <4>2 DEF BlameInv
    <3>7. ASSUME NEW n \in Node, DeadlinePasses(n) PROVE BlameInv'
      BY <1>0, <3>7 DEF DeadlinePasses, BlameInv
    <3>8. ASSUME Close, blame' = blame \cup {"network"} PROVE BlameInv'
      <4>1. late' = late
        BY <3>8 DEF Close
      <4> QED BY <1>0, <3>8, <4>1 DEF BlameInv
    <3> QED BY <2>4, <3>1, <3>2, <3>3, <3>4, <3>5, <3>6, <3>7, <3>8 DEF ReaderSteps
  <2> QED BY <1>2, <2>1, <2>2, <2>3, <2>f, <2>4, Steps
<1> QED BY <1>1, <1>2

\* The read loop closes the connection only for a cause: as long as no deadline
\* passes, no search reads beside the loop, no DHT request writes beside another
\* writer and the network holds, every reader finds the piece that it expects.
THEOREM BreaksForCause == Spec => []LinkBreaksForCause
<1>1. BlameInv => LinkBreaksForCause
  BY DEF BlameInv, LinkBreaksForCause
<1> QED BY <1>1, ShapeStarts, ShapeKeeps, BlameStarts, BlameKeeps, PTL DEF Spec
-----------------------------------------------------------------------------
(* Who holds pc.mu *)

\* Whoever holds pc.mu of n is a goroutine of n at work on an open connection,
\* and is not waiting for another lock: a writer can write, and a search that
\* reads gets the connection, or else a goroutine that reads before it does and
\* for which bytes are there, or whose deadline has passed or is to pass.
HoldersMove ==
    \A n \in Node : mu[n] # None =>
        /\ open /\ Home(mu[n]) = n
        /\ \/ phase[mu[n]] = "write"
           \/ /\ mu[n] \in Search /\ reads[mu[n]] # None
              /\ \/ fd[n] = None
                 \/ fd[n] \in Reader /\ Home(fd[n]) = n /\ reads[fd[n]] # None

\* A held lock has a holder at work, and nobody is on a closed connection.
HoldersWork == \A n \in Node : mu[n] # None => Home(mu[n]) = n /\ AtWork(mu[n], phase[mu[n]])
ClosedRests == open \/ \A p \in Proc : phase[p] \notin {"lock", "write", "read", "wait"}
LocksInv == HoldersWork /\ ClosedRests

\* A step in which only p, if anybody, takes itself out of its work, and gives
\* the lock back with it.
LEMMA HoldersAfter ==
    ASSUME Shape, LocksInv, NEW p \in Proc,
           \A q \in Proc : q # p /\ AtWork(q, phase[q]) => phase'[q] = phase[q],
           \/ mu' = mu /\ (AtWork(p, phase[p]) => AtWork(p, phase'[p]))
           \/ mu' = Released(p)
    PROVE  HoldersWork'
<1> SUFFICES ASSUME NEW n \in Node, mu'[n] # None
             PROVE  Home(mu'[n]) = n /\ AtWork(mu'[n], phase'[mu'[n]])
  BY DEF HoldersWork, Home, AtWork
<1>1. mu[n] # None => mu[n] \in Proc /\ Home(mu[n]) = n /\ AtWork(mu[n], phase[mu[n]])
  BY DEF Shape, Types, Opt, LocksInv, HoldersWork
<1>2. CASE mu' = mu /\ (AtWork(p, phase[p]) => AtWork(p, phase'[p]))
  <2>1. CASE mu[n] = p
    BY <1>1, <1>2, <2>1
  <2>2. CASE mu[n] # p
    BY <1>1, <1>2, <2>2 DEF AtWork
  <2> QED BY <2>1, <2>2
<1>3. CASE mu' = Released(p)
  <2>1. mu[n] # p /\ mu'[n] = mu[n]
    <3>1. CASE mu[n] = p
      <4>1. Home(p) = n /\ Released(p)[n] = None
        BY <1>1, <3>1, Kinds DEF Shape, Types, Released
      <4> QED BY <1>3, <4>1
    <3>2. CASE mu[n] # p
      BY <1>3, <3>2, ReleasedKeeps
    <3> QED BY <3>1, <3>2
  <2> QED BY <1>1, <2>1 DEF AtWork
<1> QED BY <1>2, <1>3

\* Every step keeps it.
LEMMA LocksKeep == Shape /\ LocksInv /\ [Next]_vars => LocksInv'
<1> SUFFICES ASSUME Shape, LocksInv, [Next]_vars PROVE LocksInv'
  OBVIOUS
<1>0. \A p \in Proc : phase[p] \in Phase
  BY DEF Shape, Types
<1>1. CASE UNCHANGED vars
  BY <1>1 DEF vars, LocksInv, HoldersWork, ClosedRests, AtWork, Home
<1>2. ASSUME NEW p \in Proc, Begin(p) PROVE LocksInv'
  <2>1. /\ open /\ open' /\ mu' = mu /\ phase[p] = "idle"
        /\ \A q \in Proc : q # p => phase'[q] = phase[q]
    BY <1>2 DEF Begin, Shape, Types
  <2>2. HoldersWork'
    BY <2>1, HoldersAfter DEF AtWork
  <2> QED BY <2>1, <2>2 DEF LocksInv, ClosedRests
<1>3. ASSUME NEW p \in Proc, Lock(p) PROVE LocksInv'
  <2>1. /\ phase[p] = "lock" /\ phase'[p] = "write" /\ open' = open
        /\ \A q \in Proc : q # p => phase'[q] = phase[q]
        /\ \A n \in Node : mu'[n] = IF n = Home(p) THEN p ELSE mu[n]
    BY <1>3 DEF Lock, Shape, Types
  <2>2. ASSUME NEW n \in Node, mu'[n] # None PROVE Home(mu'[n]) = n /\ AtWork(mu'[n], phase'[mu'[n]])
    <3>1. CASE n = Home(p)
      BY <2>1, <3>1 DEF AtWork
    <3>2. CASE n # Home(p)
      <4>1. mu[n] \in Proc /\ Home(mu[n]) = n /\ AtWork(mu[n], phase[mu[n]]) /\ mu'[n] = mu[n]
        BY <2>1, <2>2, <3>2 DEF Shape, Types, Opt, LocksInv, HoldersWork
      <4> QED BY <2>1, <3>2, <4>1 DEF AtWork
    <3> QED BY <3>1, <3>2
  <2>3. HoldersWork'
    BY <2>2 DEF HoldersWork, Home, AtWork
  <2> QED BY <2>1, <2>3 DEF LocksInv, ClosedRests
<1>4. ASSUME NEW p \in Proc, WritePiece(p) PROVE LocksInv'
  <2>w. Wrote(p)
    BY <1>4, WriteFacts
  <2>1. CASE part[p] = "length"
    <3>1. WroteLength(p)
      BY <1>4, <2>1, LengthFacts
    <3> QED BY <2>w, <3>1 DEF Wrote, WroteLength, LocksInv, HoldersWork, ClosedRests, AtWork, Home
  <2>2. CASE part[p] = "payload"
    <3>1. WrotePayload(p)
      BY <1>4, <2>2, PayloadFacts
    <3>2. p \in Search => AfterWrite(p) = "read"
      BY Kinds DEF AfterWrite
    <3>3. HoldersWork'
      BY <3>1, <3>2, HoldersAfter DEF WrotePayload, AtWork
    <3> QED BY <2>w, <3>3 DEF Wrote, LocksInv, ClosedRests
  <2> QED BY <2>1, <2>2 DEF Shape, Types
<1>f. ASSUME NEW p \in Proc, WriteFails(p) PROVE LocksInv'
  <2>1. FailedWrite(p)
    BY <1>f, FailFacts
  <2>2. HoldersWork'
    BY <2>1, HoldersAfter DEF FailedWrite
  <2> QED BY <2>1, <2>2 DEF FailedWrite, LocksInv, ClosedRests
<1>5. ASSUME NEW q \in Dht, DhtTimeout(q) PROVE LocksInv'
  <2>1. /\ q \in Proc /\ q \notin Search
        /\ open' = open /\ mu' = mu /\ phase[q] = "wait" /\ phase'[q] = "failed"
        /\ \A r \in Proc : r # q => phase'[r] = phase[r]
    BY <1>5, Kinds DEF DhtTimeout, Shape, Types
  <2>2. HoldersWork'
    BY <2>1, HoldersAfter DEF AtWork
  <2> QED BY <2>1, <2>2 DEF LocksInv, ClosedRests
<1>6. ASSUME Close PROVE LocksInv'
  <2>1. HoldersWork'
    BY <1>6 DEF Close, HoldersWork
  <2>2. ClosedRests'
    BY <1>6 DEF Close, ClosedRests
  <2> QED BY <2>1, <2>2 DEF LocksInv
<1>7. ASSUME UNCHANGED <<open, mu, phase>> PROVE LocksInv'
  BY <1>7 DEF LocksInv, HoldersWork, ClosedRests, AtWork, Home
<1>8. ASSUME NEW n \in Node, NEW f, Popped(n), Dispatched(n, f) PROVE LocksInv'
  <2>0. n \in Proc /\ n \notin Search
    BY Kinds
  <2>1. open /\ open' /\ mu' = mu /\ phase[n] = "read"
    BY <1>8 DEF Popped, Dispatched
  <2>2. \A q \in Proc : q # n /\ AtWork(q, phase[q]) => phase'[q] = phase[q]
    BY <1>8, Kinds DEF Dispatched, AtWork
  <2>3. HoldersWork'
    BY <2>0, <2>1, <2>2, HoldersAfter DEF AtWork
  <2> QED BY <2>1, <2>3 DEF LocksInv, ClosedRests
<1>9. ASSUME NEW s \in Search, NEW f, Popped(s), Completed(s, f) PROVE LocksInv'
  <2>1. s \in Proc /\ open' /\ mu' = Released(s) /\ \A q \in Proc : q # s => phase'[q] = phase[q]
    BY <1>9, Kinds DEF Popped, Completed
  <2>2. HoldersWork'
    BY <2>1, HoldersAfter
  <2> QED BY <2>1, <2>2 DEF LocksInv, ClosedRests
<1>10. ASSUME NEW s \in Search, NEW rest, GaveUp(s, rest) PROVE LocksInv'
  <2>1. /\ s \in Proc /\ open' = open /\ mu' = Released(s) /\ phase'[s] = "failed"
        /\ \A q \in Proc : q # s => phase'[q] = phase[q]
    BY <1>10, Kinds DEF GaveUp
  <2>2. HoldersWork'
    BY <2>1, HoldersAfter
  <2> QED BY <2>1, <2>2 DEF LocksInv, ClosedRests
<1>11. ASSUME NEW p \in Reader, AcquireRead(p) \/ (Popped(p) /\ ReceivedLength(p)) PROVE LocksInv'
  BY <1>7, <1>11 DEF AcquireRead, Popped, ReceivedLength
<1>12. ASSUME NEW n \in Node, DeadlinePasses(n) PROVE LocksInv'
  BY <1>7, <1>12 DEF DeadlinePasses
<1>13. CASE ReaderSteps
  BY <1>6, <1>8, <1>9, <1>10, <1>11, <1>12, <1>13 DEF ReaderSteps
<1> QED BY <1>1, <1>2, <1>3, <1>4, <1>f, <1>5, <1>13, Steps

\* The lock at any time.
LEMMA LocksAlways == Spec => [](Shape /\ LocksInv)
<1>1. Init => LocksInv
  BY DEF Init, LocksInv, HoldersWork, ClosedRests
<1> QED BY <1>1, ShapeStarts, ShapeKeeps, LocksKeep, PTL DEF Spec

\* Goroutines, locks and frames keep their types: a read that waits for bytes
\* is a read that has begun, and a lock is held by a goroutine at work, whoever
\* times out, answers or closes.
THEOREM LinkTypeCorrect == Spec => []TypeOK
<1>1. Shape /\ LocksInv => TypeOK
  BY DEF Shape, LocksInv, HoldersWork, TypeOK
<1> QED BY <1>1, LocksAlways, PTL

\* pc.mu is never left behind, nor held by a goroutine that waits for a lock:
\* whoever holds it has a step of its own, or a reader of the same connection
\* has one before it, whatever the two registries ask of each other. Every
\* return of SendSearchRequest, an error or a deadline, has unlocked it.
THEOREM LocksAreHeldAtWork == Spec => []HoldersMove
<1>2. ASSUME Shape, LocksInv PROVE HoldersMove
  <2> SUFFICES ASSUME NEW n \in Node, mu[n] # None
               PROVE  /\ open /\ Home(mu[n]) = n
                      /\ \/ phase[mu[n]] = "write"
                         \/ /\ mu[n] \in Search /\ reads[mu[n]] # None
                            /\ \/ fd[n] = None
                               \/ fd[n] \in Reader /\ Home(fd[n]) = n /\ reads[fd[n]] # None
    BY DEF HoldersMove
  <2>1. mu[n] \in Proc /\ Home(mu[n]) = n /\ AtWork(mu[n], phase[mu[n]])
    BY <1>2 DEF Shape, Types, Opt, LocksInv, HoldersWork
  <2>2. open
    BY <1>2, <2>1 DEF LocksInv, ClosedRests, AtWork
  <2>3. mu[n] \in Search /\ phase[mu[n]] = "read" => reads[mu[n]] # None
    BY <1>2, Kinds DEF Shape, ReadersRead
  <2>4. fd[n] # None => fd[n] \in Reader /\ Home(fd[n]) = n /\ reads[fd[n]] # None
    BY <1>2 DEF Shape, Types, OwnReads, Opt
  <2> QED BY <2>1, <2>2, <2>3, <2>4 DEF AtWork
<1> QED BY <1>2, LocksAlways, PTL
=============================================================================
