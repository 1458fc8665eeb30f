---------------------------- MODULE NodeProofs -----------------------------
(***************************************************************************)
(* The smaller parts of a node, for every value of their constants: the    *)
(* bucket of Routing, the bus of Gateway and the caches of Cards, each     *)
(* with the invariant that every step keeps, and the types of all parts    *)
(* together.                                                               *)
(***************************************************************************)
EXTENDS MCNode, SequenceTheorems, FiniteSetTheorems, WellFoundedInduction, TLAPS

\* A set of numbers that is not empty has a least one.
LEMMA LeastOf ==
    ASSUME NEW S \in SUBSET Nat, S # {}
    PROVE  \E x \in S : \A y \in S : x <= y
<1> DEFINE T == {1..n : n \in S}
<1>1. T \subseteq FiniteSubsetsOf(Nat) /\ T # {}
  <2>1. ASSUME NEW n \in S PROVE 1..n \in FiniteSubsetsOf(Nat)
    BY FS_Interval DEF FiniteSubsetsOf
  <2> QED BY <2>1
<1>2. PICK t \in T : \A u \in T : ~(<<u, t>> \in StrictSubsetOrdering(Nat))
  BY <1>1, FS_StrictSubsetOrderingWellFounded, WFMin
<1>3. PICK x \in S : t = 1..x
  BY <1>2
<1>4. ASSUME NEW y \in S, y < x PROVE FALSE
  <2>1. 1..y \in SUBSET Nat /\ 1..x \in SUBSET Nat /\ 1..y \subseteq 1..x
    BY <1>4
  <2>2. x \in 1..x /\ x \notin 1..y
    BY <1>4
  <2>3. <<1..y, 1..x>> \in StrictSubsetOrdering(Nat)
    BY <2>1, <2>2 DEF StrictSubsetOrdering
  <2> QED BY <1>2, <1>3, <2>3
<1> QED BY <1>4

\* What is left of a sequence without its element at position at.
LEMMA RemoveAtProperties ==
    ASSUME NEW S, NEW b \in Seq(S), NEW at \in 1..Len(b)
    PROVE  LET n == Len(b)
               r == RemoveAt(b, at)
           IN  /\ r \in Seq(S) /\ Len(r) = n - 1
               /\ DOMAIN b = 1..n /\ DOMAIN r = 1..(n - 1)
               /\ \A k \in 1..(at - 1) : r[k] = b[k]
               /\ \A k \in at..(n - 1) : r[k] = b[k + 1]
<1>a. PICK n \in Nat : n = Len(b) /\ at \in 1..n
  BY LenProperties
<1>b. PICK r : r = RemoveAt(b, at)
  OBVIOUS
<1>0. \A k \in 1..n : b[k] \in S
  BY <1>a, ElementOfSeq
<1>1. PICK p : p = SubSeq(b, 1, at - 1)
  OBVIOUS
<1>2. PICK q : q = SubSeq(b, at + 1, n)
  OBVIOUS
<1>3. /\ p \in Seq(S) /\ Len(p) = at - 1
      /\ \A k \in 1..(at - 1) : p[k] = b[k]
  <2>1. \A k \in 1..(at - 1) : b[k] \in S
    BY <1>a, <1>0
  <2> QED BY <1>a, <1>1, <2>1, SubSeqProperties
<1>4. /\ q \in Seq(S) /\ Len(q) = n - at
      /\ \A k \in 1..(n - at) : q[k] = b[at + k]
  <2>1. \A k \in (at + 1)..n : b[k] \in S
    BY <1>a, <1>0
  <2> QED BY <1>a, <1>2, <2>1, SubSeqProperties
<1>5. r = p \o q
  BY <1>a, <1>b, <1>1, <1>2 DEF RemoveAt
<1>6. /\ r \in Seq(S) /\ Len(r) = Len(p) + Len(q)
      /\ \A k \in 1..(Len(p) + Len(q)) :
            r[k] = IF k <= Len(p) THEN p[k] ELSE q[k - Len(p)]
  <2>1. p \in Seq(S) /\ q \in Seq(S)
    BY <1>3, <1>4
  <2>2. /\ p \o q \in Seq(S) /\ Len(p \o q) = Len(p) + Len(q)
        /\ \A k \in 1..(Len(p) + Len(q)) :
              (p \o q)[k] = IF k <= Len(p) THEN p[k] ELSE q[k - Len(p)]
    BY <2>1, ConcatProperties, Zenon
  <2> QED BY <1>5, <2>2, Zenon
<1>7. Len(p) + Len(q) = n - 1 /\ Len(p) = at - 1
  BY <1>a, <1>3, <1>4
<1>8. ASSUME NEW k \in 1..(at - 1) PROVE r[k] = b[k]
  <2>1. k \in 1..(n - 1) /\ k <= at - 1
    BY <1>a
  <2>2. r[k] = p[k]
    BY <1>6, <1>7, <2>1
  <2> QED BY <1>3, <2>2
<1>9. ASSUME NEW k \in at..(n - 1) PROVE r[k] = b[k + 1]
  <2>1. k \in 1..(n - 1) /\ ~(k <= at - 1) /\ k - (at - 1) \in 1..(n - at)
    BY <1>a
  <2>2. r[k] = q[k - (at - 1)]
    BY <1>6, <1>7, <2>1
  <2>3. q[k - (at - 1)] = b[at + (k - (at - 1))]
    BY <1>4, <2>1
  <2>4. at + (k - (at - 1)) = k + 1
    BY <1>a
  <2> QED BY <2>2, <2>3, <2>4
<1>10. DOMAIN b = 1..n /\ DOMAIN r = 1..(n - 1)
  BY <1>a, <1>6, <1>7, LenProperties
<1>11. /\ r \in Seq(S) /\ Len(r) = n - 1
       /\ DOMAIN b = 1..n /\ DOMAIN r = 1..(n - 1)
       /\ \A k \in 1..(at - 1) : r[k] = b[k]
       /\ \A k \in at..(n - 1) : r[k] = b[k + 1]
  BY <1>6, <1>7, <1>8, <1>9, <1>10
<1> QED BY <1>a, <1>b, <1>11, Zenon
-----------------------------------------------------------------------------
(* Routing *)

\* A bucket with one entry more.
LEMMA Appended ==
    ASSUME NEW b \in Seq(Entry), NEW e \in Entry
    PROVE  /\ Append(b, e) \in Seq(Entry) /\ Len(Append(b, e)) = Len(b) + 1
           /\ DOMAIN Append(b, e) = 1..(Len(b) + 1)
           /\ \A i \in 1..(Len(b) + 1) :
                 Append(b, e)[i] = IF i <= Len(b) THEN b[i] ELSE e
  OBVIOUS

\* The n places of m hold the contacts of those of b in another order.
Reordered(m, b, n) ==
    \E was \in [1..n -> 1..n] :
        /\ \A k \in 1..n : m[k].id = b[was[k]].id
        /\ \A i, j \in 1..n : was[i] = was[j] => i = j

\* Moving a contact to the tail keeps the length of a bucket, and its contacts in
\* another order (KBucket.AddOrUpdate, the update).
LEMMA MovedToTailKeeps ==
    ASSUME NEW b \in Seq(Entry), NEW e \in Entry, e.id \in Ids(b)
    PROVE  LET m == MovedToTail(b, e)
           IN  m \in Seq(Entry) /\ Len(m) = Len(b) /\ Reordered(m, b, Len(b))
<1>1. PICK n \in Nat : n = Len(b)
  BY LenProperties
<1>2. PICK m : m = MovedToTail(b, e)
  OBVIOUS
<1>3. DOMAIN b = 1..n
  BY <1>1, LenProperties
<1>4. PICK at \in 1..n : b[at].id = e.id /\ m = Append(RemoveAt(b, at), e)
  <2>1. PICK i \in 1..n : b[i].id = e.id
    BY <1>3 DEF Ids
  <2> DEFINE P == {k \in 1..n : b[k].id = e.id}
  <2>2. i \in P /\ P \subseteq Nat
    BY <2>1
  <2>3. PICK j \in P : \A k \in P : j <= k
    BY <2>2, LeastOf
  <2>4. j \in DOMAIN b /\ b[j].id = e.id /\ \A k \in 1..(j - 1) : b[k].id # e.id
    BY <2>3, <1>3
  <2> HIDE DEF P
  <2>5. \E x \in DOMAIN b : b[x].id = e.id /\ \A k \in 1..(x - 1) : b[k].id # e.id
    BY <2>4
  <2> QED BY <1>2, <1>3, <2>5 DEF MovedToTail
<1>5. PICK r : r = RemoveAt(b, at)
  OBVIOUS
<1>6. /\ r \in Seq(Entry) /\ Len(r) = n - 1
      /\ \A k \in 1..(at - 1) : r[k] = b[k]
      /\ \A k \in at..(n - 1) : r[k] = b[k + 1]
  <2>1. at \in 1..Len(b)
    BY <1>1
  <2> QED BY <1>1, <1>5, <2>1, RemoveAtProperties, Zenon
<1>7. /\ m \in Seq(Entry) /\ Len(m) = n /\ DOMAIN m = 1..n /\ m[n] = e
      /\ \A k \in 1..(n - 1) : m[k] = r[k]
  <2>1. /\ m \in Seq(Entry) /\ Len(m) = Len(r) + 1 /\ m[Len(r) + 1] = e
        /\ \A k \in 1..Len(r) : m[k] = r[k]
    BY <1>4, <1>5, <1>6, AppendProperties
  <2>2. Len(r) + 1 = n /\ Len(r) = n - 1
    BY <1>6
  <2> QED BY <2>1, <2>2, LenProperties
<1> DEFINE was == [k \in 1..n |-> IF k < at THEN k ELSE IF k < n THEN k + 1 ELSE at]
<1>8. ASSUME NEW k \in 1..n PROVE m[k].id = b[was[k]].id
  <2>1. CASE k < at
    <3>1. k \in 1..(at - 1) /\ k \in 1..(n - 1) /\ was[k] = k
      BY <2>1
    <3> QED BY <1>6, <1>7, <3>1
  <2>2. CASE ~(k < at) /\ k < n
    <3>1. k \in at..(n - 1) /\ k \in 1..(n - 1) /\ was[k] = k + 1
      BY <2>2
    <3> QED BY <1>6, <1>7, <3>1
  <2>3. CASE ~(k < at) /\ ~(k < n)
    <3>1. k = n /\ was[k] = at
      BY <2>3
    <3> QED BY <1>4, <1>7, <3>1
  <2> QED BY <2>1, <2>2, <2>3
<1>9. was \in [1..n -> 1..n]
  OBVIOUS
<1>10. \A i, j \in 1..n : was[i] = was[j] => i = j
  OBVIOUS
<1> HIDE DEF was
<1>11. Reordered(m, b, n)
  BY <1>8, <1>9, <1>10 DEF Reordered
<1> QED BY <1>1, <1>2, <1>7, <1>11, Zenon

\* The places of the bucket have links of their own, whichever handlers wait.
Linked(b, p) == \E f \in [DOMAIN b -> Loop] : LinksFor(f, b, p)

\* AddOrUpdate keeps a bucket within K places and each with a link of its own,
\* the one of a new contact being the link l that its message came by.
LEMMA AddOrUpdateKeeps ==
    ASSUME NEW b \in Seq(Entry), NEW e \in Entry, NEW p, Len(b) <= K, Linked(b, p),
           \/ IsFull(b)
           \/ \E l \in Loop : PeerOf[l] = e.id /\ p[l] = NoEntry
    PROVE  LET m == AddOrUpdate(b, e)
           IN  /\ m \in Seq(Entry) /\ Len(m) <= K /\ Linked(m, p)
               /\ IsFull(b) => IsFull(m)
<1> USE RoutingAssumption
<1>0. PICK n \in Nat : n = Len(b) /\ DOMAIN b = 1..n
  BY LenProperties
<1>f. PICK f \in [1..n -> Loop] : LinksFor(f, b, p)
  BY <1>0 DEF Linked
<1>1. CASE e.id \in Ids(b)
  <2>1. PICK m : m = MovedToTail(b, e)
    OBVIOUS
  <2>2. m \in Seq(Entry) /\ Len(m) = n /\ Reordered(m, b, n)
    BY <1>0, <1>1, <2>1, MovedToTailKeeps, Zenon
  <2>3. PICK was \in [1..n -> 1..n] :
              /\ \A k \in 1..n : m[k].id = b[was[k]].id
              /\ \A i, j \in 1..n : was[i] = was[j] => i = j
    BY <2>2 DEF Reordered
  <2> DEFINE g == [k \in 1..n |-> f[was[k]]]
  <2>4. DOMAIN m = 1..n
    BY <2>2, LenProperties
  <2>5. g \in [1..n -> Loop]
    BY <1>f, <2>3
  <2>6. \A k \in 1..n : PeerOf[g[k]] = m[k].id /\ p[g[k]] = NoEntry
    BY <1>0, <1>f, <2>3 DEF LinksFor
  <2>7. ASSUME NEW i \in 1..n, NEW j \in 1..n, g[i] = g[j] PROVE i = j
    <3>1. was[i] \in 1..n /\ was[j] \in 1..n /\ f[was[i]] = f[was[j]]
      BY <2>3, <2>7
    <3>2. was[i] = was[j]
      BY <1>0, <1>f, <3>1 DEF LinksFor
    <3> QED BY <2>3, <3>2
  <2> HIDE DEF g
  <2>a. LinksFor(g, m, p)
    <3>1. \A i, j \in 1..n : g[i] = g[j] => i = j
      BY <2>7
    <3> QED BY <2>4, <2>5, <2>6, <3>1 DEF LinksFor
  <2>8. Linked(m, p)
    BY <2>4, <2>5, <2>a DEF Linked
  <2>9. AddOrUpdate(b, e) = m
    BY <1>1, <2>1 DEF AddOrUpdate
  <2> QED BY <1>0, <2>2, <2>8, <2>9 DEF IsFull
<1>2. CASE e.id \notin Ids(b) /\ IsFull(b)
  BY <1>2 DEF AddOrUpdate
<1>3. CASE e.id \notin Ids(b) /\ ~IsFull(b)
  <2>1. PICK m : m = Append(b, e) /\ m = AddOrUpdate(b, e)
    BY <1>3 DEF AddOrUpdate
  <2>2. PICK l \in Loop : PeerOf[l] = e.id /\ p[l] = NoEntry
    BY <1>3
  <2>3. \A i \in 1..n : b[i].id # e.id
    BY <1>0, <1>3 DEF Ids
  <2>4. /\ m \in Seq(Entry) /\ Len(m) = n + 1 /\ DOMAIN m = 1..(n + 1)
        /\ \A i \in 1..(n + 1) : m[i] = IF i <= n THEN b[i] ELSE e
    <3>0. PICK a : a = Append(b, e)
      OBVIOUS
    <3>1. /\ a \in Seq(Entry) /\ Len(a) = n + 1 /\ DOMAIN a = 1..(n + 1)
          /\ \A i \in 1..(n + 1) : a[i] = IF i <= n THEN b[i] ELSE e
      BY <1>0, <3>0, Appended
    <3>2. m = a
      BY <2>1, <3>0
    <3> QED BY <3>1, <3>2
  <2> DEFINE g == [k \in 1..(n + 1) |-> IF k <= n THEN f[k] ELSE l]
  <2>5. g \in [1..(n + 1) -> Loop]
    BY <1>f
  <2>6. ASSUME NEW k \in 1..(n + 1) PROVE PeerOf[g[k]] = m[k].id /\ p[g[k]] = NoEntry
    <3>1. CASE k <= n
      BY <3>1, <1>0, <1>f, <2>4 DEF LinksFor
    <3>2. CASE ~(k <= n)
      BY <3>2, <2>2, <2>4
    <3> QED BY <3>1, <3>2
  <2>7. \A k \in 1..n : g[k] # l
    BY <1>0, <1>f, <2>2, <2>3 DEF LinksFor
  <2>8. ASSUME NEW i \in 1..(n + 1), NEW j \in 1..(n + 1), g[i] = g[j] PROVE i = j
    <3>1. CASE i <= n /\ j <= n
      BY <3>1, <2>8, <1>0, <1>f DEF LinksFor
    <3>2. CASE i <= n /\ ~(j <= n)
      <4>1. i \in 1..n /\ g[j] = l
        BY <3>2
      <4> QED BY <4>1, <2>7, <2>8
    <3>3. CASE ~(i <= n) /\ j <= n
      <4>1. j \in 1..n /\ g[i] = l
        BY <3>3
      <4> QED BY <4>1, <2>7, <2>8
    <3>4. CASE ~(i <= n) /\ ~(j <= n)
      BY <3>4
    <3> QED BY <3>1, <3>2, <3>3, <3>4
  <2> HIDE DEF g
  <2>a. LinksFor(g, m, p)
    <3>1. \A i, j \in 1..(n + 1) : g[i] = g[j] => i = j
      BY <2>8
    <3>2. \A k \in 1..(n + 1) : PeerOf[g[k]] = m[k].id /\ p[g[k]] = NoEntry
      BY <2>6
    <3> QED BY <2>4, <2>5, <3>1, <3>2 DEF LinksFor
  <2>9. Linked(m, p)
    BY <2>4, <2>5, <2>a DEF Linked
  <2> QED BY <2>1, <2>4, <2>9, <1>0, <1>3 DEF IsFull
<1> QED BY <1>1, <1>2, <1>3

\* Evicting the head of a full bucket for a contact, whether it is in it or not:
\* the place goes to the link whose handler has waited and is done.
LEMMA EvictKeeps ==
    ASSUME NEW b \in Seq(Entry), NEW e \in Entry, NEW p, NEW q, NEW l \in Loop,
           Len(b) <= K, IsFull(b), Linked(b, p),
           PeerOf[l] = e.id, p[l] # NoEntry, q[l] = NoEntry,
           \A x \in Loop : p[x] = NoEntry => q[x] = NoEntry
    PROVE  LET m == Evict(b, e)
           IN  m \in Seq(Entry) /\ Len(m) <= K /\ Linked(m, q) /\ IsFull(m)
<1> USE RoutingAssumption
<1> DEFINE m == Evict(b, e)
<1>1. Len(b) = K /\ DOMAIN b = 1..K
  BY DEF IsFull
<1>2. /\ m \in Seq(Entry) /\ Len(m) = K /\ DOMAIN m = 1..K
      /\ \A i \in 1..K : m[i] = IF i < K THEN b[i + 1] ELSE e
  BY <1>1 DEF Evict
<1> HIDE DEF m
<1>f. PICK f \in [1..K -> Loop] : LinksFor(f, b, p)
  BY <1>1 DEF Linked
<1> DEFINE g == [k \in 1..K |-> IF k < K THEN f[k + 1] ELSE l]
<1>3. g \in [1..K -> Loop]
  BY <1>f
<1>4. ASSUME NEW k \in 1..K PROVE PeerOf[g[k]] = m[k].id /\ q[g[k]] = NoEntry
  <2>1. CASE k < K
    <3>1. k + 1 \in DOMAIN b /\ g[k] = f[k + 1] /\ m[k] = b[k + 1]
      BY <2>1, <1>1, <1>2
    <3>2. PeerOf[f[k + 1]] = b[k + 1].id /\ p[f[k + 1]] = NoEntry
      BY <3>1, <1>f DEF LinksFor
    <3> QED BY <3>1, <3>2, <1>3
  <2>2. CASE ~(k < K)
    BY <2>2, <1>2
  <2> QED BY <2>1, <2>2
<1>5. \A k \in 1..K : k < K => g[k] # l
  <2> SUFFICES ASSUME NEW k \in 1..K, k < K PROVE g[k] # l
    OBVIOUS
  <2>1. k + 1 \in DOMAIN b /\ g[k] = f[k + 1]
    BY <1>1
  <2> QED BY <2>1, <1>f DEF LinksFor
<1>6. ASSUME NEW i \in 1..K, NEW j \in 1..K, g[i] = g[j] PROVE i = j
  <2>1. CASE i < K /\ j < K
    <3>1. i + 1 \in DOMAIN b /\ j + 1 \in DOMAIN b /\ f[i + 1] = f[j + 1]
      BY <2>1, <1>1, <1>6
    <3>2. i + 1 = j + 1
      BY <3>1, <1>f DEF LinksFor
    <3> QED BY <3>2
  <2>2. CASE i < K /\ ~(j < K)
    BY <2>2, <1>5, <1>6
  <2>3. CASE ~(i < K) /\ j < K
    BY <2>3, <1>5, <1>6
  <2>4. CASE ~(i < K) /\ ~(j < K)
    BY <2>4
  <2> QED BY <2>1, <2>2, <2>3, <2>4
<1> HIDE DEF g
<1>a. LinksFor(g, m, q)
  <2>1. \A i, j \in 1..K : g[i] = g[j] => i = j
    BY <1>6
  <2>2. \A k \in 1..K : PeerOf[g[k]] = m[k].id /\ q[g[k]] = NoEntry
    BY <1>4
  <2> QED BY <1>2, <1>3, <2>1, <2>2 DEF LinksFor
<1>7. Linked(m, q)
  BY <1>2, <1>3, <1>a DEF Linked
<1> QED BY <1>2, <1>7 DEF m, IsFull

\* Fewer waiting handlers leave the places their links.
LEMMA LinkedWhenDone ==
    ASSUME NEW b, NEW p, NEW q, Linked(b, p),
           \A x \in Loop : p[x] = NoEntry => q[x] = NoEntry
    PROVE  Linked(b, q)
  BY DEF Linked, LinksFor

\* The invariant of the bucket: each part of it is inductive only with the other.
RoutingInv == RoutingTypeOK /\ PlacesHaveLinks

\* The initial state satisfies the invariant.
LEMMA BucketStarts == RoutingInit => RoutingInv
<1> SUFFICES ASSUME RoutingInit PROVE RoutingInv
  OBVIOUS
<1> USE RoutingAssumption
<1>1. bucket \in Seq(Entry) /\ Len(bucket) = 0 /\ DOMAIN bucket = {}
  BY DEF RoutingInit
<1>2. [i \in {} |-> i] \in [DOMAIN bucket -> Loop] /\ LinksFor([i \in {} |-> i], bucket, pinging)
  BY <1>1 DEF LinksFor
<1>3. \E f \in [DOMAIN bucket -> Loop] : LinksFor(f, bucket, pinging)
  BY <1>2
<1>4. Len(bucket) <= K
  BY <1>1
<1> QED BY <1>1, <1>3, <1>4 DEF RoutingInit, RoutingInv, RoutingTypeOK, PlacesHaveLinks, NoEntry

\* No entry of the bucket is the absence of one.
LEMMA EntryIsNotNone == \A e \in Entry : e # NoEntry /\ e.id \in Contact
  BY RoutingAssumption DEF Entry, NoEntry

\* Every step of a handler preserves the invariant.
LEMMA BucketKeeps == RoutingInv /\ [RoutingNext]_routingVars => RoutingInv'
<1> SUFFICES ASSUME RoutingInv, [RoutingNext]_routingVars PROVE RoutingInv'
  OBVIOUS
<1> USE RoutingAssumption, EntryIsNotNone
<1>0. /\ bucket \in Seq(Entry) /\ Len(bucket) <= K /\ Linked(bucket, pinging)
      /\ pinging \in [Loop -> Entry \cup {NoEntry}]
      /\ sender \in [Loop -> Entry \cup {NoEntry}]
      /\ NoEntry.id = Nobody
      /\ \A l \in Loop : pinging[l] # NoEntry => IsFull(bucket)
  BY DEF RoutingInv, RoutingTypeOK, PlacesHaveLinks, Linked, NoEntry
<1>a. ASSUME RoutingTypeOK', Len(bucket') <= K, Linked(bucket', pinging'),
             \A l \in Loop : pinging'[l] # NoEntry => IsFull(bucket')
      PROVE  RoutingInv'
  BY <1>a DEF RoutingInv, PlacesHaveLinks, Linked, IsFull, LinksFor
<1>1. ASSUME NEW l \in Loop, NEW isPing \in BOOLEAN, HandleMessage(l, isPing)
      PROVE  RoutingInv'
  <2> DEFINE e == [id |-> PeerOf[l], addr |-> isPing]
  <2>1. e \in Entry /\ e.id = PeerOf[l]
    BY DEF Entry
  <2>2. bucket' = AddOrUpdate(bucket, e) /\ pinging[l] = NoEntry
    BY <1>1 DEF HandleMessage
  <2> HIDE DEF e
  <2>3. /\ bucket' \in Seq(Entry) /\ Len(bucket') <= K /\ Linked(bucket', pinging)
        /\ IsFull(bucket) => IsFull(bucket')
    BY <2>1, <2>2, <1>0, AddOrUpdateKeeps
  <2>4. CASE IsFull(bucket) /\ e.id \notin Ids(bucket)
    <3>1. /\ pinging' = [pinging EXCEPT ![l] = Head(bucket)]
          /\ sender' = [sender EXCEPT ![l] = e]
      BY <1>1, <2>4 DEF HandleMessage, e
    <3>2. Head(bucket) \in Entry
      BY <1>0, <2>4 DEF IsFull
    <3>3. RoutingTypeOK'
      BY <2>1, <2>3, <3>1, <3>2, <1>0 DEF RoutingInv, RoutingTypeOK
    <3>4. bucket' = bucket
      BY <2>2, <2>4 DEF AddOrUpdate
    <3>5. PICK f \in [DOMAIN bucket -> Loop] : LinksFor(f, bucket, pinging)
      BY <1>0 DEF Linked
    <3>6. \A i \in DOMAIN bucket : f[i] # l
      BY <2>1, <2>4, <3>5 DEF LinksFor, Ids
    <3>7. LinksFor(f, bucket, pinging')
      BY <1>0, <3>1, <3>5, <3>6 DEF LinksFor
    <3>8. Linked(bucket', pinging')
      BY <3>4, <3>5, <3>7 DEF Linked
    <3>9. IsFull(bucket')
      BY <2>3, <2>4
    <3> QED BY <1>a, <2>3, <3>3, <3>8, <3>9
  <2>5. CASE ~(IsFull(bucket) /\ e.id \notin Ids(bucket))
    <3>1. pinging' = pinging /\ sender' = sender
      BY <1>1, <2>5 DEF HandleMessage, e
    <3>2. RoutingTypeOK'
      BY <2>3, <3>1, <1>0 DEF RoutingInv, RoutingTypeOK
    <3>3. Linked(bucket', pinging')
      BY <2>3, <3>1
    <3> QED BY <1>0, <1>a, <2>3, <3>1, <3>2, <3>3
  <2> QED BY <2>4, <2>5
<1>2. ASSUME NEW l \in Loop, pinging[l] # NoEntry, HandlerDone(l),
             bucket' \in Seq(Entry), Len(bucket') <= K, Linked(bucket', pinging'),
             IsFull(bucket')
      PROVE  RoutingInv'
  <2>1. /\ pinging' = [pinging EXCEPT ![l] = NoEntry]
        /\ sender' = [sender EXCEPT ![l] = NoEntry]
    BY <1>2 DEF HandlerDone
  <2>2. RoutingTypeOK'
    BY <2>1, <1>0, <1>2 DEF RoutingInv, RoutingTypeOK
  <2> QED BY <1>a, <2>2, <1>2
<1>3. ASSUME NEW l \in Loop, HandlerDone(l)
      PROVE  \A x \in Loop : pinging[x] = NoEntry => pinging'[x] = NoEntry
  BY <1>0, <1>3 DEF HandlerDone
<1>4. ASSUME NEW l \in Loop, PingAnswered(l) PROVE RoutingInv'
  <2>1. /\ pinging[l] # NoEntry /\ pinging[l] \in Entry /\ HandlerDone(l)
        /\ bucket' = AddOrUpdate(bucket, pinging[l])
    BY <1>4, <1>0 DEF PingAnswered
  <2>2. IsFull(bucket)
    BY <2>1, <1>0
  <2>3. /\ bucket' \in Seq(Entry) /\ Len(bucket') <= K /\ Linked(bucket', pinging)
        /\ IsFull(bucket')
    BY <2>1, <2>2, <1>0, AddOrUpdateKeeps
  <2>4. Linked(bucket', pinging')
    BY <2>1, <2>3, <1>3, LinkedWhenDone
  <2> QED BY <2>1, <2>3, <2>4, <1>2
<1>5. ASSUME NEW l \in Loop, PingFailed(l) PROVE RoutingInv'
  <2>1. /\ pinging[l] # NoEntry /\ HandlerDone(l)
        /\ bucket' = Evict(bucket, sender[l])
    BY <1>5 DEF PingFailed
  <2>2. IsFull(bucket) /\ pinging'[l] = NoEntry
    BY <2>1, <1>0 DEF HandlerDone
  <2>3. sender[l].id = PeerOf[l] /\ sender[l] \in Entry
    BY <2>1, <1>0 DEF RoutingInv, RoutingTypeOK
  <2>4. \A x \in Loop : pinging[x] = NoEntry => pinging'[x] = NoEntry
    BY <2>1, <1>3
  <2>5. /\ bucket' \in Seq(Entry) /\ Len(bucket') <= K /\ Linked(bucket', pinging')
        /\ IsFull(bucket')
    BY <2>1, <2>2, <2>3, <2>4, <1>0, EvictKeeps
  <2> QED BY <2>1, <2>5, <1>2
<1>6. CASE UNCHANGED routingVars
  BY <1>6 DEF RoutingInv, RoutingTypeOK, PlacesHaveLinks, LinksFor, routingVars, IsFull
<1> QED BY <1>1, <1>4, <1>5, <1>6 DEF RoutingNext

\* However AddNode's handlers overlap, also those of several links to one contact,
\* the bucket never fills past K, an eviction finds it full, and a contact takes no
\* more places than it has links: with one link it is never there twice.
THEOREM ContactsTakeTheirPlaces == RoutingSpec => []PlacesHaveLinks
<1>1. RoutingInv => PlacesHaveLinks
  BY DEF RoutingInv
<1> QED BY BucketStarts, BucketKeeps, <1>1, PTL DEF RoutingSpec
-----------------------------------------------------------------------------
(* Gateway *)

\* The shape of the bus. The limiter and the channels' contents play no part.
BusTypeOK ==
    /\ subs \in SUBSET Stream /\ closed \in SUBSET Stream
    /\ visit \in [Handler -> SUBSET Stream]
    /\ handler \in [Handler -> {"idle", "publish", "locked"}]
    /\ stream \in [Stream -> {"new", "open", "leaving", "over"}]

\* The subscribers are the open streams, and a closed channel's stream is over.
StreamsMatch ==
    \A s \in Stream : /\ s \in subs <=> stream[s] = "open"
                      /\ s \in closed <=> stream[s] = "over"

\* A publisher that has the read lock still finds its round among the
\* subscribers, and one without it has no round to go.
VisitsSubscribers ==
    \A h \in Handler : /\ visit[h] \subseteq subs
                       /\ handler[h] # "locked" => visit[h] = {}

\* The inductive invariant of the event bus.
BusInv == BusTypeOK /\ StreamsMatch /\ VisitsSubscribers

\* The initial state satisfies the invariant.
LEMMA BusStarts == GatewayInit => BusInv
  BY DEF GatewayInit, BusInv, BusTypeOK, StreamsMatch, VisitsSubscribers

\* Steps that leave the bus and the handlers' locks alone.
LEMMA BusUntouched ==
    ASSUME BusInv, UNCHANGED <<subs, closed, visit, handler, stream>>
    PROVE  BusInv'
  BY DEF BusInv, BusTypeOK, StreamsMatch, VisitsSubscribers

\* Every step keeps the publishers' rounds within the open channels.
LEMMA BusKeeps == BusInv /\ [GatewayNext]_gatewayVars => BusInv'
<1> SUFFICES ASSUME BusInv, [GatewayNext]_gatewayVars PROVE BusInv'
  OBVIOUS
<1>1. ASSUME NEW h \in Handler, NEW i \in Ip, Allow(h, i) PROVE BusInv'
  <2>1. /\ handler[h] = "idle" /\ handler' = [handler EXCEPT ![h] = "publish"]
        /\ UNCHANGED <<subs, closed, visit, stream>>
    BY <1>1 DEF Allow, busVars
  <2> QED BY <2>1 DEF BusInv, BusTypeOK, StreamsMatch, VisitsSubscribers
<1>2. CASE Cleanup
  BY <1>2, BusUntouched DEF Cleanup, busVars
<1>3. CASE TickLimiter
  BY <1>3, BusUntouched DEF TickLimiter, busVars
<1>4. ASSUME NEW s \in Stream, Subscribe(s) PROVE BusInv'
  BY <1>4 DEF Subscribe, BusInv, BusTypeOK, StreamsMatch, VisitsSubscribers
<1>5. ASSUME NEW s \in Stream, Unsubscribe(s) PROVE BusInv'
  <2>1. \A h \in Handler : visit[h] = {}
    BY <1>5 DEF Unsubscribe, Reading, BusInv, VisitsSubscribers
  <2> QED BY <1>5, <2>1
          DEF Unsubscribe, BusInv, BusTypeOK, StreamsMatch, VisitsSubscribers
<1>6. ASSUME NEW s \in Stream, CloseChannel(s) PROVE BusInv'
  BY <1>6 DEF CloseChannel, BusInv, BusTypeOK, StreamsMatch, VisitsSubscribers
<1>7. ASSUME NEW s \in Stream, WriteEvent(s) PROVE BusInv'
  BY <1>7, BusUntouched DEF WriteEvent
<1>8. ASSUME NEW h \in Handler, Publish(h) PROVE BusInv'
  BY <1>8 DEF Publish, BusInv, BusTypeOK, StreamsMatch, VisitsSubscribers
<1>9. ASSUME NEW h \in Handler, Published(h) PROVE BusInv'
  BY <1>9 DEF Published, busVars, BusInv, BusTypeOK, StreamsMatch, VisitsSubscribers
<1>10. ASSUME NEW h \in Handler, NEW s \in Stream, Send(h, s) PROVE BusInv'
  BY <1>10 DEF Send, BusInv, BusTypeOK, StreamsMatch, VisitsSubscribers
<1>11. CASE UNCHANGED gatewayVars
  BY <1>11, BusUntouched DEF gatewayVars
<1> QED BY <1>1, <1>2, <1>3, <1>4, <1>5, <1>6, <1>7, <1>8, <1>9, <1>10, <1>11
        DEF GatewayNext

\* Publish never panics: a channel is closed only after it has left the
\* subscribers under the write lock, when no publisher was on its round.
THEOREM PublishIsSafe == GatewaySpec => []NeverSendsOnClosed
<1>1. BusInv => NeverSendsOnClosed
  BY DEF BusInv, BusTypeOK, StreamsMatch, VisitsSubscribers, NeverSendsOnClosed
<1> QED BY BusStarts, BusKeeps, <1>1, PTL DEF GatewaySpec
-----------------------------------------------------------------------------
(* Cards *)

\* The shapes of a cache element, of a fetch and of a card in Redis.
EntryShape == [key : Key \cup {NoKey}, card : Card \cup {NoCard}, left : -1..TTL]
FetchShape ==
    [at : {"idle", "check", "remove", "touch", "redis", "http", "put", "set", "answer"},
     key : Key \cup {NoKey}, elem : Elem \cup {NoElem}, card : Card \cup {NoCard},
     src : {"none", "redis", "http"}]
RedisShape == [card : Card, left : 1..TTL] \cup {NotInRedis}

CardsShape ==
    /\ list \in Seq(Elem)
    /\ items \in [Key -> Elem \cup {NoElem}]
    /\ entry \in [Elem -> EntryShape]
    /\ redis \in [Key -> RedisShape]
    /\ fetch \in [Fetch -> FetchShape]

\* An element that the list or a fetch refers to holds a card.
UsedElement(e) ==
    /\ entry[e].key \in Key /\ entry[e].card \in Card
    /\ entry[e].left >= 0 => entry[e].card.age + entry[e].left <= 2 * TTL

\* What a fetch at each of its steps has in hand: an element it found, or a card
\* that is young enough to be shown once it is answered.
FetchHolds(r) ==
    /\ r.at # "idle" => r.key \in Key
    /\ r.at \in {"check", "remove", "touch"} => r.elem # NoElem
    /\ r.at \in {"idle", "redis", "http", "put", "set"} => r.elem = NoElem
    /\ r.at = "touch" => entry[r.elem].left >= 0
    /\ r.at = "put" => r.card \in Card /\ r.card.age <= TTL
                       /\ (r.src # "redis" => r.card.age = 0)
    /\ r.at = "set" => r.card = [age |-> 0]
    /\ r.at = "answer" => r.card \in Card /\ r.card.age <= 2 * TTL

\* Elements in use hold cards, fetches what their step needs, and a card in
\* Redis is no older than the part of its time to live that has passed.
UsedHold == \A e \in Elem : InUse(e) => UsedElement(e)
FetchesHold == \A f \in Fetch : FetchHolds(fetch[f])
RedisRecent ==
    \A k \in Key : redis[k] # NotInRedis => redis[k].card.age + redis[k].left <= TTL

\* The inductive invariant of the two caches.
CardsInv == CardsShape /\ IndexMatchesList /\ UsedHold /\ FetchesHold /\ RedisRecent

\* e is an element of the list b.
Has(b, e) == \E i \in DOMAIN b : b[i] = e

\* list.Remove takes one element out of a list that holds each once.
LEMMA RemoveOne ==
    ASSUME NEW S, NEW b \in Seq(S), IsInjective(b), NEW at \in 1..Len(b),
           NEW r, r = RemoveAt(b, at)
    PROVE  /\ r \in Seq(S) /\ Len(r) = Len(b) - 1 /\ IsInjective(r)
           /\ \A x : Has(r, x) <=> Has(b, x) /\ x # b[at]
<1>0. PICK n \in Nat : n = Len(b) /\ at \in 1..n
  BY LenProperties
<1>1. /\ r \in Seq(S) /\ Len(r) = n - 1
      /\ DOMAIN b = 1..n /\ DOMAIN r = 1..(n - 1)
      /\ \A k \in 1..(at - 1) : r[k] = b[k]
      /\ \A k \in at..(n - 1) : r[k] = b[k + 1]
  BY <1>0, RemoveAtProperties, Zenon
<1> DEFINE o(k) == IF k < at THEN k ELSE k + 1
<1>2. ASSUME NEW k \in 1..(n - 1) PROVE o(k) \in 1..n /\ o(k) # at /\ r[k] = b[o(k)]
  <2>1. CASE k < at
    <3>1. k \in 1..(at - 1) /\ o(k) = k
      BY <2>1
    <3> QED BY <1>0, <1>1, <3>1
  <2>2. CASE ~(k < at)
    <3>1. k \in at..(n - 1) /\ o(k) = k + 1
      BY <1>0, <2>2
    <3> QED BY <1>0, <1>1, <3>1
  <2> QED BY <2>1, <2>2
<1>3. \A i, j \in 1..(n - 1) : o(i) = o(j) => i = j
  BY <1>0
<1>4. ASSUME NEW j \in 1..n, j # at PROVE \E k \in 1..(n - 1) : o(k) = j
  <2>1. CASE j < at
    <3>1. j \in 1..(n - 1) /\ o(j) = j
      BY <1>0, <2>1
    <3> QED BY <3>1
  <2>2. CASE j > at
    <3>1. j - 1 \in 1..(n - 1) /\ o(j - 1) = j
      BY <1>0, <2>2
    <3> QED BY <3>1
  <2> QED BY <1>0, <1>4, <2>1, <2>2
<1> HIDE DEF o
<1>5. IsInjective(r)
  <2> SUFFICES ASSUME NEW i \in 1..(n - 1), NEW j \in 1..(n - 1), r[i] = r[j] PROVE i = j
    BY <1>1 DEF IsInjective
  <2>1. o(i) \in DOMAIN b /\ o(j) \in DOMAIN b /\ b[o(i)] = b[o(j)]
    BY <1>1, <1>2
  <2>2. o(i) = o(j)
    BY <2>1 DEF IsInjective
  <2> QED BY <1>3, <2>2
<1>6. ASSUME NEW x, Has(r, x) PROVE Has(b, x) /\ x # b[at]
  <2>1. PICK k \in 1..(n - 1) : r[k] = x
    BY <1>1, <1>6 DEF Has
  <2>2. o(k) \in DOMAIN b /\ at \in DOMAIN b /\ o(k) # at /\ x = b[o(k)]
    BY <1>0, <1>1, <1>2, <2>1
  <2> QED BY <2>2 DEF Has, IsInjective
<1>7. ASSUME NEW x, Has(b, x), x # b[at] PROVE Has(r, x)
  <2>1. PICK j \in 1..n : b[j] = x /\ j # at
    BY <1>1, <1>7 DEF Has
  <2>2. PICK k \in 1..(n - 1) : o(k) = j
    BY <1>4, <2>1
  <2>3. r[k] = x /\ k \in DOMAIN r
    BY <1>1, <1>2, <2>1, <2>2
  <2> QED BY <2>3 DEF Has
<1>8. Len(r) = Len(b) - 1 /\ r \in Seq(S)
  BY <1>0, <1>1
<1> QED BY <1>5, <1>6, <1>7, <1>8, Zenon

\* list.PushFront of an element that is not in the list.
LEMMA PushFront ==
    ASSUME NEW S, NEW b \in Seq(S), IsInjective(b), NEW e \in S, ~Has(b, e),
           NEW p, p = <<e>> \o b
    PROVE  /\ p \in Seq(S) /\ Len(p) = Len(b) + 1 /\ IsInjective(p)
           /\ \A x : Has(p, x) <=> Has(b, x) \/ x = e
<1>1. PICK n \in Nat : n = Len(b)
  BY LenProperties
<1>2. <<e>> \in Seq(S) /\ Len(<<e>>) = 1 /\ <<e>>[1] = e
  OBVIOUS
<1>3. /\ p \in Seq(S) /\ Len(p) = 1 + n
      /\ \A i \in 1..(1 + n) : p[i] = IF i <= 1 THEN <<e>>[i] ELSE b[i - 1]
  <2>1. /\ p \in Seq(S) /\ Len(p) = Len(<<e>>) + Len(b)
        /\ \A i \in 1..(Len(<<e>>) + Len(b)) :
              p[i] = IF i <= Len(<<e>>) THEN <<e>>[i] ELSE b[i - Len(<<e>>)]
    BY <1>2, ConcatProperties
  <2> QED BY <1>1, <1>2, <2>1
<1>4. DOMAIN b = 1..n /\ DOMAIN p = 1..(1 + n) /\ 1 \in DOMAIN p
  BY <1>1, <1>3, LenProperties
<1>5. p[1] = e
  BY <1>2, <1>3, <1>4
<1>6. ASSUME NEW i \in DOMAIN p, i # 1
      PROVE  i - 1 \in DOMAIN b /\ p[i] = b[i - 1]
  <2>1. i \in 1..(1 + n) /\ ~(i <= 1) /\ i - 1 \in 1..n
    BY <1>4, <1>6
  <2> QED BY <1>3, <1>4, <2>1
<1>7. ASSUME NEW k \in DOMAIN b PROVE k + 1 \in DOMAIN p /\ p[k + 1] = b[k]
  <2>1. k + 1 \in DOMAIN p /\ k + 1 # 1 /\ (k + 1) - 1 = k
    BY <1>4
  <2> QED BY <1>6, <2>1
<1>8. ASSUME NEW i \in DOMAIN p, NEW j \in DOMAIN p, p[i] = p[j] PROVE i = j
  <2>1. ASSUME NEW k \in DOMAIN p, k # 1 PROVE p[k] # e
    BY <1>6, <2>1 DEF Has
  <2>2. CASE i # 1 /\ j # 1
    <3>1. /\ i - 1 \in DOMAIN b /\ p[i] = b[i - 1]
          /\ j - 1 \in DOMAIN b /\ p[j] = b[j - 1]
      BY <1>6, <2>2
    <3>2. i - 1 = j - 1
      BY <1>8, <3>1 DEF IsInjective
    <3> QED BY <1>4, <3>2
  <2> QED BY <1>5, <1>8, <2>1, <2>2
<1>9. IsInjective(p)
  BY <1>8 DEF IsInjective
<1>10. ASSUME NEW x, Has(b, x) PROVE Has(p, x)
  <2>1. PICK k \in DOMAIN b : b[k] = x
    BY <1>10 DEF Has
  <2> QED BY <1>7, <2>1 DEF Has
<1>11. Has(p, e)
  BY <1>4, <1>5 DEF Has
<1>12. ASSUME NEW x, Has(p, x), x # e PROVE Has(b, x)
  <2>1. PICK k \in DOMAIN p : p[k] = x
    BY <1>12 DEF Has
  <2>2. k # 1
    BY <1>5, <1>12, <2>1
  <2> QED BY <1>6, <2>1, <2>2 DEF Has
<1>13. p \in Seq(S) /\ Len(p) = Len(b) + 1
  BY <1>1, <1>3
<1> QED BY <1>9, <1>10, <1>11, <1>12, <1>13, Zenon

\* Eviction takes the last element away.
LEMMA FrontKeeps ==
    ASSUME NEW S, NEW b \in Seq(S), IsInjective(b), b # << >>
    PROVE  /\ Front(b) \in Seq(S) /\ Len(Front(b)) = Len(b) - 1 /\ IsInjective(Front(b))
           /\ Last(b) \in S /\ Has(b, Last(b))
           /\ \A x : Has(Front(b), x) => Has(b, x) /\ x # Last(b)
           /\ \A x : Has(b, x) /\ x # Last(b) => Has(Front(b), x)
<1>1. PICK n \in Nat \ {0} : n = Len(b)
  BY EmptySeq
<1>2. DOMAIN b = 1..n /\ n \in DOMAIN b /\ \A k \in 1..n : b[k] \in S
  BY <1>1, LenProperties, ElementOfSeq
<1>3. PICK r : r = Front(b)
  OBVIOUS
<1>4. /\ r \in Seq(S) /\ Len(r) = n - 1 /\ DOMAIN r = 1..(n - 1)
      /\ \A k \in 1..(n - 1) : r[k] = b[k] /\ k \in DOMAIN b /\ k # n
  <2>1. \A k \in 1..(n - 1) : b[k] \in S /\ k \in 1..n /\ k # n
    BY <1>2
  <2>2. r = SubSeq(b, 1, n - 1)
    BY <1>1, <1>3 DEF Front
  <2>3. /\ r \in Seq(S) /\ Len(r) = n - 1
        /\ \A k \in 1..(n - 1) : r[k] = b[k]
    BY <2>1, <2>2, SubSeqProperties
  <2> QED BY <1>2, <2>1, <2>3, LenProperties
<1>5. Last(b) = b[n]
  BY <1>1 DEF Last
<1>6. IsInjective(r)
  <2> SUFFICES ASSUME NEW i \in DOMAIN r, NEW j \in DOMAIN r, r[i] = r[j] PROVE i = j
    BY DEF IsInjective
  <2>1. i \in DOMAIN b /\ j \in DOMAIN b /\ b[i] = b[j]
    BY <1>4
  <2> QED BY <2>1 DEF IsInjective
<1>7. ASSUME NEW x, Has(r, x) PROVE Has(b, x) /\ x # Last(b)
  <2>1. PICK k \in 1..(n - 1) : r[k] = x
    BY <1>4, <1>7 DEF Has
  <2>2. k \in DOMAIN b /\ k # n /\ b[k] = x
    BY <1>4, <2>1
  <2>3. b[k] # b[n]
    BY <1>2, <2>2 DEF IsInjective
  <2> QED BY <1>5, <2>2, <2>3 DEF Has
<1>8. ASSUME NEW x, Has(b, x), x # Last(b) PROVE Has(r, x)
  <2>1. PICK k \in 1..n : b[k] = x /\ k # n
    BY <1>2, <1>5, <1>8 DEF Has
  <2>2. k \in 1..(n - 1)
    BY <2>1
  <2> QED BY <1>4, <2>1, <2>2 DEF Has
<1>9. Last(b) \in S /\ Has(b, Last(b))
  BY <1>2, <1>5 DEF Has
<1> QED BY <1>1, <1>3, <1>4, <1>6, <1>7, <1>8, <1>9

\* A list without an element.
LEMMA UnlistedKeeps ==
    ASSUME list \in Seq(Elem), IsInjective(list), NEW e
    PROVE  /\ Unlisted(e) \in Seq(Elem) /\ IsInjective(Unlisted(e))
           /\ Len(Unlisted(e)) = IF Listed(e) THEN Len(list) - 1 ELSE Len(list)
           /\ \A x : Has(Unlisted(e), x) <=> Listed(x) /\ x # e
<1>1. CASE Listed(e)
  <2>1. PICK at : at = CHOOSE i \in DOMAIN list : list[i] = e
    OBVIOUS
  <2>2. at \in DOMAIN list /\ list[at] = e
    BY <1>1, <2>1 DEF Listed
  <2>3. at \in 1..Len(list)
    BY <2>2
  <2>4. Unlisted(e) = RemoveAt(list, at)
    BY <1>1, <2>1 DEF Unlisted
  <2>5. PICK r : r = RemoveAt(list, at)
    OBVIOUS
  <2>6. /\ r \in Seq(Elem) /\ Len(r) = Len(list) - 1 /\ IsInjective(r)
        /\ \A x : Has(r, x) <=> Has(list, x) /\ x # e
    BY <2>2, <2>3, <2>5, RemoveOne
  <2>7. \A x : Has(list, x) <=> Listed(x)
    BY DEF Has, Listed
  <2> QED BY <1>1, <2>4, <2>5, <2>6, <2>7
<1>2. CASE ~Listed(e)
  BY <1>2 DEF Unlisted, Listed, Has
<1> QED BY <1>1, <1>2

\* list.MoveToFront keeps what is in the list.
LEMMA FrontedKeeps ==
    ASSUME list \in Seq(Elem), IsInjective(list), NEW e \in Elem, NEW m,
           m = IF Listed(e) THEN <<e>> \o Unlisted(e) ELSE list
    PROVE  /\ m \in Seq(Elem) /\ IsInjective(m) /\ Len(m) = Len(list)
           /\ \A x : Has(m, x) <=> Listed(x)
<1>1. CASE Listed(e)
  <2>1. PICK u : u = Unlisted(e)
    OBVIOUS
  <2>2. /\ u \in Seq(Elem) /\ IsInjective(u) /\ Len(u) = Len(list) - 1
        /\ \A x : Has(u, x) <=> Listed(x) /\ x # e
    BY <1>1, <2>1, UnlistedKeeps
  <2>3. m = <<e>> \o u
    BY <1>1, <2>1
  <2>4. /\ m \in Seq(Elem) /\ IsInjective(m) /\ Len(m) = Len(u) + 1
        /\ \A x : Has(m, x) <=> Has(u, x) \/ x = e
    <3>1. ~Has(u, e)
      BY <2>2
    <3>2. u \in Seq(Elem) /\ IsInjective(u)
      BY <2>2
    <3> QED BY <2>3, <3>1, <3>2, PushFront, Zenon
  <2>5. Len(m) = Len(list)
    <3>1. Len(list) \in Nat
      OBVIOUS
    <3> QED BY <2>2, <2>4, <3>1
  <2> QED BY <1>1, <2>2, <2>4, <2>5, Zenon
<1>2. CASE ~Listed(e)
  BY <1>2 DEF Listed, Has
<1> QED BY <1>1, <1>2

\* The constants.
LEMMA Numbers ==
    /\ MaxSize \in Nat \ {0} /\ TTL \in Nat \ {0}
    /\ Cardinality(Fetch) \in Nat /\ MaxElem \in Nat
    /\ Elem \subseteq Nat \ {0} /\ NoElem \notin Elem
  BY CardsAssumption, FS_CardinalityType DEF MaxElem, Elem, NoElem

\* The size of an interval from one.
LEMMA CountedFromOne ==
    ASSUME NEW n \in Nat PROVE IsFiniteSet(1..n) /\ Cardinality(1..n) = n
<1>1. 1 \in Int /\ n \in Int
  OBVIOUS
<1>2. /\ IsFiniteSet(1..n)
      /\ Cardinality(1..n) = IF 1 > n THEN 0 ELSE n - 1 + 1
  BY <1>1, FS_Interval, Zenon
<1>3. PICK c : c = Cardinality(1..n)
  OBVIOUS
<1>4. c = IF 1 > n THEN 0 ELSE n - 1 + 1
  BY <1>2, <1>3, Zenon
<1>5. c = n
  BY <1>4
<1> QED BY <1>2, <1>3, <1>5, Zenon

\* There is a number for a new element: the list and the fetches, the one that
\* puts a card excepted, do not refer to all of them.
LEMMA SomeElementIsFree ==
    ASSUME CardsShape, Len(list) <= MaxSize, NEW f \in Fetch, fetch[f].elem = NoElem
    PROVE  FreeElem \in Elem /\ ~InUse(FreeElem)
<1> DEFINE A == {list[i] : i \in DOMAIN list}
           others == Fetch \ {f}
           B == {fetch[x].elem : x \in others}
           g == [x \in others |-> fetch[x].elem]
<1>1. DOMAIN list = 1..Len(list) /\ Len(list) \in Nat
  BY DEF CardsShape
<1>2. IsFiniteSet(A) /\ Cardinality(A) <= MaxSize
  <2>1. list \in Surjection(1..Len(list), A)
    BY <1>1 DEF CardsShape, Surjection
  <2>2. IsFiniteSet(1..Len(list)) /\ Cardinality(1..Len(list)) = Len(list)
    BY <1>1, CountedFromOne
  <2>3. IsFiniteSet(A) /\ Cardinality(A) <= Cardinality(1..Len(list))
    BY <2>1, <2>2, FS_Surjection
  <2>4. Cardinality(A) \in Nat
    BY <2>3, FS_CardinalityType
  <2> QED BY <1>1, <2>2, <2>3, <2>4, Numbers
<1>3. IsFiniteSet(B) /\ Cardinality(B) <= Cardinality(Fetch) - 1
  <2>1. IsFiniteSet(others) /\ Cardinality(others) = Cardinality(Fetch) - 1
    BY CardsAssumption, FS_RemoveElement
  <2>2. g \in Surjection(others, B)
    BY DEF Surjection
  <2>3. IsFiniteSet(B) /\ Cardinality(B) <= Cardinality(others)
    BY <2>1, <2>2, FS_Surjection
  <2> QED BY <2>1, <2>3
<1> HIDE DEF A, others, B, g
<1>4. Cardinality(A \cup B) < MaxElem /\ IsFiniteSet(A \cup B)
  <2>1. /\ IsFiniteSet(A \cup B)
        /\ Cardinality(A \cup B) = Cardinality(A) + Cardinality(B) - Cardinality(A \cap B)
    BY <1>2, <1>3, FS_Union
  <2>2. Cardinality(A \cap B) \in Nat
    BY <1>2, FS_Intersection, FS_CardinalityType
  <2>3. Cardinality(A) \in Nat /\ Cardinality(B) \in Nat
    BY <1>2, <1>3, FS_CardinalityType
  <2>4. PICK ca \in Nat, cb \in Nat, ci \in Nat, cf \in Nat :
          /\ ca = Cardinality(A) /\ cb = Cardinality(B)
          /\ ci = Cardinality(A \cap B) /\ cf = Cardinality(Fetch)
    BY <2>2, <2>3, Numbers, Zenon
  <2>5. /\ ca <= MaxSize /\ cb <= cf - 1
        /\ Cardinality(A \cup B) = ca + cb - ci /\ MaxElem = MaxSize + cf
    BY <1>2, <1>3, <2>1, <2>4 DEF MaxElem
  <2>6. ca + cb - ci < MaxSize + cf
    BY <2>5, Numbers
  <2> QED BY <2>1, <2>5, <2>6
<1>5. IsFiniteSet(Elem) /\ Cardinality(Elem) = MaxElem
  BY Numbers, CountedFromOne DEF Elem
<1>6. ~(Elem \subseteq A \cup B)
  <2>1. SUFFICES ASSUME Elem \subseteq A \cup B PROVE FALSE
    OBVIOUS
  <2>2. Cardinality(Elem) <= Cardinality(A \cup B)
    BY <1>4, <2>1, FS_Subset
  <2>3. Cardinality(A \cup B) \in Nat
    BY <1>4, FS_CardinalityType
  <2> QED BY <1>4, <1>5, <2>2, <2>3, Numbers
<1>7. PICK e \in Elem : e \notin A \cup B
  BY <1>6
<1>8. ~InUse(e)
  <2>1. ~Listed(e)
    BY <1>7 DEF Listed, A
  <2>2. ASSUME NEW x \in Fetch PROVE fetch[x].elem # e
    BY <1>7, Numbers DEF B, others
  <2> QED BY <2>1, <2>2 DEF InUse
<1> QED BY <1>8 DEF FreeElem

\* The initial state.
LEMMA CachesStart == CardsInit => CardsInv
<1> SUFFICES ASSUME CardsInit PROVE CardsInv
  OBVIOUS
<1> USE Numbers
<1>1. Idle \in FetchShape /\ NoEntryYet \in EntryShape
  BY DEF Idle, FetchShape, NoEntryYet, EntryShape, NoElem
<1>2. CardsShape
  <2>1. << >> \in Seq(Elem)
    OBVIOUS
  <2> QED BY <1>1, <2>1 DEF CardsInit, CardsShape, RedisShape
<1>3. \A e \in Elem : ~InUse(e)
  BY DEF CardsInit, InUse, Listed, Idle
<1>4. IndexMatchesList
  <2>1. Len(list) = 0 /\ DOMAIN list = {}
    BY DEF CardsInit
  <2> QED BY <2>1 DEF CardsInit, IndexMatchesList, IsInjective
<1>5. FetchesHold
  BY DEF CardsInit, FetchesHold, FetchHolds, Idle
<1> QED BY <1>2, <1>3, <1>4, <1>5 DEF CardsInv, UsedHold, RedisRecent, CardsInit

\* A step that moves one fetch on, to r, and leaves the LRU cache alone.
LEMMA FetchMoves ==
    ASSUME CardsInv, NEW f \in Fetch, NEW r \in FetchShape,
           fetch' = [fetch EXCEPT ![f] = r], FetchHolds(r),
           r.elem \in {fetch[f].elem, NoElem},
           UNCHANGED <<list, items, entry>>,
           redis' \in [Key -> RedisShape], RedisRecent'
    PROVE  CardsInv'
<1> USE Numbers
<1>1. CardsShape'
  BY DEF CardsInv, CardsShape
<1>2. IndexMatchesList'
  BY DEF CardsInv, IndexMatchesList, Listed
<1>3. ASSUME NEW e \in Elem, InUse(e)' PROVE InUse(e)
  BY <1>3 DEF InUse, Listed, CardsInv, CardsShape
<1>4. UsedHold'
  BY <1>3 DEF CardsInv, UsedHold, UsedElement
<1>5. ASSUME NEW x \in Fetch PROVE FetchHolds(fetch[x])'
  <2>1. CASE x = f
    <3>1. fetch'[x] = r
      BY <2>1 DEF CardsInv, CardsShape
    <3> QED BY <3>1 DEF FetchHolds
  <2>2. CASE x # f
    <3>1. fetch'[x] = fetch[x]
      BY <2>2 DEF CardsInv, CardsShape
    <3> QED BY <3>1 DEF FetchHolds, CardsInv, FetchesHold
  <2> QED BY <2>1, <2>2
<1> QED BY <1>1, <1>2, <1>4, <1>5 DEF CardsInv, FetchesHold

\* What is known of the record of a fetch.
LEMMA FetchRecord ==
    ASSUME CardsInv, NEW f \in Fetch, NEW r, r = fetch[f]
    PROVE  /\ r \in FetchShape /\ FetchHolds(r)
           /\ r.elem # NoElem => r.elem \in Elem /\ InUse(r.elem) /\ UsedElement(r.elem)
<1>1. r \in FetchShape /\ FetchHolds(r)
  BY DEF CardsInv, CardsShape, FetchesHold
<1>2. ASSUME r.elem # NoElem PROVE r.elem \in Elem /\ InUse(r.elem)
  BY <1>1, <1>2 DEF FetchShape, InUse
<1> QED BY <1>1, <1>2 DEF CardsInv, UsedHold

\* CheckExpiry: a card is answered from the LRU cache, or its element removed.
LEMMA CheckExpiryKeeps ==
    ASSUME CardsInv, NEW f \in Fetch, CheckExpiry(f) PROVE CardsInv'
<1>1. PICK r : r = fetch[f]
  OBVIOUS
<1>2. /\ r \in FetchShape /\ FetchHolds(r)
      /\ r.elem # NoElem => r.elem \in Elem
  BY <1>1, FetchRecord
<1>3. PICK w \in {"remove", "touch"} : w = IF entry[r.elem].left < 0 THEN "remove" ELSE "touch"
  OBVIOUS
<1>4. PICK q : q = [r EXCEPT !.at = w]
  OBVIOUS
<1>5. r.at = "check" /\ fetch' = [fetch EXCEPT ![f] = q]
  BY <1>1, <1>3, <1>4 DEF CheckExpiry, At, Go
<1>6. q \in FetchShape /\ q.elem = r.elem /\ q.at = w /\ q.key = r.key
  BY <1>2, <1>4 DEF FetchShape
<1>7. FetchHolds(q)
  <2>1. entry[r.elem].left \in -1..TTL
    BY <1>2, <1>5 DEF FetchHolds, CardsInv, CardsShape, EntryShape
  <2> QED BY <1>2, <1>3, <1>5, <1>6, <2>1, Numbers DEF FetchHolds
<1>8. UNCHANGED <<list, items, entry, redis>>
  BY DEF CheckExpiry
<1>9. redis' \in [Key -> RedisShape] /\ RedisRecent'
  BY <1>8 DEF CardsInv, CardsShape, RedisRecent
<1> QED BY <1>1, <1>5, <1>6, <1>7, <1>8, <1>9, FetchMoves

\* RedisHit: the card goes on to be put into the LRU cache with the age it has.
LEMMA RedisHitKeeps ==
    ASSUME CardsInv, NEW f \in Fetch, RedisHit(f) PROVE CardsInv'
<1>1. PICK r : r = fetch[f]
  OBVIOUS
<1>2. r \in FetchShape /\ FetchHolds(r) /\ r.at = "redis" /\ r.key \in Key
  BY <1>1, FetchRecord DEF RedisHit, At, FetchHolds
<1>3. PICK w : w = redis[r.key]
  OBVIOUS
<1>4. w.card \in Card /\ w.card.age <= TTL
  <2>1. w \in [card : Card, left : 1..TTL] /\ w.card.age + w.left <= TTL
    BY <1>1, <1>2, <1>3 DEF RedisHit, CardsInv, CardsShape, RedisShape, RedisRecent
  <2>2. w.card.age \in Int /\ w.left \in 1..TTL
    BY <2>1, Numbers DEF Card, Old
  <2> QED BY <2>1, <2>2, Numbers
<1>5. PICK q : q = [r EXCEPT !.at = "put", !.card = w.card, !.src = "redis"]
  OBVIOUS
<1>6. fetch' = [fetch EXCEPT ![f] = q]
  BY <1>1, <1>3, <1>5 DEF RedisHit
<1>7. /\ q \in FetchShape /\ q.elem = r.elem /\ q.at = "put" /\ q.key = r.key
      /\ q.card = w.card /\ q.src = "redis"
  BY <1>2, <1>4, <1>5 DEF FetchShape
<1>8. FetchHolds(q)
  BY <1>2, <1>4, <1>7 DEF FetchHolds
<1>9. UNCHANGED <<list, items, entry, redis>>
  BY DEF RedisHit
<1>10. redis' \in [Key -> RedisShape] /\ RedisRecent'
  BY <1>9 DEF CardsInv, CardsShape, RedisRecent
<1> QED BY <1>1, <1>6, <1>7, <1>8, <1>9, <1>10, FetchMoves

\* RedisMiss: the fetch goes on to ask the agent.
LEMMA RedisMissKeeps ==
    ASSUME CardsInv, NEW f \in Fetch, RedisMiss(f) PROVE CardsInv'
<1>1. PICK r : r = fetch[f]
  OBVIOUS
<1>2. r \in FetchShape /\ FetchHolds(r) /\ r.at = "redis"
  BY <1>1, FetchRecord DEF RedisMiss, At
<1>3. PICK q : q = [r EXCEPT !.at = "http"]
  OBVIOUS
<1>4. fetch' = [fetch EXCEPT ![f] = q]
  BY <1>1, <1>3 DEF RedisMiss, Go
<1>5. q \in FetchShape /\ q.elem = r.elem /\ q.at = "http" /\ q.key = r.key
  BY <1>2, <1>3 DEF FetchShape
<1>6. FetchHolds(q)
  BY <1>2, <1>5 DEF FetchHolds
<1>7. UNCHANGED <<list, items, entry, redis>>
  BY DEF RedisMiss
<1>8. redis' \in [Key -> RedisShape] /\ RedisRecent'
  BY <1>7 DEF CardsInv, CardsShape, RedisRecent
<1> QED BY <1>1, <1>4, <1>5, <1>6, <1>7, <1>8, FetchMoves

\* HttpAnswers: a new card, of age 0.
LEMMA HttpAnswersKeeps ==
    ASSUME CardsInv, NEW f \in Fetch, HttpAnswers(f) PROVE CardsInv'
<1>1. PICK r : r = fetch[f]
  OBVIOUS
<1>2. r \in FetchShape /\ FetchHolds(r) /\ r.at = "http"
  BY <1>1, FetchRecord DEF HttpAnswers, At
<1>3. PICK c \in Card : c = [age |-> 0]
  <2>1. [age |-> 0] \in Card
    BY Numbers DEF Card, Old
  <2> QED BY <2>1
<1>4. PICK q : q = [r EXCEPT !.at = "put", !.card = c, !.src = "http"]
  OBVIOUS
<1>5. fetch' = [fetch EXCEPT ![f] = q]
  BY <1>1, <1>3, <1>4 DEF HttpAnswers
<1>6. /\ q \in FetchShape /\ q.elem = r.elem /\ q.at = "put" /\ q.key = r.key
      /\ q.card = c /\ q.src = "http"
  BY <1>2, <1>3, <1>4 DEF FetchShape
<1>7. FetchHolds(q)
  <2>1. c.age = 0
    BY <1>3
  <2> QED BY <1>2, <1>3, <1>6, <2>1, Numbers DEF FetchHolds
<1>8. UNCHANGED <<list, items, entry, redis>>
  BY DEF HttpAnswers
<1>9. redis' \in [Key -> RedisShape] /\ RedisRecent'
  BY <1>8 DEF CardsInv, CardsShape, RedisRecent
<1> QED BY <1>1, <1>5, <1>6, <1>7, <1>8, <1>9, FetchMoves

\* A fetch that ends, with a card or without one.
LEMMA EndKeeps ==
    ASSUME CardsInv, NEW f \in Fetch, HttpFails(f) \/ Finish(f) PROVE CardsInv'
<1>1. /\ Idle \in FetchShape /\ FetchHolds(Idle) /\ Idle.elem = NoElem
  BY Numbers DEF Idle, FetchShape, FetchHolds, NoElem
<1>2. UNCHANGED <<list, items, entry, redis>> /\ fetch' = [fetch EXCEPT ![f] = Idle]
  BY DEF HttpFails, Finish
<1>3. redis' \in [Key -> RedisShape] /\ RedisRecent'
  BY <1>2 DEF CardsInv, CardsShape, RedisRecent
<1> QED BY <1>1, <1>2, <1>3, FetchMoves

\* SetRedis: a new card gets the whole time to live.
LEMMA SetRedisKeeps ==
    ASSUME CardsInv, NEW f \in Fetch, SetRedis(f) PROVE CardsInv'
<1>1. PICK r : r = fetch[f]
  OBVIOUS
<1>2. /\ r \in FetchShape /\ FetchHolds(r) /\ r.at = "set"
      /\ r.key \in Key /\ r.card = [age |-> 0]
  BY <1>1, FetchRecord DEF SetRedis, At, FetchHolds
<1>3. PICK q : q = [r EXCEPT !.at = "answer"]
  OBVIOUS
<1>4. fetch' = [fetch EXCEPT ![f] = q] /\ UNCHANGED <<list, items, entry>>
  BY <1>1, <1>3 DEF SetRedis, Go
<1>5. /\ q \in FetchShape /\ q.elem = r.elem /\ q.at = "answer" /\ q.key = r.key
      /\ q.card = r.card
  BY <1>2, <1>3 DEF FetchShape
<1>6. r.card \in Card /\ r.card.age = 0
  BY <1>2, Numbers DEF Card, Old
<1>7. FetchHolds(q)
  BY <1>2, <1>5, <1>6, Numbers DEF FetchHolds
<1>8. redis' \in [Key -> RedisShape] /\ RedisRecent'
  <2>1. CASE UNCHANGED redis
    BY <2>1 DEF CardsInv, CardsShape, RedisRecent
  <2>2. CASE redis' = [redis EXCEPT ![r.key] = [card |-> r.card, left |-> TTL]]
    <3>1. PICK w : w = [card |-> r.card, left |-> TTL]
      OBVIOUS
    <3>2. w \in RedisShape /\ w.card.age + w.left <= TTL
      BY <1>6, <3>1, Numbers DEF RedisShape
    <3>3. redis' = [redis EXCEPT ![r.key] = w]
      BY <2>2, <3>1
    <3> QED BY <1>2, <3>2, <3>3 DEF CardsInv, CardsShape, RedisRecent
  <2> QED BY <1>1, <2>1, <2>2 DEF SetRedis
<1> QED BY <1>1, <1>4, <1>5, <1>7, <1>8, FetchMoves

\* LookUp: what nobody refers to is collected, which the map never points to.
LEMMA LookUpKeeps ==
    ASSUME CardsInv, NEW f \in Fetch, NEW k \in Key, LookUp(f, k) PROVE CardsInv'
<1> USE Numbers
<1>1. PICK w \in {"redis", "check"} : w = IF items[k] = NoElem THEN "redis" ELSE "check"
  OBVIOUS
<1>2. PICK r : r = [Idle EXCEPT !.at = w, !.key = k, !.elem = items[k]]
  OBVIOUS
<1>3. /\ fetch' = [fetch EXCEPT ![f] = r] /\ UNCHANGED <<list, items, redis>>
      /\ entry' = [e \in Elem |-> IF InUse(e) THEN entry[e] ELSE NoEntryYet]
  BY <1>1, <1>2 DEF LookUp, Collected
<1>4. items[k] \in Elem \cup {NoElem} /\ (items[k] # NoElem => InUse(items[k]))
  BY DEF CardsInv, CardsShape, IndexMatchesList, InUse
<1>5. r \in FetchShape /\ r.elem = items[k] /\ r.at = w /\ r.key = k
  BY <1>2, <1>4 DEF Idle, FetchShape
<1>6. \A e \in Elem : InUse(e) => entry'[e] = entry[e]
  BY <1>3
<1>7. CardsShape'
  <2>1. NoEntryYet \in EntryShape
    BY DEF NoEntryYet, EntryShape
  <2> QED BY <1>3, <1>5, <2>1 DEF CardsInv, CardsShape
<1>8. IndexMatchesList'
  BY <1>3, <1>6 DEF CardsInv, CardsShape, IndexMatchesList, Listed, InUse
<1>9. ASSUME NEW e \in Elem, InUse(e)' PROVE InUse(e)
  BY <1>3, <1>4, <1>5, <1>9 DEF InUse, Listed, CardsInv, CardsShape
<1>10. UsedHold'
  BY <1>6, <1>9 DEF CardsInv, UsedHold, UsedElement
<1>11. ASSUME NEW x \in Fetch PROVE FetchHolds(fetch[x])'
  <2>1. CASE x = f
    <3>1. fetch'[x] = r
      BY <1>3, <2>1 DEF CardsInv, CardsShape
    <3> QED BY <1>1, <1>4, <1>5, <3>1 DEF FetchHolds
  <2>2. CASE x # f
    <3>1. PICK q : q = fetch[x]
      OBVIOUS
    <3>2. fetch'[x] = q
      BY <1>3, <2>2, <3>1 DEF CardsInv, CardsShape
    <3>3. /\ FetchHolds(q)
          /\ q.elem # NoElem => q.elem \in Elem /\ InUse(q.elem)
      BY <3>1, FetchRecord
    <3>4. q.elem # NoElem => entry'[q.elem] = entry[q.elem]
      BY <1>6, <3>3
    <3> QED BY <3>2, <3>3, <3>4 DEF FetchHolds
  <2> QED BY <2>1, <2>2
<1>12. RedisRecent'
  BY <1>3 DEF CardsInv, RedisRecent
<1> QED BY <1>7, <1>8, <1>10, <1>11, <1>12 DEF CardsInv, FetchesHold

\* RemoveExpired: the map may lose a newer element of the key, never point to
\* the one that left the list.
LEMMA RemoveExpiredKeeps ==
    ASSUME CardsInv, NEW f \in Fetch, RemoveExpired(f) PROVE CardsInv'
<1> USE Numbers
<1>1. PICK r : r = fetch[f]
  OBVIOUS
<1>2. /\ r \in FetchShape /\ FetchHolds(r) /\ r.at = "remove"
      /\ r.elem \in Elem /\ UsedElement(r.elem)
  BY <1>1, FetchRecord DEF RemoveExpired, At, FetchHolds
<1>3. PICK e \in Elem : e = r.elem
  BY <1>2
<1>4. PICK key \in Key : key = entry[e].key
  BY <1>2, <1>3 DEF UsedElement
<1>5. PICK q : q = [r EXCEPT !.at = "redis", !.elem = NoElem]
  OBVIOUS
<1>6. /\ fetch' = [fetch EXCEPT ![f] = q] /\ UNCHANGED <<entry, redis>>
      /\ list' = Unlisted(e) /\ items' = [items EXCEPT ![key] = NoElem]
  BY <1>1, <1>3, <1>4, <1>5 DEF RemoveExpired, RemoveElement
<1>7. q \in FetchShape /\ q.elem = NoElem /\ q.at = "redis" /\ q.key = r.key
  BY <1>2, <1>5 DEF FetchShape
<1>8. list \in Seq(Elem) /\ IsInjective(list) /\ Len(list) <= MaxSize
  BY DEF CardsInv, CardsShape, IndexMatchesList
<1>9. /\ list' \in Seq(Elem) /\ IsInjective(list')
      /\ Len(list') = (IF Listed(e) THEN Len(list) - 1 ELSE Len(list))
      /\ \A x : Has(list', x) <=> Listed(x) /\ x # e
  BY <1>6, <1>8, UnlistedKeeps
<1>10. Len(list') <= MaxSize
  <2>1. Len(list) \in Nat
    BY <1>8
  <2> QED BY <1>8, <1>9, <2>1
<1>11. \A x : Listed(x)' <=> Listed(x) /\ x # e
  <2>1. \A x : Listed(x)' <=> Has(list', x)
    BY DEF Listed, Has
  <2> QED BY <1>9, <2>1, Zenon
<1>12. CardsShape'
  BY <1>6, <1>7, <1>9 DEF CardsInv, CardsShape
<1>13. ASSUME NEW k \in Key, items'[k] # NoElem
       PROVE  Listed(items[k])' /\ entry[items[k]]'.key = k
  <2>1. items'[k] = items[k] /\ k # key
    BY <1>6, <1>13 DEF CardsInv, CardsShape
  <2>2. Listed(items[k]) /\ entry[items[k]].key = k
    BY <1>13, <2>1 DEF CardsInv, IndexMatchesList
  <2>3. items[k] # e
    BY <1>4, <2>1, <2>2
  <2>4. PICK y : y = items[k]
    OBVIOUS
  <2>5. Listed(y)'
    BY <1>11, <2>2, <2>3, <2>4, Zenon
  <2>6. Listed(items[k])'
    BY <2>1, <2>4, <2>5
  <2> QED BY <1>6, <2>1, <2>2, <2>6
<1>14. IndexMatchesList'
  BY <1>9, <1>10, <1>13 DEF IndexMatchesList
<1>15. ASSUME NEW y \in Elem, InUse(y)' PROVE InUse(y)
  <2>1. CASE Listed(y)'
    BY <1>11, <2>1 DEF InUse
  <2>2. CASE \E x \in Fetch : fetch'[x].elem = y
    BY <1>6, <1>7, <2>2 DEF InUse, CardsInv, CardsShape
  <2> QED BY <1>15, <2>1, <2>2 DEF InUse
<1>16. UsedHold'
  BY <1>6, <1>15 DEF CardsInv, UsedHold, UsedElement
<1>17. ASSUME NEW x \in Fetch PROVE FetchHolds(fetch[x])'
  <2>1. CASE x = f
    <3>1. fetch'[x] = q
      BY <1>6, <2>1 DEF CardsInv, CardsShape
    <3> QED BY <1>2, <1>7, <3>1 DEF FetchHolds
  <2>2. CASE x # f
    <3>1. fetch'[x] = fetch[x]
      BY <1>6, <2>2 DEF CardsInv, CardsShape
    <3> QED BY <1>6, <3>1 DEF FetchHolds, CardsInv, FetchesHold
  <2> QED BY <2>1, <2>2
<1>18. RedisRecent'
  BY <1>6 DEF CardsInv, RedisRecent
<1> QED BY <1>12, <1>14, <1>16, <1>17, <1>18 DEF CardsInv, FetchesHold

\* A step that moves an element to the front, and may renew it, while a fetch
\* goes on to r.
LEMMA RearrangedKeeps ==
    ASSUME CardsInv, NEW f \in Fetch, NEW r \in FetchShape, NEW e \in Elem,
           fetch' = [fetch EXCEPT ![f] = r], r.elem = fetch[f].elem, FetchHolds(r)',
           list' = IF Listed(e) THEN <<e>> \o Unlisted(e) ELSE list,
           UNCHANGED <<items, redis>>,
           entry' \in [Elem -> EntryShape],
           \A y \in Elem : entry'[y].key = entry[y].key,
           \A y \in Elem : \/ entry'[y] = entry[y]
                           \/ UsedElement(y)' /\ entry'[y].left >= 0
    PROVE  CardsInv'
<1> USE Numbers
<1>1. list \in Seq(Elem) /\ IsInjective(list) /\ Len(list) <= MaxSize
  BY DEF CardsInv, CardsShape, IndexMatchesList
<1>2. /\ list' \in Seq(Elem) /\ IsInjective(list') /\ Len(list') = Len(list)
      /\ \A x : Has(list', x) <=> Listed(x)
  BY <1>1, FrontedKeeps
<1>3. \A x : Listed(x)' <=> Listed(x)
  <2>1. \A x : Listed(x)' <=> Has(list', x)
    BY DEF Listed, Has
  <2> QED BY <1>2, <2>1, Zenon
<1>4. CardsShape'
  BY <1>2 DEF CardsInv, CardsShape
<1>5. ASSUME NEW k \in Key, items'[k] # NoElem
      PROVE  Listed(items[k])' /\ entry[items[k]]'.key = k
  <2>1. PICK y : y = items[k]
    OBVIOUS
  <2>2. items'[k] = y /\ y # NoElem
    BY <1>5, <2>1
  <2>3. y \in Elem /\ Listed(y) /\ entry[y].key = k
    BY <2>1, <2>2 DEF CardsInv, CardsShape, IndexMatchesList
  <2>4. Listed(y)'
    BY <1>3, <2>3, Zenon
  <2> QED BY <2>2, <2>3, <2>4
<1>6. IndexMatchesList'
  BY <1>1, <1>2, <1>5 DEF IndexMatchesList
<1>7. ASSUME NEW y \in Elem, InUse(y)' PROVE InUse(y)
  <2>1. CASE Listed(y)'
    BY <1>3, <2>1 DEF InUse
  <2>2. CASE \E x \in Fetch : fetch'[x].elem = y
    BY <2>2 DEF InUse, CardsInv, CardsShape
  <2> QED BY <1>7, <2>1, <2>2 DEF InUse
<1>8. UsedHold'
  BY <1>7 DEF CardsInv, UsedHold, UsedElement
<1>9. ASSUME NEW x \in Fetch PROVE FetchHolds(fetch[x])'
  <2>1. CASE x = f
    <3>1. fetch'[x] = r
      BY <2>1 DEF CardsInv, CardsShape
    <3> QED BY <3>1 DEF FetchHolds
  <2>2. CASE x # f
    <3>1. PICK q : q = fetch[x]
      OBVIOUS
    <3>2. fetch'[x] = q
      BY <2>2, <3>1 DEF CardsInv, CardsShape
    <3>3. FetchHolds(q) /\ (q.elem # NoElem => q.elem \in Elem)
      BY <3>1, FetchRecord
    <3>4. q.elem # NoElem => entry'[q.elem] = entry[q.elem] \/ entry'[q.elem].left >= 0
      BY <3>3
    <3> QED BY <3>2, <3>3, <3>4 DEF FetchHolds
  <2> QED BY <2>1, <2>2
<1>10. RedisRecent'
  BY DEF CardsInv, RedisRecent
<1> QED BY <1>4, <1>6, <1>8, <1>9, <1>10 DEF CardsInv, FetchesHold

\* Touch: the element goes to the front, if it is still in the list, and its
\* card is answered.
LEMMA TouchKeeps ==
    ASSUME CardsInv, NEW f \in Fetch, Touch(f) PROVE CardsInv'
<1> USE Numbers
<1>1. PICK r : r = fetch[f]
  OBVIOUS
<1>2. /\ r \in FetchShape /\ FetchHolds(r) /\ r.at = "touch"
      /\ r.elem \in Elem /\ UsedElement(r.elem)
  BY <1>1, FetchRecord DEF Touch, At, FetchHolds
<1>3. PICK e \in Elem : e = r.elem
  BY <1>2
<1>4. PICK c : c = entry[e].card
  OBVIOUS
<1>5. c \in Card /\ c.age <= 2 * TTL
  <2>1. /\ c \in Card /\ entry[e].left >= 0 /\ entry[e].left \in -1..TTL
        /\ c.age + entry[e].left <= 2 * TTL
    BY <1>2, <1>3, <1>4 DEF FetchHolds, UsedElement, CardsInv, CardsShape, EntryShape
  <2>2. c.age \in Int
    BY <2>1 DEF Card, Old
  <2> QED BY <2>1, <2>2
<1>6. PICK q : q = [r EXCEPT !.at = "answer", !.card = c]
  OBVIOUS
<1>7. /\ fetch' = [fetch EXCEPT ![f] = q] /\ UNCHANGED <<items, entry, redis>>
      /\ list' = IF Listed(e) THEN <<e>> \o Unlisted(e) ELSE list
  BY <1>1, <1>3, <1>4, <1>6 DEF Touch
<1>8. /\ q \in FetchShape /\ q.elem = r.elem /\ q.at = "answer" /\ q.key = r.key
      /\ q.card = c
  BY <1>2, <1>5, <1>6 DEF FetchShape
<1>9. FetchHolds(q)'
  BY <1>2, <1>5, <1>8 DEF FetchHolds
<1>10. entry' \in [Elem -> EntryShape]
  BY <1>7 DEF CardsInv, CardsShape
<1> QED BY <1>1, <1>7, <1>8, <1>9, <1>10, RearrangedKeeps

\* The list after a new element is pushed to the front of b.
LEMMA NewFront ==
    ASSUME NEW b \in Seq(Elem), IsInjective(b), NEW e \in Elem, ~Has(b, e),
           list' = <<e>> \o b
    PROVE  /\ list' \in Seq(Elem) /\ IsInjective(list') /\ Len(list') = Len(b) + 1
           /\ \A x : Has(list', x) <=> Has(b, x) \/ x = e
<1>1. PICK m : m = list'
  OBVIOUS
<1>2. m = <<e>> \o b
  BY <1>1
<1>3. /\ m \in Seq(Elem) /\ Len(m) = Len(b) + 1 /\ IsInjective(m)
      /\ \A x : Has(m, x) <=> Has(b, x) \/ x = e
  BY <1>2, PushFront, Zenon
<1> QED BY <1>1, <1>3, Zenon

\* PutCard: an element of the key is renewed; otherwise a new one is pushed to the
\* front, after the last one is evicted from a full list.
LEMMA PutCardKeeps ==
    ASSUME CardsInv, NEW f \in Fetch, PutCard(f) PROVE CardsInv'
<1> USE Numbers
<1>1. PICK r : r = fetch[f]
  OBVIOUS
<1>2. /\ r \in FetchShape /\ FetchHolds(r) /\ r.at = "put" /\ r.elem = NoElem
      /\ r.key \in Key /\ r.card \in Card /\ r.card.age <= TTL
      /\ (r.src # "redis" => r.card.age = 0)
  BY <1>1, FetchRecord DEF PutCard, At, FetchHolds
<1>3. PICK k \in Key : k = r.key
  BY <1>2
<1>4. PICK c \in Card : c = r.card
  BY <1>2
<1>5. PICK w \in {"answer", "set"} : w = IF r.src = "redis" THEN "answer" ELSE "set"
  OBVIOUS
<1>6. PICK q : q = [r EXCEPT !.at = w]
  OBVIOUS
<1>7. /\ fetch' = [fetch EXCEPT ![f] = q] /\ UNCHANGED redis /\ Put(k, c)
  BY <1>1, <1>3, <1>4, <1>5, <1>6 DEF PutCard, Go
<1>8. /\ q \in FetchShape /\ q.elem = NoElem /\ q.at = w /\ q.key = k
      /\ q.card = c
  BY <1>2, <1>3, <1>4, <1>5, <1>6 DEF FetchShape
<1>9. c.age \in Nat /\ c.age <= TTL /\ c.age + TTL <= 2 * TTL
  <2>1. c.age \in 0..Old /\ c.age <= TTL
    BY <1>2, <1>4 DEF Card
  <2> QED BY <2>1 DEF Old
<1>10. w = "set" => c = [age |-> 0]
  <2>1. w = "set" => c.age = 0
    BY <1>2, <1>4, <1>5
  <2> QED BY <2>1 DEF Card
<1>11. FetchHolds(q)'
  <2>1. c.age <= 2 * TTL
    BY <1>9
  <2> QED BY <1>5, <1>8, <1>10, <2>1 DEF FetchHolds
<1>12. CASE items[k] # NoElem
  <2>1. PICK e \in Elem : e = items[k]
    BY <1>12 DEF CardsInv, CardsShape
  <2>2. /\ list' = IF Listed(e) THEN <<e>> \o Unlisted(e) ELSE list
        /\ entry' = [entry EXCEPT ![e].card = c, ![e].left = TTL]
        /\ UNCHANGED items
    BY <1>7, <1>12, <2>1 DEF Put, PutExisting
  <2>3. entry[e] \in EntryShape /\ entry[e].key = k
    BY <2>1, <1>12 DEF CardsInv, CardsShape, IndexMatchesList
  <2>4. PICK n : n = [entry[e] EXCEPT !.card = c, !.left = TTL]
    OBVIOUS
  <2>5. n \in EntryShape /\ n.key = k /\ n.card = c /\ n.left = TTL
    <3>1. PICK o \in EntryShape : o = entry[e]
      BY <2>3
    <3>2. n = [o EXCEPT !.card = c, !.left = TTL] /\ o.key = k
      BY <2>3, <2>4, <3>1
    <3>3. TTL \in -1..TTL
      OBVIOUS
    <3> HIDE Numbers
    <3> QED BY <3>2, <3>3 DEF EntryShape
  <2>6. entry' = [entry EXCEPT ![e] = n]
    BY <2>2, <2>4 DEF CardsInv, CardsShape
  <2>7. entry' \in [Elem -> EntryShape] /\ entry'[e] = n
        /\ \A y \in Elem \ {e} : entry'[y] = entry[y]
    BY <2>5, <2>6 DEF CardsInv, CardsShape
  <2>8. UsedElement(e)' /\ entry'[e].left >= 0
    BY <1>9, <2>5, <2>7 DEF UsedElement
  <2>9. \A y \in Elem : entry'[y].key = entry[y].key
    BY <2>3, <2>5, <2>7
  <2>10. ASSUME NEW y \in Elem
         PROVE  \/ entry'[y] = entry[y]
                \/ UsedElement(y)' /\ entry'[y].left >= 0
    BY <2>7, <2>8
  <2>11. q.elem = fetch[f].elem
    BY <1>1, <1>2, <1>8
  <2> QED BY <1>7, <1>8, <1>11, <2>2, <2>7, <2>9, <2>10, <2>11, RearrangedKeeps
<1>13. CASE items[k] = NoElem
  <2>1. list \in Seq(Elem) /\ IsInjective(list) /\ Len(list) <= MaxSize
    BY DEF CardsInv, CardsShape, IndexMatchesList
  <2>2. PICK e \in Elem : e = FreeElem
    BY <1>1, <1>2, <2>1, SomeElementIsFree DEF CardsInv
  <2>3. e \in Elem /\ ~InUse(e) /\ ~Listed(e) /\ \A x \in Fetch : fetch[x].elem # e
    BY <1>1, <1>2, <2>1, <2>2, SomeElementIsFree DEF CardsInv, InUse
  <2>4. PICK kept : kept = IF Len(list) >= MaxSize THEN Front(list) ELSE list
    OBVIOUS
  <2>5. PICK rest : rest = IF Len(list) >= MaxSize
                           THEN [items EXCEPT ![entry[Last(list)].key] = NoElem] ELSE items
    OBVIOUS
  <2>6. PICK n : n = [key |-> k, card |-> c, left |-> TTL]
    OBVIOUS
  <2>7. /\ list' = <<e>> \o kept
        /\ items' = [rest EXCEPT ![k] = e]
        /\ entry' = [entry EXCEPT ![e] = n]
    BY <1>7, <1>13, <2>2, <2>4, <2>5, <2>6 DEF Put, PutNew
  <2>8. n \in EntryShape /\ n.key = k /\ n.card = c /\ n.left = TTL
    BY <2>6 DEF EntryShape
  <2>9. /\ kept \in Seq(Elem) /\ IsInjective(kept) /\ Len(kept) < MaxSize
        /\ rest \in [Key -> Elem \cup {NoElem}]
        /\ \A x : Has(kept, x) => Listed(x)
        /\ \A y \in Key : rest[y] # NoElem => /\ rest[y] = items[y]
                                              /\ Has(kept, rest[y])
    <3>0. \A x : Listed(x) <=> Has(list, x)
      BY DEF Listed, Has
    <3>00. Len(list) \in Nat /\ items \in [Key -> Elem \cup {NoElem}]
      BY <2>1 DEF CardsInv, CardsShape
    <3>1. CASE Len(list) >= MaxSize
      <4>1. list # << >>
        BY <2>1, <3>1
      <4>2. PICK z : z = Last(list)
        OBVIOUS
      <4>3. /\ kept \in Seq(Elem) /\ IsInjective(kept) /\ Len(kept) = Len(list) - 1
            /\ z \in Elem /\ Has(list, z)
            /\ \A x : Has(kept, x) => Has(list, x) /\ x # z
            /\ \A x : Has(list, x) /\ x # z => Has(kept, x)
        BY <2>1, <2>4, <3>1, <4>1, <4>2, FrontKeeps
      <4>4. PICK zk \in Key : zk = entry[z].key
        <5>1. InUse(z)
          BY <3>0, <4>3 DEF InUse
        <5> QED BY <4>3, <5>1 DEF CardsInv, UsedHold, UsedElement
      <4>5. rest = [items EXCEPT ![zk] = NoElem]
        BY <2>5, <3>1, <4>2, <4>4
      <4>6. ASSUME NEW y \in Key, rest[y] # NoElem
            PROVE  rest[y] = items[y] /\ Has(kept, rest[y])
        <5>1. y # zk /\ rest[y] = items[y]
          BY <3>00, <4>5, <4>6
        <5>2. PICK v : v = items[y]
          OBVIOUS
        <5>3. Listed(v) /\ entry[v].key = y
          BY <4>6, <5>1, <5>2 DEF CardsInv, IndexMatchesList
        <5>4. v # z
          BY <4>4, <5>1, <5>3
        <5>5. Has(kept, v)
          BY <3>0, <4>3, <5>3, <5>4
        <5> QED BY <5>1, <5>2, <5>5
      <4>7. Len(kept) < MaxSize
        BY <2>1, <3>00, <4>3
      <4>8. rest \in [Key -> Elem \cup {NoElem}]
        BY <3>00, <4>5
      <4>9. \A x : Has(kept, x) => Listed(x)
        BY <3>0, <4>3
      <4> QED BY <4>3, <4>6, <4>7, <4>8, <4>9
    <3>2. CASE ~(Len(list) >= MaxSize)
      <4>1. kept = list /\ rest = items
        BY <2>4, <2>5, <3>2
      <4>2. Len(list) < MaxSize
        BY <3>00, <3>2
      <4>3. ASSUME NEW y \in Key, items[y] # NoElem PROVE Has(list, items[y])
        BY <3>0, <4>3 DEF CardsInv, IndexMatchesList
      <4> QED BY <2>1, <3>0, <3>00, <4>1, <4>2, <4>3
    <3> QED BY <3>1, <3>2
  <2>10. ~Has(kept, e)
    BY <2>3, <2>9
  <2>11. /\ list' \in Seq(Elem) /\ IsInjective(list') /\ Len(list') = Len(kept) + 1
         /\ \A x : Has(list', x) <=> Has(kept, x) \/ x = e
    <3>1. kept \in Seq(Elem) /\ IsInjective(kept)
      BY <2>9
    <3>2. list' = <<e>> \o kept
      BY <2>7
    <3> QED BY <2>10, <3>1, <3>2, NewFront, Zenon
  <2>12. Len(list') <= MaxSize
    <3>1. Len(kept) \in Nat /\ Len(kept) < MaxSize
      BY <2>9
    <3> QED BY <2>11, <3>1
  <2>13. \A x : Listed(x)' <=> Has(kept, x) \/ x = e
    <3>1. \A x : Listed(x)' <=> Has(list', x)
      BY DEF Listed, Has
    <3> QED BY <2>11, <3>1, Zenon
  <2>14. /\ entry' \in [Elem -> EntryShape] /\ entry'[e] = n
         /\ \A y \in Elem \ {e} : entry'[y] = entry[y]
    BY <2>3, <2>7, <2>8 DEF CardsInv, CardsShape
  <2>15. CardsShape'
    BY <1>7, <1>8, <2>3, <2>7, <2>9, <2>11, <2>14 DEF CardsInv, CardsShape
  <2>16. ASSUME NEW y \in Key, items'[y] # NoElem
         PROVE  Listed(items[y])' /\ entry[items[y]]'.key = y
    <3>1. CASE y = k
      <4>1. items'[y] = e
        BY <2>7, <2>9, <3>1
      <4>2. Listed(e)'
        BY <2>13
      <4> QED BY <2>8, <2>14, <3>1, <4>1, <4>2
    <3>2. CASE y # k
      <4>1. PICK v : v = rest[y]
        OBVIOUS
      <4>2. items'[y] = v /\ v # NoElem
        BY <2>7, <2>9, <2>16, <3>2, <4>1
      <4>3. v = items[y] /\ Has(kept, v)
        BY <2>9, <4>1, <4>2
      <4>4. Listed(v)'
        BY <2>13, <4>3
      <4>5. entry[v].key = y /\ v \in Elem /\ v # e
        BY <2>10, <4>2, <4>3 DEF CardsInv, CardsShape, IndexMatchesList
      <4> QED BY <2>14, <4>2, <4>4, <4>5
    <3> QED BY <3>1, <3>2
  <2>17. IndexMatchesList'
    BY <2>11, <2>12, <2>16 DEF IndexMatchesList
  <2>18. ASSUME NEW y \in Elem, InUse(y)', y # e PROVE InUse(y)
    <3>1. CASE Listed(y)'
      BY <2>9, <2>13, <2>18, <3>1 DEF InUse
    <3>2. CASE \E x \in Fetch : fetch'[x].elem = y
      BY <1>7, <1>8, <3>2 DEF InUse, CardsInv, CardsShape
    <3> QED BY <2>18, <3>1, <3>2 DEF InUse
  <2>19. UsedElement(e)'
    BY <1>9, <2>8, <2>14 DEF UsedElement
  <2>20. UsedHold'
    BY <2>14, <2>18, <2>19 DEF CardsInv, UsedHold, UsedElement
  <2>21. ASSUME NEW x \in Fetch PROVE FetchHolds(fetch[x])'
    <3>1. CASE x = f
      <4>1. fetch'[x] = q
        BY <1>7, <3>1 DEF CardsInv, CardsShape
      <4> QED BY <1>11, <4>1 DEF FetchHolds
    <3>2. CASE x # f
      <4>1. PICK v : v = fetch[x]
        OBVIOUS
      <4>2. fetch'[x] = v
        BY <1>7, <3>2, <4>1 DEF CardsInv, CardsShape
      <4>3. FetchHolds(v) /\ (v.elem # NoElem => v.elem \in Elem)
        BY <4>1, FetchRecord
      <4>4. v.elem # NoElem => entry'[v.elem] = entry[v.elem]
        BY <2>3, <2>14, <4>1, <4>3
      <4> QED BY <4>2, <4>3, <4>4 DEF FetchHolds
    <3> QED BY <3>1, <3>2
  <2>22. RedisRecent'
    BY <1>7 DEF CardsInv, RedisRecent
  <2> QED BY <2>15, <2>17, <2>20, <2>21, <2>22 DEF CardsInv, FetchesHold
<1> QED BY <1>12, <1>13

\* RestartProcess: the LRU cache is empty again, Redis keeps its cards.
LEMMA RestartKeeps == ASSUME CardsInv, RestartProcess PROVE CardsInv'
<1> USE Numbers
<1>1. /\ list' = << >> /\ items' = [k \in Key |-> NoElem]
      /\ entry' = [e \in Elem |-> NoEntryYet] /\ fetch' = [f \in Fetch |-> Idle]
      /\ UNCHANGED redis
  BY DEF RestartProcess
<1>2. Idle \in FetchShape /\ NoEntryYet \in EntryShape /\ << >> \in Seq(Elem)
  BY DEF Idle, FetchShape, NoEntryYet, EntryShape, NoElem
<1>3. CardsShape'
  BY <1>1, <1>2 DEF CardsInv, CardsShape
<1>4. \A e \in Elem : ~InUse(e)'
  BY <1>1 DEF InUse, Listed, Idle
<1>5. IndexMatchesList'
  <2>1. Len(list') = 0 /\ DOMAIN list' = {}
    BY <1>1
  <2> QED BY <1>1, <2>1 DEF IndexMatchesList, IsInjective
<1>6. FetchesHold'
  BY <1>1 DEF FetchesHold, FetchHolds, Idle
<1> QED BY <1>1, <1>3, <1>4, <1>5, <1>6 DEF CardsInv, UsedHold, RedisRecent

\* A card that grows older is still a card.
LEMMA AgedCard ==
    /\ \A c \in Card : /\ Aged(c) \in Card
                       /\ c.age < Old => Aged(c).age = c.age + 1
    /\ \A c \in Card \cup {NoCard} : Aged(c) \in Card \cup {NoCard}
<1> USE Numbers
<1>1. Old \in Nat
  BY DEF Old
<1>2. ASSUME NEW c \in Card
      PROVE  /\ Aged(c) \in Card
             /\ c.age < Old => Aged(c).age = c.age + 1
  <2>1. c.age \in 0..Old /\ c # NoCard
    BY <1>1 DEF Card, NoCard
  <2>2. PICK a : a = IF c.age < Old THEN c.age + 1 ELSE Old
    OBVIOUS
  <2>3. a \in 0..Old /\ (c.age < Old => a = c.age + 1)
    BY <1>1, <2>1, <2>2
  <2>4. Aged(c) = [age |-> a]
    BY <2>1, <2>2 DEF Aged
  <2> QED BY <2>3, <2>4 DEF Card
<1> QED BY <1>2 DEF Aged

\* TickCards: what is in use grows older as its time to live runs out.
LEMMA TickKeeps == ASSUME CardsInv, TickCards PROVE CardsInv'
<1> USE Numbers
<1> DEFINE Later(n) == [n EXCEPT !.card = Aged(@), !.left = IF @ < 0 THEN @ ELSE @ - 1]
<1>1. /\ UNCHANGED <<list, items, fetch>>
      /\ \A f \in Fetch : fetch[f].at \notin {"touch", "put", "set", "answer"}
      /\ entry' = [e \in Elem |-> Later(IF InUse(e) THEN entry[e] ELSE NoEntryYet)]
  <2>1. \A e \in Elem : Collected[e] = IF InUse(e) THEN entry[e] ELSE NoEntryYet
    BY DEF Collected
  <2>2. entry' = [e \in Elem |-> Later(Collected[e])]
    BY Zenon DEF TickCards
  <2> HIDE DEF Later
  <2>3. entry' = [e \in Elem |-> Later(IF InUse(e) THEN entry[e] ELSE NoEntryYet)]
    BY <2>1, <2>2
  <2>4. /\ UNCHANGED <<list, items, fetch>>
        /\ \A f \in Fetch : fetch[f].at \notin {"touch", "put", "set", "answer"}
    BY Zenon DEF TickCards
  <2> QED BY <2>3, <2>4, Zenon
<1>2. ASSUME NEW n \in EntryShape
      PROVE  /\ Later(n) \in EntryShape /\ Later(n).key = n.key
             /\ Later(n).card = Aged(n.card)
             /\ Later(n).left = IF n.left < 0 THEN n.left ELSE n.left - 1
  <2>1. PICK c : c = Aged(n.card)
    OBVIOUS
  <2>2. PICK l : l = IF n.left < 0 THEN n.left ELSE n.left - 1
    OBVIOUS
  <2>3. c \in Card \cup {NoCard}
    BY <2>1, AgedCard DEF EntryShape
  <2>4. l \in -1..TTL
    <3>1. n.left \in -1..TTL
      BY DEF EntryShape
    <3> QED BY <2>2, <3>1
  <2>5. Later(n) = [n EXCEPT !.card = c, !.left = l]
    BY <2>1, <2>2
  <2> HIDE DEF Later
  <2>6. Later(n) \in EntryShape /\ Later(n).key = n.key /\ Later(n).card = c /\ Later(n).left = l
    BY <2>3, <2>4, <2>5 DEF EntryShape
  <2> QED BY <2>1, <2>2, <2>6
<1> HIDE DEF Later
<1>3. NoEntryYet \in EntryShape
  BY DEF NoEntryYet, EntryShape
<1>4. entry' \in [Elem -> EntryShape]
  <2>1. ASSUME NEW e \in Elem
        PROVE  Later(IF InUse(e) THEN entry[e] ELSE NoEntryYet) \in EntryShape
    BY <1>2, <1>3 DEF CardsInv, CardsShape
  <2> QED BY <1>1, <2>1
<1>5. redis' \in [Key -> RedisShape] /\ RedisRecent'
  <2>1. redis' = [k \in Key |-> IF redis[k].left <= 1 THEN NotInRedis ELSE
                     [card |-> Aged(redis[k].card), left |-> redis[k].left - 1]]
    BY Zenon DEF TickCards
  <2>2. ASSUME NEW k \in Key
        PROVE  /\ redis'[k] \in RedisShape
               /\ redis'[k] # NotInRedis => redis'[k].card.age + redis'[k].left <= TTL
    <3>1. PICK w \in RedisShape : w = redis[k]
      BY DEF CardsInv, CardsShape
    <3>2. CASE w.left <= 1
      BY <2>1, <3>1, <3>2 DEF RedisShape
    <3>3. CASE ~(w.left <= 1)
      <4>1. w # NotInRedis
        BY <3>3 DEF NotInRedis
      <4>2. w \in [card : Card, left : 1..TTL] /\ w.card.age + w.left <= TTL
        BY <3>1, <4>1 DEF CardsInv, RedisRecent, RedisShape
      <4>3. w.card \in Card /\ w.left \in 1..TTL /\ w.card.age \in Nat
        BY <4>2 DEF Card, Old
      <4>4. w.card.age < Old
        BY <4>2, <4>3 DEF Old
      <4>5. PICK a \in Card : a = Aged(w.card)
        BY <4>3, AgedCard
      <4>6. a.age = w.card.age + 1
        BY <4>3, <4>4, <4>5, AgedCard
      <4>7. redis'[k] = [card |-> a, left |-> w.left - 1]
        BY <2>1, <3>1, <3>3, <4>5
      <4>8. w.left - 1 \in 1..TTL
        BY <3>3, <4>3
      <4>9. a.age + (w.left - 1) <= TTL
        BY <4>2, <4>3, <4>6
      <4> QED BY <4>7, <4>8, <4>9 DEF RedisShape
    <3> QED BY <3>2, <3>3
  <2> QED BY <2>1, <2>2 DEF RedisRecent
<1>6. CardsShape'
  BY <1>1, <1>4, <1>5 DEF CardsInv, CardsShape
<1>7. \A e \in Elem : /\ InUse(e)' <=> InUse(e)
                      /\ InUse(e) => entry'[e] = Later(entry[e]) /\ entry[e] \in EntryShape
  BY <1>1 DEF InUse, Listed, CardsInv, CardsShape
<1>8. IndexMatchesList'
  <2>1. ASSUME NEW k \in Key, items[k] # NoElem
        PROVE  Listed(items[k]) /\ entry'[items[k]].key = k
    <3>1. PICK e \in Elem : e = items[k]
      BY <2>1 DEF CardsInv, CardsShape
    <3>2. Listed(e) /\ entry[e].key = k
      BY <2>1, <3>1 DEF CardsInv, IndexMatchesList
    <3>3. entry'[e] = Later(entry[e]) /\ entry[e] \in EntryShape
      BY <1>7, <3>2 DEF InUse
    <3> QED BY <1>2, <3>1, <3>2, <3>3
  <2> QED BY <1>1, <2>1 DEF CardsInv, IndexMatchesList, Listed
<1>9. ASSUME NEW e \in Elem, InUse(e)' PROVE UsedElement(e)'
  <2>1. PICK n \in EntryShape : n = entry[e] /\ entry'[e] = Later(n)
    BY <1>7, <1>9
  <2>2. /\ n.key \in Key /\ n.card \in Card
        /\ n.left >= 0 => n.card.age + n.left <= 2 * TTL
    BY <1>7, <1>9, <2>1 DEF CardsInv, UsedHold, UsedElement
  <2>3. n.left \in Int /\ n.card.age \in Nat
    BY <2>2 DEF EntryShape, Card, Old
  <2>4. PICK m : m = Later(n)
    OBVIOUS
  <2>5. /\ m.key \in Key /\ m.card = Aged(n.card) /\ m.card \in Card
        /\ m.left = IF n.left < 0 THEN n.left ELSE n.left - 1
    BY <1>2, <2>2, <2>4, AgedCard
  <2>6. ASSUME m.left >= 0 PROVE m.card.age + m.left <= 2 * TTL
    <3>1. n.left >= 1 /\ m.left = n.left - 1
      BY <2>3, <2>5, <2>6
    <3>2. n.card.age < Old
      BY <2>2, <2>3, <3>1 DEF Old
    <3>3. m.card.age = n.card.age + 1
      BY <2>2, <2>5, <3>2, AgedCard
    <3> QED BY <2>2, <2>3, <3>1, <3>3
  <2> QED BY <2>1, <2>4, <2>5, <2>6 DEF UsedElement
<1>10. ASSUME NEW f \in Fetch PROVE FetchHolds(fetch[f])'
  BY <1>1 DEF CardsInv, FetchesHold, FetchHolds
<1> QED BY <1>5, <1>6, <1>8, <1>9, <1>10 DEF CardsInv, UsedHold, FetchesHold

\* Every step of a fetch, a restart and the passing of time keep the invariant.
LEMMA CachesKeep == CardsInv /\ [CardsNext]_cardVars => CardsInv'
<1> SUFFICES ASSUME CardsInv, [CardsNext]_cardVars PROVE CardsInv'
  OBVIOUS
<1>1. ASSUME NEW f \in Fetch, FetchStep(f) PROVE CardsInv'
  BY <1>1, LookUpKeeps, CheckExpiryKeeps, RemoveExpiredKeeps, TouchKeeps, RedisHitKeeps,
     RedisMissKeeps, HttpAnswersKeeps, EndKeeps, PutCardKeeps, SetRedisKeeps DEF FetchStep
<1>2. CASE UNCHANGED cardVars
  BY <1>2 DEF cardVars, CardsInv, CardsShape, IndexMatchesList, UsedHold, UsedElement,
     InUse, Listed, FetchesHold, FetchHolds, RedisRecent
<1> QED BY <1>1, <1>2, RestartKeeps, TickKeeps DEF CardsNext

\* The invariant implies the type invariant of the caches.
LEMMA CachesTyped == CardsInv => CardsTypeOK
  BY DEF CardsInv, CardsShape, CardsTypeOK, EntryShape, RedisShape, FetchesHold, FetchHolds

\* In every interleaving of fetches the map of the LRU cache points only to
\* elements that are in the list and hold the key, and the list has no element
\* twice and none more than its limit.
THEOREM CacheMapMatchesList == CardsSpec => []IndexMatchesList
<1>1. CardsInv => IndexMatchesList
  BY DEF CardsInv
<1> QED BY <1>1, CachesStart, CachesKeep, PTL DEF CardsSpec

\* A card that GetAgentCard returns is no older than the two times to live it may
\* spend in Redis and then in the LRU cache, however fetches interleave.
THEOREM ShownCardsAreRecent == CardsSpec => []CardsAreRecent
<1>1. CardsInv => CardsAreRecent
  BY DEF CardsInv, CardsAreRecent, FetchesHold, FetchHolds, At
<1> QED BY <1>1, CachesStart, CachesKeep, PTL DEF CardsSpec
-----------------------------------------------------------------------------
(* The parts together *)

\* The types of the limiter and of the channels.
LimiterTypeOK ==
    /\ limiter \in [Ip -> {NoBucket} \cup [tokens : 0..(Rate - 1), since : 0..Ancient]]
    /\ granted \in [Ip -> [0..Minute -> Nat]]
    /\ buffered \in [Stream -> 0..Buffer]

\* The invariant of the middleware: the bus and the limiter.
GatewayInv == BusInv /\ LimiterTypeOK

\* The initial state satisfies it.
LEMMA GatewayStarts == GatewayInit => GatewayInv
  BY BusStarts, GatewayAssumption DEF GatewayInit, GatewayInv, LimiterTypeOK

\* A request that is let through leaves the bucket of its client well formed: a
\* token is taken only where there is one.
LEMMA AllowKeepsBucket ==
    ASSUME NEW b \in {NoBucket} \cup [tokens : 0..(Rate - 1), since : 0..Ancient],
           ~Refused(b)
    PROVE  AfterAllow(b) \in [tokens : 0..(Rate - 1), since : 0..Ancient]
<1> USE GatewayAssumption
<1>1. CASE b = NoBucket \/ b.since > Minute
  BY <1>1 DEF AfterAllow, FullBucket, Ancient
<1>2. CASE ~(b = NoBucket \/ b.since > Minute)
  <2>1. PICK d \in [tokens : 0..(Rate - 1), since : 0..Ancient] : d = b
    BY <1>2
  <2>2. d.since \in 0..Ancient /\ ~(d.since > Minute)
    BY <1>2, <2>1
  <2>3. d.since <= Minute
    BY <2>2 DEF Ancient
  <2>4. d.tokens \in 0..(Rate - 1) /\ d.tokens # 0
    BY <1>2, <2>1, <2>3 DEF Refused
  <2>5. AfterAllow(b) = [d EXCEPT !.tokens = d.tokens - 1]
    BY <1>2, <2>1 DEF AfterAllow, Spent
  <2>6. d.tokens - 1 \in 0..(Rate - 1)
    BY <2>4
  <2> QED BY <2>5, <2>6
<1> QED BY <1>1, <1>2

\* Every request, stream and publication keeps it.
LEMMA GatewayKeeps == GatewayInv /\ [GatewayNext]_gatewayVars => GatewayInv'
<1> SUFFICES ASSUME GatewayInv, [GatewayNext]_gatewayVars PROVE GatewayInv'
  OBVIOUS
<1> USE GatewayAssumption
<1> DEFINE Bucket == [tokens : 0..(Rate - 1), since : 0..Ancient]
<1>0. BusInv' /\ LimiterTypeOK
  BY BusKeeps DEF GatewayInv
<1>1. ASSUME NEW h \in Handler, NEW i \in Ip, Allow(h, i) PROVE LimiterTypeOK'
  <2>1. /\ ~Refused(limiter[i]) /\ limiter' = [limiter EXCEPT ![i] = AfterAllow(limiter[i])]
        /\ granted' = [granted EXCEPT ![i] = [u \in 0..Minute |-> granted[i][u] + 1]]
        /\ UNCHANGED buffered
    BY <1>1 DEF Allow, busVars
  <2>2. limiter[i] \in {NoBucket} \cup Bucket
    BY <1>0 DEF LimiterTypeOK
  <2>3. AfterAllow(limiter[i]) \in Bucket
    BY <2>1, <2>2, AllowKeepsBucket
  <2>4. limiter' \in [Ip -> {NoBucket} \cup Bucket]
    BY <1>0, <2>1, <2>3 DEF LimiterTypeOK
  <2>5. granted' \in [Ip -> [0..Minute -> Nat]]
    BY <1>0, <2>1 DEF LimiterTypeOK
  <2> QED BY <1>0, <2>1, <2>4, <2>5 DEF LimiterTypeOK
<1>2. ASSUME Cleanup PROVE LimiterTypeOK'
  BY <1>0, <1>2 DEF Cleanup, busVars, LimiterTypeOK
<1>3. ASSUME TickLimiter PROVE LimiterTypeOK'
  <2>1. ASSUME NEW i \in Ip
        PROVE  (IF limiter[i].since < Ancient
                THEN [limiter[i] EXCEPT !.since = @ + 1] ELSE limiter[i])
               \in {NoBucket} \cup Bucket
    <3>1. CASE limiter[i] = NoBucket
      BY <3>1 DEF NoBucket, Ancient
    <3>2. CASE limiter[i] # NoBucket
      <4>1. PICK d \in Bucket : d = limiter[i]
        BY <1>0, <3>2 DEF LimiterTypeOK
      <4>2. d.since \in 0..Ancient /\ Ancient \in Nat
        BY DEF Ancient
      <4>3. d.since < Ancient => d.since + 1 \in 0..Ancient
        BY <4>2
      <4>4. d.since < Ancient => [d EXCEPT !.since = @ + 1] \in Bucket
        BY <4>3
      <4> QED BY <4>1, <4>4
    <3> QED BY <3>1, <3>2
  <2>2. ASSUME NEW i \in Ip, NEW u \in 0..Minute
        PROVE  (IF u = 0 THEN 0 ELSE granted[i][u - 1]) \in Nat
    BY <1>0 DEF LimiterTypeOK
  <2>3. limiter' \in [Ip -> {NoBucket} \cup Bucket]
    <3> HIDE DEF Bucket
    <3> QED BY <1>3, <2>1 DEF TickLimiter
  <2>4. granted' \in [Ip -> [0..Minute -> Nat]]
    BY <1>3, <2>2 DEF TickLimiter
  <2>5. UNCHANGED buffered
    BY <1>3 DEF TickLimiter, busVars
  <2> QED BY <1>0, <2>3, <2>4, <2>5 DEF LimiterTypeOK
<1>4. ASSUME NEW s \in Stream,
             Subscribe(s) \/ Unsubscribe(s) \/ CloseChannel(s) \/ WriteEvent(s)
      PROVE  LimiterTypeOK'
  BY <1>0, <1>4
     DEF Subscribe, Unsubscribe, CloseChannel, WriteEvent, limiterVars, LimiterTypeOK
<1>5. ASSUME NEW h \in Handler, Publish(h) \/ Published(h) PROVE LimiterTypeOK'
  BY <1>0, <1>5 DEF Publish, Published, limiterVars, busVars, LimiterTypeOK
<1>6. ASSUME NEW h \in Handler, NEW s \in Stream, Send(h, s) PROVE LimiterTypeOK'
  BY <1>0, <1>6 DEF Send, limiterVars, LimiterTypeOK
<1>7. ASSUME UNCHANGED gatewayVars PROVE LimiterTypeOK'
  BY <1>0, <1>7 DEF gatewayVars, LimiterTypeOK
<1>8. LimiterTypeOK'
  BY <1>1, <1>2, <1>3, <1>4, <1>5, <1>6, <1>7 DEF GatewayNext
<1> QED BY <1>0, <1>8 DEF GatewayInv

\* What the requests of the last minute leave in a bucket: those since its last
\* reset took a token each, the one that reset it included; what is older comes
\* from a bucket whose own reset is more than a minute older still.
WindowFits(b, g) ==
    /\ b.since > Minute => g[0] = 0
    /\ \A t \in 0..Minute :
          /\ t < b.since => g[t] + b.tokens < Rate
          /\ t = b.since => g[t] + b.tokens <= Rate
          /\ g[t] + b.tokens < 2 * Rate

RateInv == GatewayInv /\ \A i \in Ip : WindowFits(limiter[i], granted[i])

\* What the proofs use of a bucket and of a client's requests.
LEMMA BucketNumbers ==
    ASSUME NEW b \in {NoBucket} \cup [tokens : 0..(Rate - 1), since : 0..Ancient]
    PROVE  /\ b.tokens \in 0..(Rate - 1) /\ b.since \in Nat
           /\ b = NoBucket => b.since > Minute
<1>1. CASE b = NoBucket
  BY <1>1, GatewayAssumption DEF NoBucket
<1>2. CASE b \in [tokens : 0..(Rate - 1), since : 0..Ancient]
  <2>1. b.tokens \in 0..(Rate - 1) /\ b.since \in 0..Ancient /\ Ancient \in Nat
    BY <1>2, GatewayAssumption DEF Ancient
  <2> QED BY <1>1, <2>1
<1> QED BY <1>1, <1>2

\* A request that is let through fits: a token pays for it, or the bucket is
\* filled a minute after the last time.
LEMMA AllowFits ==
    ASSUME NEW b \in {NoBucket} \cup [tokens : 0..(Rate - 1), since : 0..Ancient],
           NEW g \in [0..Minute -> Nat], ~Refused(b), WindowFits(b, g)
    PROVE  WindowFits(AfterAllow(b), [t \in 0..Minute |-> g[t] + 1])
<1> USE GatewayAssumption
<1>0. PICK tokens \in 0..(Rate - 1), since \in Nat :
          tokens = b.tokens /\ since = b.since /\ (b = NoBucket => since > Minute)
  BY BucketNumbers
<1>1. /\ since > Minute => g[0] = 0
      /\ \A t \in 0..Minute : g[t] \in Nat
      /\ \A t \in 0..Minute : t < since => g[t] + tokens < Rate
      /\ \A t \in 0..Minute : t = since => g[t] + tokens <= Rate
      /\ \A t \in 0..Minute : g[t] + tokens < 2 * Rate
  BY <1>0 DEF WindowFits
<1>2. PICK h : h = [t \in 0..Minute |-> g[t] + 1]
  OBVIOUS
<1>3. \A t \in 0..Minute : h[t] = g[t] + 1
  BY <1>2
<1>4. CASE since > Minute
  <2>1. AfterAllow(b) = [tokens |-> Rate - 1, since |-> 0]
    BY <1>0, <1>4 DEF AfterAllow, FullBucket
  <2>2. h[0] = 1
    BY <1>1, <1>3, <1>4
  <2>3. ASSUME NEW t \in 0..Minute PROVE h[t] + (Rate - 1) < 2 * Rate
    <3>1. PICK n \in Nat : n = g[t]
      BY <1>1
    <3>2. n + tokens < Rate
      BY <1>1, <1>4, <3>1
    <3>3. (n + 1) + (Rate - 1) < 2 * Rate
      BY <3>2
    <3> QED BY <1>3, <3>1, <3>3
  <2>4. h[0] + (Rate - 1) <= Rate
    BY <2>2
  <2>5. PICK c : c = AfterAllow(b) /\ c.tokens = Rate - 1 /\ c.since = 0
    BY <2>1
  <2>6. WindowFits(c, h)
    BY <2>3, <2>4, <2>5 DEF WindowFits
  <2> QED BY <1>2, <2>5, <2>6
<1>5. CASE ~(since > Minute)
  <2>1. b # NoBucket /\ since <= Minute
    BY <1>0, <1>5
  <2>2. tokens # 0
    BY <1>0, <2>1 DEF Refused
  <2>3. b \in [tokens : 0..(Rate - 1), since : 0..Ancient]
    BY <2>1
  <2>4. PICK c : c = AfterAllow(b) /\ c.tokens = tokens - 1 /\ c.since = since
    <3>1. PICK c : c = AfterAllow(b)
      OBVIOUS
    <3>2. c = [b EXCEPT !.tokens = b.tokens - 1]
      BY <1>0, <1>5, <2>1, <3>1 DEF AfterAllow, Spent
    <3>3. c.tokens = tokens - 1 /\ c.since = since
      BY <1>0, <2>3, <3>2
    <3> QED BY <3>1, <3>3
  <2>5. ASSUME NEW t \in 0..Minute
        PROVE  /\ t < since => h[t] + (tokens - 1) < Rate
               /\ t = since => h[t] + (tokens - 1) <= Rate
               /\ h[t] + (tokens - 1) < 2 * Rate
    <3>1. PICK n \in Nat : n = g[t]
      BY <1>1
    <3>2. h[t] + (tokens - 1) = n + tokens
      BY <1>3, <3>1
    <3> QED BY <1>1, <3>1, <3>2
  <2>6. WindowFits(c, h)
    BY <1>5, <2>4, <2>5 DEF WindowFits
  <2> QED BY <1>2, <2>4, <2>6
<1> QED BY <1>4, <1>5

\* A tick moves the window and the age of the bucket together.
LEMMA TickFits ==
    ASSUME NEW b \in {NoBucket} \cup [tokens : 0..(Rate - 1), since : 0..Ancient],
           NEW g \in [0..Minute -> Nat], WindowFits(b, g)
    PROVE  WindowFits(IF b.since < Ancient THEN [b EXCEPT !.since = @ + 1] ELSE b,
                      [t \in 0..Minute |-> IF t = 0 THEN 0 ELSE g[t - 1]])
<1> USE GatewayAssumption
<1>0. PICK tokens \in 0..(Rate - 1), since \in Nat : tokens = b.tokens /\ since = b.since
  BY BucketNumbers
<1>1. PICK c : c = IF b.since < Ancient THEN [b EXCEPT !.since = @ + 1] ELSE b
  OBVIOUS
<1>2. PICK h : h = [t \in 0..Minute |-> IF t = 0 THEN 0 ELSE g[t - 1]]
  OBVIOUS
<1>3. PICK later \in Nat : /\ c.since = later /\ c.tokens = tokens
                           /\ later = since + 1 \/ (later = since /\ since > Minute)
  <2>1. CASE since < Ancient
    <3>1. c = [b EXCEPT !.since = since + 1]
      BY <1>0, <1>1, <2>1
    <3>2. c.since = since + 1 /\ c.tokens = tokens
      BY <1>0, <3>1 DEF NoBucket
    <3> QED BY <3>2
  <2>2. CASE ~(since < Ancient)
    <3>1. c = b
      BY <1>0, <1>1, <2>2
    <3>2. since > Minute
      BY <2>2 DEF Ancient
    <3> QED BY <1>0, <3>1, <3>2
  <2> QED BY <2>1, <2>2
<1>4. h[0] = 0 /\ \A t \in 1..Minute : h[t] = g[t - 1] /\ t - 1 \in 0..Minute
  BY <1>2
<1>5. /\ \A t \in 0..Minute : g[t] \in Nat
      /\ \A t \in 0..Minute : t < since => g[t] + tokens < Rate
      /\ \A t \in 0..Minute : t = since => g[t] + tokens <= Rate
      /\ \A t \in 0..Minute : g[t] + tokens < 2 * Rate
  BY <1>0 DEF WindowFits
<1>6. ASSUME NEW t \in 0..Minute
      PROVE  /\ t < later => h[t] + tokens < Rate
             /\ t = later => h[t] + tokens <= Rate
             /\ h[t] + tokens < 2 * Rate
  <2>1. CASE t = 0
    BY <1>4, <2>1
  <2>2. CASE t # 0
    <3>1. t \in 1..Minute /\ t - 1 \in 0..Minute
      BY <2>2
    <3>2. PICK n \in Nat : n = g[t - 1] /\ n = h[t]
      BY <1>4, <1>5, <3>1
    <3>3. n + tokens < 2 * Rate
      BY <1>5, <3>1, <3>2
    <3>4. t < later => t - 1 < since
      BY <1>3, <3>1
    <3>5. t = later => t - 1 = since
      BY <1>3, <3>1
    <3>6. t < later => n + tokens < Rate
      BY <1>5, <3>1, <3>2, <3>4
    <3>7. t = later => n + tokens <= Rate
      BY <1>5, <3>1, <3>2, <3>5
    <3> QED BY <3>2, <3>3, <3>6, <3>7
  <2> QED BY <2>1, <2>2
<1>7. WindowFits(c, h)
  BY <1>3, <1>4, <1>6 DEF WindowFits
<1> QED BY <1>1, <1>2, <1>7

\* No request, tick or clean-up breaks the rate.
LEMMA RateKeeps == RateInv /\ [GatewayNext]_gatewayVars => RateInv'
<1> SUFFICES ASSUME RateInv, [GatewayNext]_gatewayVars PROVE RateInv'
  OBVIOUS
<1> USE GatewayAssumption
<1>0. GatewayInv' /\ \A i \in Ip : WindowFits(limiter[i], granted[i])
  BY GatewayKeeps DEF RateInv
<1>t. /\ limiter \in [Ip -> {NoBucket} \cup [tokens : 0..(Rate - 1), since : 0..Ancient]]
      /\ granted \in [Ip -> [0..Minute -> Nat]]
  BY DEF RateInv, GatewayInv, LimiterTypeOK
<1>1. ASSUME NEW h \in Handler, NEW i \in Ip, Allow(h, i), NEW j \in Ip
      PROVE  WindowFits(limiter'[j], granted'[j])
  <2>1. /\ ~Refused(limiter[i]) /\ limiter' = [limiter EXCEPT ![i] = AfterAllow(limiter[i])]
        /\ granted' = [granted EXCEPT ![i] = [u \in 0..Minute |-> granted[i][u] + 1]]
    BY <1>1 DEF Allow
  <2>2. CASE j = i
    <3>1. WindowFits(AfterAllow(limiter[i]), [u \in 0..Minute |-> granted[i][u] + 1])
      BY <1>0, <1>t, <2>1, AllowFits
    <3>2. limiter'[j] = AfterAllow(limiter[i])
          /\ granted'[j] = [u \in 0..Minute |-> granted[i][u] + 1]
      BY <1>t, <2>1, <2>2
    <3> QED BY <3>1, <3>2
  <2>3. CASE j # i
    BY <1>0, <1>t, <2>1, <2>3
  <2> QED BY <2>2, <2>3
<1>2. ASSUME Cleanup, NEW j \in Ip PROVE WindowFits(limiter'[j], granted'[j])
  <2>1. granted' = granted
        /\ limiter'[j] = IF limiter[j].since > 2 * Minute THEN NoBucket ELSE limiter[j]
    BY <1>2 DEF Cleanup
  <2>2. CASE limiter[j].since > 2 * Minute
    <3>1. PICK tokens \in 0..(Rate - 1), since \in Nat :
              tokens = limiter[j].tokens /\ since = limiter[j].since
      BY <1>t, BucketNumbers
    <3>2. since > Minute
      BY <2>2, <3>1
    <3>3. PICK g \in [0..Minute -> Nat] : g = granted[j]
      BY <1>t
    <3>4. g[0] = 0 /\ \A t \in 0..Minute : g[t] \in Nat /\ (t < since => g[t] + tokens < Rate)
      BY <1>0, <3>1, <3>2, <3>3 DEF WindowFits
    <3>5. ASSUME NEW t \in 0..Minute PROVE g[t] + 0 < Rate /\ g[t] + 0 < 2 * Rate /\ t # 2 * Minute + 2
      <4>1. PICK n \in Nat : n = g[t]
        BY <3>4
      <4>2. n + tokens < Rate
        BY <3>2, <3>4, <4>1
      <4>3. n + 0 < Rate /\ n + 0 < 2 * Rate
        BY <4>2
      <4> QED BY <4>1, <4>3
    <3>6. NoBucket.tokens = 0 /\ NoBucket.since = 2 * Minute + 2
      BY DEF NoBucket
    <3>7. WindowFits(NoBucket, g)
      BY <3>4, <3>5, <3>6 DEF WindowFits
    <3> QED BY <2>1, <2>2, <3>3, <3>7
  <2>3. CASE ~(limiter[j].since > 2 * Minute)
    BY <1>0, <2>1, <2>3
  <2> QED BY <2>2, <2>3
<1>3. ASSUME TickLimiter, NEW j \in Ip PROVE WindowFits(limiter'[j], granted'[j])
  <2>1. /\ limiter'[j] = IF limiter[j].since < Ancient
                         THEN [limiter[j] EXCEPT !.since = @ + 1] ELSE limiter[j]
        /\ granted'[j] = [t \in 0..Minute |-> IF t = 0 THEN 0 ELSE granted[j][t - 1]]
    BY <1>3 DEF TickLimiter
  <2>2. PICK b \in {NoBucket} \cup [tokens : 0..(Rate - 1), since : 0..Ancient] :
            b = limiter[j]
    BY <1>t
  <2>3. PICK g \in [0..Minute -> Nat] : g = granted[j]
    BY <1>t
  <2>4. WindowFits(IF b.since < Ancient THEN [b EXCEPT !.since = @ + 1] ELSE b,
                   [t \in 0..Minute |-> IF t = 0 THEN 0 ELSE g[t - 1]])
    BY <1>0, <2>2, <2>3, TickFits
  <2>5. limiter'[j] = IF b.since < Ancient THEN [b EXCEPT !.since = @ + 1] ELSE b
    BY <2>1, <2>2
  <2>6. granted'[j] = [t \in 0..Minute |-> IF t = 0 THEN 0 ELSE g[t - 1]]
    BY <2>1, <2>3
  <2> QED BY <2>4, <2>5, <2>6
<1>4. CASE UNCHANGED limiterVars
  BY <1>0, <1>4 DEF limiterVars, RateInv
<1>5. \/ \E h \in Handler, i \in Ip : Allow(h, i)
      \/ Cleanup \/ TickLimiter \/ UNCHANGED limiterVars
  BY DEF GatewayNext, Subscribe, Unsubscribe, CloseChannel, WriteEvent, Publish, Published,
         Send, gatewayVars, limiterVars
<1> QED BY <1>0, <1>1, <1>2, <1>3, <1>4, <1>5 DEF RateInv

\* No minute, wherever it starts, lets twice the rate of requests of one client
\* through, for any rate, length of the minute and number of clients: a reset
\* comes more than a minute after the last one and the clean-up no earlier.
THEOREM RateHolds == GatewaySpec => []MinuteBounded
<1> USE GatewayAssumption
<1>1. GatewayInit => RateInv
  <2> SUFFICES ASSUME GatewayInit PROVE RateInv
    OBVIOUS
  <2>1. \A i \in Ip : limiter[i] = NoBucket /\ granted[i] = [t \in 0..Minute |-> 0]
    BY DEF GatewayInit
  <2>2. PICK g : g = [t \in 0..Minute |-> 0]
    OBVIOUS
  <2>3. WindowFits(NoBucket, g)
    BY <2>2 DEF WindowFits, NoBucket
  <2> QED BY <2>1, <2>2, <2>3, GatewayStarts DEF RateInv
<1>2. RateInv => MinuteBounded
  <2> SUFFICES ASSUME RateInv, NEW i \in Ip PROVE granted[i][Minute] < 2 * Rate
    BY DEF MinuteBounded
  <2>1. /\ limiter \in [Ip -> {NoBucket} \cup [tokens : 0..(Rate - 1), since : 0..Ancient]]
        /\ granted \in [Ip -> [0..Minute -> Nat]]
    BY DEF RateInv, GatewayInv, LimiterTypeOK
  <2>2. PICK tokens \in 0..(Rate - 1) : tokens = limiter[i].tokens
    BY <2>1, BucketNumbers
  <2>3. PICK n \in Nat : n = granted[i][Minute]
    BY <2>1
  <2>4. n + tokens < 2 * Rate
    BY <2>2, <2>3 DEF RateInv, WindowFits
  <2>5. n < 2 * Rate
    BY <2>4
  <2> QED BY <2>3, <2>5
<1> QED BY <1>1, <1>2, RateKeeps, PTL DEF GatewaySpec

\* The DHT records keep their types.
LEMMA RecordsKeep == RecordsTypeOK /\ [RecordsNext]_recordVars => RecordsTypeOK'
<1> SUFFICES ASSUME RecordsTypeOK, [RecordsNext]_recordVars PROVE RecordsTypeOK'
  OBVIOUS
<1> USE RecordsAssumption DEF RecordsTypeOK, Age, Gone
<1>1. ASSUME NEW n \in Holder, Store(n) \/ LoseStore(n) \/ Republish(n)
      PROVE  RecordsTypeOK'
  <2>1. stores' \in SUBSET Holder
    BY <1>1 DEF Store, LoseStore, Republish
  <2>2. age' = [age EXCEPT ![n] = 0] \/ age' = age
    BY <1>1 DEF Store, LoseStore, Republish
  <2>3. stored' \in BOOLEAN /\ asked' = asked /\ found' = found
    BY <1>1 DEF Store, LoseStore, Republish
  <2> QED BY <2>1, <2>2, <2>3
<1>2. ASSUME NEW n \in Holder, FindValue(n) \/ AnswerFind(n) \/ FindEnds(n)
      PROVE  RecordsTypeOK'
  BY <1>2 DEF FindValue, AnswerFind, FindEnds
<1>3. ASSUME NEW n \in Holder, Expire(n) \/ Restart(n) PROVE RecordsTypeOK'
  BY <1>3 DEF Expire, Restart
<1>4. ASSUME NEW n \in Holder, HandleStore(n) \/ CacheFound(n) PROVE RecordsTypeOK'
  BY <1>4 DEF HandleStore, CacheFound
<1>5. CASE Tick
  BY <1>5 DEF Tick
<1>6. CASE UNCHANGED recordVars
  BY <1>6 DEF recordVars
<1> QED BY <1>1, <1>2, <1>3, <1>4, <1>5, <1>6 DEF RecordsNext, CopyComes

\* The invariants of the parts, which share no variable.
NodeInv == RoutingInv /\ RecordsTypeOK /\ CardsInv /\ GatewayInv

\* Every part of a node keeps its types and the shapes its properties rest on,
\* whichever part moves.
THEOREM NodeTypeCorrect == Spec => []NodeTypeOK
<1>1. Init => NodeInv
  <2>1. RecordsInit => RecordsTypeOK
    BY RecordsAssumption DEF RecordsInit, RecordsTypeOK
  <2> QED BY <2>1, BucketStarts, CachesStart, GatewayStarts DEF Init, NodeInv
<1>2. NodeInv /\ [Next]_vars => NodeInv'
  <2> SUFFICES ASSUME NodeInv, [Next]_vars PROVE NodeInv'
    OBVIOUS
  <2>1. /\ [RoutingNext]_routingVars /\ [RecordsNext]_recordVars
        /\ [CardsNext]_cardVars /\ [GatewayNext]_gatewayVars
    BY DEF Next, vars
  <2> QED BY <2>1, BucketKeeps, RecordsKeep, CachesKeep, GatewayKeeps DEF NodeInv
<1>3. NodeInv => NodeTypeOK
  <2>1. RoutingInv => RoutingTypeOK
    BY DEF RoutingInv
  <2>2. CardsInv => CardsTypeOK
    BY CachesTyped
  <2>3. GatewayInv => GatewayTypeOK
    BY DEF GatewayInv, LimiterTypeOK, BusInv, BusTypeOK, GatewayTypeOK
  <2> QED BY <2>1, <2>2, <2>3 DEF NodeInv, NodeTypeOK
<1> QED BY <1>1, <1>2, <1>3, PTL DEF Spec

\* A step of a DHT node makes a copy of a record younger, or brings one back, only
\* by taking a STORE or by keeping what a lookup of its own has found.
OnlyArrivalsRenew ==
    stored => \A n \in Holder : age'[n] < age[n] => HandleStore(n) \/ CacheFound(n)

\* What RecordsLapse rests on, for any number of nodes and any ExpireAfter: neither
\* the hourly republish of a node nor a restart renews StoredAt of the node's own
\* copy, so a copy only ages towards the sweep until a STORE or an answer to FindValue
\* brings it from elsewhere.
THEOREM CopiesOnlyAge == Spec => [][OnlyArrivalsRenew]_recordVars
<1>1. NodeTypeOK /\ [Next]_vars => [OnlyArrivalsRenew]_recordVars
  <2> SUFFICES ASSUME RecordsTypeOK, RecordsNext, stored,
                      NEW n \in Holder, ~HandleStore(n), ~CacheFound(n)
               PROVE  ~(age'[n] < age[n])
    BY DEF NodeTypeOK, Next, vars, recordVars, OnlyArrivalsRenew
  <2> USE RecordsAssumption DEF RecordsTypeOK, Age, Gone
  <2>1. age[n] \in Nat /\ age[n] <= ExpireAfter + 2
    OBVIOUS
  <2>2. ASSUME NEW m \in Holder,
               \/ LoseStore(m) \/ Republish(m)
               \/ FindValue(m) \/ AnswerFind(m) \/ FindEnds(m)
        PROVE  ~(age'[n] < age[n])
    <3>1. age' = age
      BY <2>2, Zenon DEF LoseStore, Republish, FindValue, AnswerFind, FindEnds
    <3> QED BY <2>1, <3>1
  <2>3. ASSUME NEW m \in Holder, Expire(m) \/ Restart(m) PROVE ~(age'[n] < age[n])
    <3>1. age'[n] = age[n] \/ age'[n] = ExpireAfter + 2
      BY <2>3 DEF Expire, Restart
    <3> QED BY <2>1, <3>1
  <2>4. CASE Tick
    <3>1. age'[n] = age[n] \/ age'[n] = age[n] + 1
      BY <2>4 DEF Tick
    <3> QED BY <2>1, <3>1
  <2>5. ASSUME NEW m \in Holder, HandleStore(m) \/ CacheFound(m)
        PROVE  ~(age'[n] < age[n])
    <3>1. m # n
      BY <2>5
    <3>2. age'[n] = age[n]
      BY <2>5, <3>1 DEF HandleStore, CacheFound
    <3> QED BY <2>1, <3>2
  <2>6. \A m \in Holder : ~Store(m)
    BY DEF Store
  <2> QED BY <2>2, <2>3, <2>4, <2>5, <2>6 DEF RecordsNext, CopyComes
<1> QED BY <1>1, NodeTypeCorrect, PTL DEF Spec

\* The record was stored and is nowhere any more: no copy, no STORE on its way and no
\* answer that brings it. Lookups may still be asking.
Dead == stored /\ (\A n \in Holder : age[n] = Gone) /\ stores = {} /\ found = {}

\* A record that has died out does not come back, however nodes restart, look for it
\* or republish: no other node holds what a lookup or a STORE could bring.
THEOREM DeadStaysDead == Spec => [][Dead => Dead']_recordVars
<1>1. NodeTypeOK /\ [Next]_vars => [Dead => Dead']_recordVars
  <2> SUFFICES ASSUME RecordsTypeOK, RecordsNext, Dead PROVE Dead'
    BY DEF NodeTypeOK, Next, vars, recordVars
  <2> USE RecordsAssumption DEF RecordsTypeOK, Age, Gone, Dead
  <2>1. ASSUME NEW m \in Holder, Expire(m) \/ Restart(m) PROVE Dead'
    BY <2>1 DEF Expire, Restart
  <2>2. ASSUME NEW m \in Holder, FindValue(m) \/ FindEnds(m) PROVE Dead'
    BY <2>2 DEF FindValue, FindEnds
  <2>3. CASE Tick
    BY <2>3 DEF Tick
  <2>4. \A m \in Holder : /\ ~Store(m) /\ ~LoseStore(m) /\ ~Republish(m)
                           /\ ~AnswerFind(m) /\ ~HandleStore(m) /\ ~CacheFound(m)
    BY DEF Store, LoseStore, Republish, AnswerFind, HandleStore, CacheFound
  <2> QED BY <2>1, <2>2, <2>3, <2>4 DEF RecordsNext, CopyComes
<1> QED BY <1>1, NodeTypeCorrect, PTL DEF Spec
=============================================================================
