---------------------------- MODULE LookupProofs ----------------------------
(***************************************************************************)
(* The DHT operation, for every number of nodes, every K and Alpha and all *)
(* routing tables: types, that a lookup keeps and asks the nearest contact *)
(* it was given, that it does not miss a record it was told of, and that   *)
(* no goroutine of it blocks and no round is in vain.                      *)
(***************************************************************************)
EXTENDS Lookup, SequenceTheorems, FiniteSetTheorems, WellFoundedInduction, TLAPS

-----------------------------------------------------------------------------
(* Sets of numbers *)

\* A set of numbers that is not empty has a least one.
LEMMA LeastOf ==
    ASSUME NEW S \in SUBSET Nat, S # {}
    PROVE  /\ Min(S) \in S
           /\ \A x \in S : Min(S) <= x
<1> DEFINE T == {1..n : n \in S}
<1>1. T \subseteq FiniteSubsetsOf(Nat) /\ T # {}
  <2>1. ASSUME NEW n \in S PROVE 1..n \in FiniteSubsetsOf(Nat)
    BY FS_Interval DEF FiniteSubsetsOf
  <2> QED BY <2>1
<1>2. PICK t \in T : \A u \in T : ~(<<u, t>> \in StrictSubsetOrdering(Nat))
  BY <1>1, FS_StrictSubsetOrderingWellFounded, WFMin
<1>3. PICK x \in S : t = 1..x
  BY <1>2
<1>4. ASSUME NEW y \in S, y < x PROVE FALSE
  <2>1. 1..y \in SUBSET Nat /\ 1..x \in SUBSET Nat /\ 1..y \subseteq 1..x
    BY <1>4
  <2>2. x \in 1..x /\ x \notin 1..y
    BY <1>4
  <2>3. <<1..y, 1..x>> \in StrictSubsetOrdering(Nat)
    BY <2>1, <2>2 DEF StrictSubsetOrdering
  <2> QED BY <1>2, <1>3, <2>3
<1>5. \A y \in S : x <= y
  BY <1>4
<1> QED BY <1>5 DEF Min

\* The numbers of a finite set have a largest one.
LEMMA LargestOf ==
    ASSUME NEW S \in SUBSET Nat, S # {}, IsFiniteSet(S)
    PROVE  /\ Max(S) \in S
           /\ \A x \in S : x <= Max(S)
<1>1. PICK s \in Seq(S) : \A x \in S : \E n \in 1..Len(s) : s[n] = x
  BY DEF IsFiniteSet
<1>2. PICK l \in Nat : l = Len(s)
  BY <1>1, LenProperties
<1>3. \A n \in 1..l : s[n] \in Nat
  BY <1>1, <1>2, ElementOfSeq
<1> DEFINE Bounded(n) == \E b \in Nat : \A i \in 1..n : s[i] <= b
           Bad == {n \in 0..l : ~Bounded(n)}
<1> HIDE DEF Bounded
<1>4. Bounded(l)
  <2>1. SUFFICES ASSUME ~Bounded(l) PROVE FALSE
    OBVIOUS
  <2>a. l \in Bad /\ Bad # {}
    BY <1>2, <2>1
  <2>2. PICK m \in Bad : \A y \in Bad : m <= y
    <3>1. Bad \in SUBSET Nat
      BY <1>2
    <3> HIDE DEF Bad
    <3> QED BY <2>a, <3>1, LeastOf
  <2>3. m # 0
    <3>1. \A i \in 1..0 : s[i] <= 0
      OBVIOUS
    <3> QED BY <3>1, <2>2 DEF Bounded
  <2>4. m \in 1..l /\ m - 1 \in 0..l /\ m - 1 \notin Bad
    BY <2>2, <2>3, <1>2
  <2>5. Bounded(m - 1)
    BY <2>4
  <2>b. PICK b \in Nat : \A i \in 1..(m - 1) : s[i] <= b
    BY <2>5, Zenon DEF Bounded
  <2>6. PICK c \in Nat : c >= b /\ c >= s[m]
    <3>1. PICK v \in Nat : v = s[m]
      BY <2>4, <1>3
    <3>2. b + v \in Nat /\ b + v >= b /\ b + v >= v
      OBVIOUS
    <3> QED BY <3>1, <3>2
  <2>7. ASSUME NEW i \in 1..m PROVE s[i] <= c
    <3>1. i = m \/ i \in 1..(m - 1)
      BY <2>4
    <3>2. PICK v \in Nat : v = s[i]
      BY <2>4, <1>2, <1>3
    <3>3. v <= b \/ v <= c
      BY <2>b, <2>6, <3>1, <3>2
    <3>4. v <= c
      BY <2>6, <3>3
    <3> QED BY <3>2, <3>4
  <2> QED BY <2>2, <2>7 DEF Bounded
<1>5. PICK b \in Nat : \A x \in S : x <= b
  BY <1>1, <1>2, <1>4 DEF Bounded
<1> DEFINE U == {n \in Nat : \A x \in S : x <= n}
<1>6. PICK u \in U : \A y \in U : u <= y
  <2>1. U \in SUBSET Nat /\ U # {}
    BY <1>5
  <2> HIDE DEF U
  <2> QED BY <2>1, LeastOf
<1>7. u \in S
  <2>1. SUFFICES ASSUME u \notin S PROVE FALSE
    OBVIOUS
  <2>2. PICK x \in S : TRUE
    OBVIOUS
  <2>3. u - 1 \in U
    BY <1>6, <2>1, <2>2
  <2>4. u \in Nat /\ u <= u - 1
    BY <1>6, <2>3
  <2> QED BY <2>4
<1>8. \A y \in S : u >= y
  BY <1>6
<1> QED BY <1>7, <1>8 DEF Max

-----------------------------------------------------------------------------
(* Sorting *)

\* How many places have a nearer contact than n, and one no farther.
Below(s, n) == Cardinality({k \in DOMAIN s : Nearer(s[k], n)})
UpTo(s, n) == Cardinality({k \in DOMAIN s : ~Nearer(n, s[k])})

LEMMA SeqIsFinite ==
    ASSUME NEW S, NEW s \in Seq(S)
    PROVE  /\ Len(s) \in Nat /\ DOMAIN s = 1..Len(s)
           /\ \A k \in 1..Len(s) : s[k] \in S /\ s[k] \in Range(s)
           /\ Range(s) \subseteq S
           /\ IsFiniteSet(Range(s)) /\ IsFiniteSet(1..Len(s))
           /\ Cardinality(1..Len(s)) = Len(s)
<1>1. PICK l \in Nat : l = Len(s) /\ DOMAIN s = 1..l
  BY LenProperties
<1>2. \A k \in 1..l : s[k] \in S /\ s[k] \in Range(s)
  BY <1>1, ElementOfSeq DEF Range
<1>3. IsFiniteSet(1..l) /\ Cardinality(1..l) = l
  BY FS_Interval
<1>4. PICK R : R = Range(s)
  OBVIOUS
<1>5. s \in Surjection(1..l, R)
  <2>1. s \in [1..l -> R]
    BY <1>1, <1>2, <1>4, LenProperties
  <2>2. \A x \in R : \E k \in 1..l : s[k] = x
    BY <1>1, <1>4 DEF Range
  <2> QED BY <2>1, <2>2 DEF Surjection
<1>6. IsFiniteSet(R)
  BY <1>3, <1>5, FS_Surjection
<1>7. R \subseteq S
  BY <1>1, <1>2, <1>4 DEF Range
<1> QED BY <1>1, <1>2, <1>3, <1>4, <1>6, <1>7

\* Counts of places.
LEMMA PlacesCounted ==
    ASSUME NEW s \in Seq(Nat), NEW A \in SUBSET DOMAIN s, NEW B \in SUBSET DOMAIN s
    PROVE  /\ Cardinality(A) \in Nat
           /\ Cardinality(A) = 0 <=> A = {}
           /\ A \subseteq B => Cardinality(A) <= Cardinality(B)
<1>1. IsFiniteSet(DOMAIN s)
  BY SeqIsFinite
<1>2. IsFiniteSet(A) /\ IsFiniteSet(B)
  BY <1>1, FS_Subset
<1>3. Cardinality(A) \in Nat /\ (Cardinality(A) = 0 <=> A = {})
  BY <1>2, FS_CardinalityType, FS_EmptySet
<1>4. A \subseteq B => Cardinality(A) <= Cardinality(B)
  BY <1>2, FS_Subset
<1> QED BY <1>3, <1>4

\* Some contact fits in every place.
LEMMA PlaceIsTaken ==
    ASSUME NEW s \in Seq(Nat), NEW i \in 1..Len(s)
    PROVE  \E n \in Range(s) : Below(s, n) < i /\ i <= UpTo(s, n)
<1>0. PICK l \in Nat : l = Len(s) /\ i \in 1..l
  BY LenProperties
<1>1. /\ DOMAIN s = 1..l
      /\ \A k \in 1..l : s[k] \in Nat /\ s[k] \in Range(s)
      /\ Range(s) \in SUBSET Nat /\ IsFiniteSet(Range(s)) /\ Cardinality(1..l) = l
  BY <1>0, SeqIsFinite
<1>2. \A n \in Nat : Below(s, n) \in Nat /\ UpTo(s, n) \in Nat
  BY PlacesCounted DEF Below, UpTo
<1> DEFINE A == {n \in Range(s) : i <= UpTo(s, n)}
<1>3. A # {}
  <2>1. Range(s) # {}
    BY <1>0, <1>1
  <2>2. PICK m \in Range(s) : \A x \in Range(s) : x <= m
    BY <1>1, <2>1, LargestOf
  <2>3. {k \in DOMAIN s : ~Nearer(m, s[k])} = 1..l
    BY <1>1, <2>2 DEF Nearer
  <2>4. UpTo(s, m) = l
    BY <1>1, <2>3 DEF UpTo
  <2> QED BY <1>0, <2>2, <2>4
<1>4. A \in SUBSET Nat
  BY <1>1
<1>5. PICK n \in A : \A x \in A : n <= x
  <2> HIDE DEF A
  <2> QED BY <1>3, <1>4, LeastOf
<1>6. SUFFICES ASSUME ~(Below(s, n) < i) PROVE FALSE
  BY <1>5
<1>7. n \in Nat /\ Below(s, n) \in Nat /\ Below(s, n) >= i /\ Below(s, n) # 0
  <2>1. n \in Nat
    BY <1>4, <1>5
  <2>2. PICK b \in Nat : b = Below(s, n)
    BY <1>2, <2>1
  <2>3. b >= i /\ b # 0
    BY <1>0, <1>6, <2>2
  <2> QED BY <2>1, <2>2, <2>3
<1> DEFINE P == {k \in DOMAIN s : Nearer(s[k], n)}
           B == {x \in Range(s) : x < n}
<1>8. P # {}
  BY <1>7, PlacesCounted DEF Below
<1>9. B # {} /\ B \in SUBSET Nat /\ IsFiniteSet(B)
  <2>1. B # {}
    BY <1>1, <1>8 DEF Nearer
  <2>2. IsFiniteSet(B)
    BY <1>1, FS_Subset
  <2> QED BY <1>1, <2>1, <2>2
<1>10. PICK m \in B : \A x \in B : x <= m
  <2> HIDE DEF B
  <2> QED BY <1>9, LargestOf
<1>11. P \subseteq {k \in DOMAIN s : ~Nearer(m, s[k])}
  <2>1. ASSUME NEW k \in 1..l, s[k] < n PROVE ~(m < s[k])
    <3>1. s[k] \in B
      BY <1>1, <2>1
    <3>2. PICK x \in Nat : x = s[k]
      BY <1>1
    <3>3. m \in Nat /\ x <= m
      BY <1>9, <1>10, <3>1, <3>2
    <3>4. ~(m < x)
      BY <3>3
    <3> QED BY <3>2, <3>4
  <2> QED BY <1>1, <2>1, Zenon DEF Nearer
<1>12. Below(s, n) <= UpTo(s, m)
  <2>1. PICK Q : Q = {k \in DOMAIN s : ~Nearer(m, s[k])}
    OBVIOUS
  <2>2. Q \in SUBSET DOMAIN s /\ P \in SUBSET DOMAIN s /\ P \subseteq Q
    BY <1>11, <2>1
  <2> HIDE DEF P
  <2>3. Cardinality(P) <= Cardinality(Q)
    BY <2>2, PlacesCounted
  <2> QED BY <2>1, <2>3, Zenon DEF Below, UpTo, P
<1>13. m \in A
  <2>1. m \in Range(s) /\ m \in Nat
    BY <1>9, <1>10
  <2>2. PICK u \in Nat : u = UpTo(s, m)
    BY <1>2, <2>1
  <2>3. i <= u
    BY <1>0, <1>7, <1>12, <2>2
  <2> QED BY <2>1, <2>2, <2>3
<1>14. m \in Nat /\ n <= m /\ m < n
  BY <1>5, <1>9, <1>10, <1>13
<1> QED BY <1>7, <1>14

LEMMA PlaceIsOne ==
    ASSUME NEW s \in Seq(Nat), NEW i \in Nat, NEW n \in Range(s), NEW x \in Range(s),
           Below(s, n) < i, i <= UpTo(s, n), Below(s, x) < i, i <= UpTo(s, x)
    PROVE  ~(n < x)
<1>1. /\ DOMAIN s = 1..Len(s) /\ \A k \in DOMAIN s : s[k] \in Nat
      /\ n \in Nat /\ x \in Nat
  BY SeqIsFinite
<1>2. SUFFICES ASSUME n < x PROVE FALSE
  OBVIOUS
<1> DEFINE P == {k \in DOMAIN s : ~Nearer(n, s[k])}
           Q == {k \in DOMAIN s : Nearer(s[k], x)}
<1>3. P \subseteq Q
  <2>1. ASSUME NEW k \in DOMAIN s, ~(n < s[k]) PROVE s[k] < x
    <3>1. PICK v \in Nat : v = s[k]
      BY <1>1
    <3>2. v < x
      BY <1>1, <1>2, <2>1, <3>1
    <3> QED BY <3>1, <3>2
  <2> QED BY <2>1, Zenon DEF Nearer
<1>4. P \in SUBSET DOMAIN s /\ Q \in SUBSET DOMAIN s
  OBVIOUS
<1>5. UpTo(s, n) = Cardinality(P) /\ Below(s, x) = Cardinality(Q)
  BY Zenon DEF UpTo, Below
<1> HIDE DEF P, Q
<1>6. Cardinality(P) \in Nat /\ Cardinality(Q) \in Nat
  BY <1>4, PlacesCounted
<1>7. Cardinality(P) <= Cardinality(Q)
  BY <1>3, <1>4, PlacesCounted
<1> QED BY <1>5, <1>6, <1>7

\* What Closest returns: contacts of the list, at most so many, the nearest one
\* first; and all of them when they fit.
LEMMA ClosestProperties ==
    ASSUME NEW s \in Seq(Nat), NEW count \in Nat
    PROVE  /\ Closest(s, count) \in Seq(Range(s))
           /\ Len(Closest(s, count)) = IF Len(s) < count THEN Len(s) ELSE count
           /\ s # << >> /\ count # 0 =>
                 /\ Closest(s, count) # << >>
                 /\ Closest(s, count)[1] = Min(Range(s))
           /\ Len(s) <= count =>
                 \A x \in Range(s) : \E i \in 1..Len(s) : Closest(s, count)[i] = x
<1>0. PICK l \in Nat : l = Len(s) /\ DOMAIN s = 1..l
  BY LenProperties
<1>1. PICK c \in Nat : c = (IF Len(s) < count THEN Len(s) ELSE count)
                       /\ c <= l /\ (l # 0 /\ count # 0 => c # 0)
                       /\ (l <= count => c = l)
  BY <1>0
<1>2. PICK r : r = Closest(s, count)
  OBVIOUS
<1> DEFINE Fits(i, n) == Below(s, n) < i /\ i <= UpTo(s, n)
<1>3. r = [i \in 1..c |-> CHOOSE n \in Range(s) : Fits(i, n)]
  BY <1>1, <1>2, Zenon DEF Closest, Below, UpTo
<1>4. ASSUME NEW i \in 1..c
      PROVE  r[i] \in Range(s) /\ Fits(i, r[i])
  <2>1. i \in 1..Len(s)
    BY <1>0, <1>1
  <2>2. \E n \in Range(s) : Fits(i, n)
    BY <2>1, PlaceIsTaken
  <2>3. r[i] = CHOOSE n \in Range(s) : Fits(i, n)
    BY <1>3, Zenon
  <2> HIDE DEF Fits
  <2> QED BY <2>2, <2>3
<1>5. r \in Seq(Range(s)) /\ Len(r) = c /\ DOMAIN r = 1..c
  <2>1. r \in [1..c -> Range(s)]
    BY <1>3, <1>4
  <2>2. r \in Seq(Range(s))
    BY <2>1, SeqDef
  <2> QED BY <2>1, <2>2, LenProperties
<1>6. /\ Range(s) \in SUBSET Nat /\ IsFiniteSet(Range(s))
      /\ \A k \in 1..l : s[k] \in Nat /\ s[k] \in Range(s)
      /\ Cardinality(1..l) = l
  BY <1>0, SeqIsFinite
<1>7. ASSUME s # << >>, count # 0
      PROVE  r # << >> /\ r[1] = Min(Range(s))
  <2>1. l # 0 /\ 1 \in 1..c
    BY <1>0, <1>1, <1>7, EmptySeq
  <2>2. r[1] \in Range(s) /\ Below(s, r[1]) < 1
    BY <1>4, <2>1
  <2>3. PICK n \in Range(s) : n = r[1]
    BY <2>2
  <2>4. PICK P \in SUBSET DOMAIN s : P = {k \in DOMAIN s : Nearer(s[k], n)}
    OBVIOUS
  <2>5. Cardinality(P) = Below(s, n)
    BY <2>4 DEF Below
  <2>6. Cardinality(P) \in Nat /\ Cardinality(P) < 1
    BY <2>2, <2>3, <2>5, PlacesCounted
  <2>7. P = {}
    BY <2>6, PlacesCounted
  <2>8. \A x \in Range(s) : ~(x < n)
    BY <2>4, <2>7 DEF Range, Nearer
  <2>9. Range(s) # {} /\ Min(Range(s)) \in Range(s) /\ \A x \in Range(s) : Min(Range(s)) <= x
    BY <1>6, <2>3, LeastOf
  <2>10. PICK m \in Nat : m = Min(Range(s))
    BY <1>6, <2>9
  <2>11. n \in Nat /\ ~(m < n) /\ m <= n
    BY <1>6, <2>3, <2>8, <2>9, <2>10
  <2>12. m = n
    BY <2>11
  <2>13. r # << >>
    BY <1>5, <2>1, EmptySeq
  <2> QED BY <2>3, <2>10, <2>12, <2>13
<1>8. ASSUME Len(s) <= count, NEW x \in Range(s)
      PROVE  \E i \in 1..Len(s) : r[i] = x
  <2>1. c = l /\ x \in Nat
    BY <1>0, <1>1, <1>6, <1>8
  <2>2. PICK k \in 1..l : s[k] = x
    BY <1>0 DEF Range
  <2>3. PICK P \in SUBSET DOMAIN s : P = {j \in DOMAIN s : Nearer(s[j], x)}
    OBVIOUS
  <2>4. PICK Q \in SUBSET DOMAIN s : Q = {j \in DOMAIN s : ~Nearer(x, s[j])}
    OBVIOUS
  <2>5. k \in DOMAIN s /\ k \notin P /\ k \in Q
    BY <1>0, <2>1, <2>2, <2>3, <2>4 DEF Nearer
  <2>6. P \cup {k} \subseteq Q
    <3>1. ASSUME NEW j \in DOMAIN s, s[j] < x PROVE ~(x < s[j])
      <4>1. PICK v \in Nat : v = s[j]
        BY <1>0, <1>6
      <4>2. ~(x < v)
        BY <2>1, <3>1, <4>1
      <4> QED BY <4>1, <4>2
    <3> QED BY <2>3, <2>4, <2>5, <3>1 DEF Nearer
  <2>7. IsFiniteSet(DOMAIN s)
    BY SeqIsFinite
  <2>8. IsFiniteSet(P) /\ IsFiniteSet(Q) /\ Cardinality(Q) <= Cardinality(1..l)
    BY <1>0, <2>7, FS_Subset
  <2>9. Cardinality(P \cup {k}) = Cardinality(P) + 1 /\ Cardinality(P) \in Nat
    BY <2>5, <2>8, FS_AddElement, FS_CardinalityType
  <2>10. Cardinality(P \cup {k}) <= Cardinality(Q) /\ Cardinality(Q) \in Nat
    BY <2>6, <2>8, FS_Subset, FS_CardinalityType
  <2>11. PICK i \in Nat : i = Cardinality(P) + 1
    BY <2>9
  <2>12. i \in 1..l
    BY <1>6, <2>8, <2>9, <2>10, <2>11
  <2>13. Below(s, x) = Cardinality(P) /\ UpTo(s, x) = Cardinality(Q)
    BY <2>3, <2>4 DEF Below, UpTo
  <2>14. Below(s, x) < i /\ i <= UpTo(s, x)
    BY <2>9, <2>10, <2>11, <2>13
  <2>15. r[i] \in Range(s) /\ Below(s, r[i]) < i /\ i <= UpTo(s, r[i])
    BY <1>4, <2>1, <2>12
  <2>16. ~(r[i] < x) /\ ~(x < r[i])
    BY <2>12, <2>14, <2>15, PlaceIsOne
  <2>17. PICK v \in Nat : v = r[i]
    BY <1>6, <2>15
  <2>18. v = x
    BY <2>1, <2>16, <2>17
  <2> QED BY <1>0, <2>12, <2>17, <2>18
<1> QED BY <1>1, <1>2, <1>5, <1>7, <1>8

-----------------------------------------------------------------------------
(* Lists of contacts *)

\* SetToSeq lists the elements of a finite set, each once.
LEMMA ListOfSet ==
    ASSUME NEW S, IsFiniteSet(S)
    PROVE  /\ SetToSeq(S) \in Seq(S)
           /\ Len(SetToSeq(S)) = Cardinality(S)
           /\ Range(SetToSeq(S)) = S
<1>1. PICK c \in Nat : c = Cardinality(S) /\ ExistsBijection(1..c, S)
  BY FS_CardinalityType
<1>2. PICK b \in Bijection(1..c, S) : TRUE
  BY <1>1 DEF ExistsBijection
<1>3. b \in [1..c -> S] /\ IsInjective(b)
  BY <1>2 DEF Bijection, Injection
<1>4. PICK r : r = SetToSeq(S)
  OBVIOUS
<1>5. r \in [1..c -> S] /\ IsInjective(r)
  <2>1. r = CHOOSE f \in [1..c -> S] : IsInjective(f)
    BY <1>1, <1>4 DEF SetToSeq
  <2> QED BY <1>3, <2>1
<1>6. r \in Seq(S) /\ Len(r) = c /\ DOMAIN r = 1..c
  BY <1>5, SeqDef, LenProperties
<1>7. r \in Injection(1..c, S)
  BY <1>5 DEF Injection
<1>8. Cardinality(1..c) = c
  BY FS_Interval
<1>9. r \in Surjection(1..c, S)
  BY <1>1, <1>7, <1>8, FS_Injection
<1>10. Range(r) = S
  BY <1>5, <1>9 DEF Range, Surjection
<1> QED BY <1>1, <1>4, <1>6, <1>10

\* Without leaves out the elements of a set and nothing else; an element at
\* the head stays there.
LEMMA WithoutProperties ==
    ASSUME NEW s \in Seq(Nat), NEW out
    PROVE  /\ Without(s, out) \in Seq(Range(s) \ out)
           /\ Range(Without(s, out)) = Range(s) \ out
           /\ s # << >> /\ s[1] \notin out =>
                 Without(s, out) # << >> /\ Without(s, out)[1] = s[1]
<1>1. PICK l \in Nat : l = Len(s) /\ DOMAIN s = 1..l
  BY LenProperties
<1>2. PICK P : P = {k \in DOMAIN s : s[k] \notin out}
  OBVIOUS
<1>3. P \in SUBSET (1..l) /\ P \in SUBSET Nat
  BY <1>1, <1>2
<1>4. IsFiniteSet(P) /\ Cardinality(P) <= l
  <2>1. IsFiniteSet(1..l) /\ Cardinality(1..l) = l
    BY <1>1, SeqIsFinite
  <2>2. PICK D : D = 1..l
    OBVIOUS
  <2> QED BY <1>3, <2>1, <2>2, FS_Subset
<1>5. PICK q : q = SetToSeq(P)
  OBVIOUS
<1>6. q \in Seq(P) /\ Len(q) = Cardinality(P) /\ Range(q) = P
  BY <1>4, <1>5, ListOfSet
<1>7. q \in Seq(Nat) /\ Len(q) \in Nat /\ Len(q) <= l /\ DOMAIN q = 1..Len(q)
  <2>1. q \in Seq(Nat)
    <3>1. q \in [1..Len(q) -> P] /\ Len(q) \in Nat
      BY <1>6, LenProperties
    <3>2. q \in [1..Len(q) -> Nat]
      BY <1>3, <3>1
    <3> QED BY <3>1, <3>2, SeqDef
  <2> QED BY <1>4, <1>6, <2>1, LenProperties
<1>8. PICK at : at = Closest(q, l)
  OBVIOUS
<1>9. /\ at \in Seq(P) /\ Len(at) = Len(q)
      /\ q # << >> /\ l # 0 => at[1] = Min(P)
      /\ \A x \in P : \E i \in 1..Len(q) : at[i] = x
  <2>1. at \in Seq(Range(q)) /\ Len(at) = IF Len(q) < l THEN Len(q) ELSE l
    BY <1>7, <1>8, ClosestProperties
  <2>2. q # << >> /\ l # 0 => at[1] = Min(Range(q))
    BY <1>7, <1>8, ClosestProperties
  <2>3. \A x \in Range(q) : \E i \in 1..Len(q) : at[i] = x
    BY <1>7, <1>8, ClosestProperties
  <2> QED BY <1>6, <1>7, <2>1, <2>2, <2>3
<1>10. at \in [1..Len(q) -> P]
  BY <1>9, LenProperties
<1>11. PICK w : w = Without(s, out)
  OBVIOUS
<1>12. w = [i \in 1..Len(q) |-> s[at[i]]]
  <2>1. DOMAIN at = 1..Len(q)
    BY <1>10
  <2>2. w = [i \in DOMAIN at |-> s[at[i]]]
    BY <1>1, <1>2, <1>5, <1>8, <1>11 DEF Without
  <2> QED BY <2>1, <2>2
<1>13. \A i \in 1..Len(q) : w[i] \in Range(s) \ out
  BY <1>2, <1>10, <1>12 DEF Range
<1>14. w \in [1..Len(q) -> Range(s) \ out]
  BY <1>12, <1>13
<1>15. w \in Seq(Range(s) \ out) /\ Len(w) = Len(q) /\ DOMAIN w = 1..Len(q)
  BY <1>7, <1>14, SeqDef, LenProperties
<1>16. Range(w) = Range(s) \ out
  <2>1. ASSUME NEW x \in Range(s) \ out PROVE x \in Range(w)
    <3>1. PICK k \in P : s[k] = x
      BY <1>2 DEF Range
    <3>2. PICK i \in 1..Len(q) : at[i] = k
      BY <1>9, <3>1
    <3> QED BY <1>12, <1>15, <3>1, <3>2 DEF Range
  <2> QED BY <1>13, <1>15, <2>1 DEF Range
<1>17. ASSUME s # << >>, s[1] \notin out
       PROVE  w # << >> /\ w[1] = s[1]
  <2>1. l # 0 /\ 1 \in DOMAIN s
    BY <1>1, <1>17, EmptySeq
  <2>2. 1 \in P
    BY <1>2, <1>17, <2>1
  <2>3. q # << >> /\ 1 \in 1..Len(q)
    <3>1. PICK i \in 1..Len(q) : at[i] = 1
      BY <1>9, <2>2
    <3>2. Len(q) # 0
      BY <1>7, <3>1
    <3>3. 1 \in 1..Len(q)
      BY <1>7, <3>2
    <3> QED BY <1>7, <3>2, <3>3, EmptySeq
  <2>4. Min(P) \in P /\ Min(P) <= 1
    BY <1>3, <2>2, LeastOf
  <2>5. PICK m \in 1..l : m = Min(P)
    BY <1>3, <2>4
  <2>6. m = 1
    BY <2>4, <2>5
  <2>7. at[1] = 1
    BY <1>9, <2>1, <2>3, <2>5, <2>6
  <2>8. Len(w) # 0
    BY <1>15, <2>3
  <2> QED BY <1>12, <1>15, <2>3, <2>7, <2>8, EmptySeq
<1> QED BY <1>11, <1>15, <1>16, <1>17

\* FindClosest: at most so many contacts, the nearest first.
LEMMA FindClosestProperties ==
    ASSUME NEW S \in SUBSET Nat, IsFiniteSet(S), NEW count \in Nat
    PROVE  /\ FindClosest(S, count) \in Seq(S)
           /\ Len(FindClosest(S, count)) <= count
           /\ S # {} /\ count # 0 =>
                 FindClosest(S, count) # << >> /\ FindClosest(S, count)[1] = Min(S)
<1>1. PICK q : q = SetToSeq(S)
  OBVIOUS
<1>2. q \in Seq(S) /\ Range(q) = S
  BY <1>1, ListOfSet
<1>3. q \in Seq(Nat) /\ Len(q) \in Nat
  <2>1. q \in [1..Len(q) -> S] /\ Len(q) \in Nat
    BY <1>2, LenProperties
  <2>2. q \in [1..Len(q) -> Nat]
    BY <2>1
  <2> QED BY <2>1, <2>2, SeqDef
<1>4. FindClosest(S, count) = Closest(q, count)
  BY <1>1 DEF FindClosest
<1>5. S # {} => q # << >>
  <2>1. ASSUME q = << >> PROVE Range(q) = {}
    BY <2>1 DEF Range
  <2> QED BY <1>2, <2>1
<1>6. /\ Closest(q, count) \in Seq(S)
      /\ Len(Closest(q, count)) = IF Len(q) < count THEN Len(q) ELSE count
      /\ q # << >> /\ count # 0 =>
            Closest(q, count) # << >> /\ Closest(q, count)[1] = Min(S)
  BY <1>2, <1>3, ClosestProperties
<1> QED BY <1>3, <1>4, <1>5, <1>6

\* The first of a list, at most n of them.
LEMMA FirstOfProperties ==
    ASSUME NEW S, NEW s \in Seq(S), NEW n \in Nat
    PROVE  /\ FirstOf(s, n) \in Seq(S)
           /\ Len(FirstOf(s, n)) <= n
           /\ Range(FirstOf(s, n)) \subseteq Range(s)
           /\ s # << >> /\ n # 0 => s[1] \in Range(FirstOf(s, n))
<1>1. PICK l \in Nat : l = Len(s) /\ DOMAIN s = 1..l
  BY LenProperties
<1>2. PICK c \in Nat : c = (IF l < n THEN l ELSE n) /\ c <= l /\ c <= n
                       /\ (l # 0 /\ n # 0 => c # 0)
  OBVIOUS
<1>3. PICK f : f = FirstOf(s, n)
  OBVIOUS
<1>4. f = SubSeq(s, 1, c)
  BY <1>1, <1>2, <1>3 DEF FirstOf
<1>5. \A i \in 1..c : s[i] \in S /\ s[i] \in Range(s)
  <2>1. \A i \in 1..c : i \in 1..l
    BY <1>2
  <2> QED BY <1>1, <2>1, SeqIsFinite
<1>6. /\ f \in Seq(S)
      /\ Len(f) = IF 1 <= c THEN c - 1 + 1 ELSE 0
      /\ \A i \in 1..(c - 1 + 1) : f[i] = s[1 + i - 1]
  BY <1>4, <1>5, SubSeqProperties
<1>7. Len(f) = c /\ DOMAIN f = 1..c
  BY <1>6, LenProperties
<1>8. \A i \in 1..c : f[i] = s[i]
  <2>1. \A i \in 1..c : i \in 1..(c - 1 + 1) /\ 1 + i - 1 = i
    OBVIOUS
  <2> QED BY <1>6, <2>1
<1>9. Range(f) \subseteq Range(s)
  BY <1>5, <1>7, <1>8 DEF Range
<1>10. ASSUME s # << >>, n # 0 PROVE s[1] \in Range(f)
  <2>1. l # 0
    BY <1>1, <1>10, EmptySeq
  <2>2. 1 \in 1..c
    BY <1>2, <1>10, <2>1
  <2> QED BY <1>7, <1>8, <2>2 DEF Range
<1> QED BY <1>2, <1>3, <1>6, <1>7, <1>9, <1>10

LEMMA SeqGrows ==
    ASSUME NEW S, NEW T, S \subseteq T, NEW s \in Seq(S)
    PROVE  s \in Seq(T)
<1>1. s \in [1..Len(s) -> S] /\ Len(s) \in Nat
  BY LenProperties
<1>2. s \in [1..Len(s) -> T]
  BY <1>1
<1> QED BY <1>1, <1>2, SeqDef

\* The contacts of two lists put together.
LEMMA RangeOfBoth ==
    ASSUME NEW S, NEW s \in Seq(S), NEW t \in Seq(S)
    PROVE  s \o t \in Seq(S) /\ Range(s \o t) = Range(s) \cup Range(t)
<1>1. PICK u : u = s \o t
  OBVIOUS
<1>2. PICK m \in Nat : m = Len(s) /\ DOMAIN s = 1..m
  BY LenProperties
<1>3. PICK n \in Nat : n = Len(t) /\ DOMAIN t = 1..n
  BY LenProperties
<1>4. /\ u \in Seq(S) /\ Len(u) = m + n
      /\ \A i \in 1..(m + n) : u[i] = IF i <= m THEN s[i] ELSE t[i - m]
  BY <1>1, <1>2, <1>3, ConcatProperties
<1>5. DOMAIN u = 1..(m + n)
  BY <1>4, LenProperties
<1>6. ASSUME NEW i \in 1..(m + n) PROVE u[i] \in Range(s) \cup Range(t)
  <2>1. CASE i <= m
    <3>1. i \in 1..m /\ u[i] = s[i]
      BY <1>4, <2>1
    <3> QED BY <1>2, <3>1 DEF Range
  <2>2. CASE ~(i <= m)
    <3>1. i - m \in 1..n /\ u[i] = t[i - m]
      BY <1>4, <2>2
    <3> QED BY <1>3, <3>1 DEF Range
  <2> QED BY <2>1, <2>2
<1>7. ASSUME NEW i \in 1..m PROVE s[i] \in Range(u)
  <2>1. i \in 1..(m + n) /\ u[i] = s[i]
    BY <1>4
  <2> QED BY <1>5, <2>1 DEF Range
<1>8. ASSUME NEW i \in 1..n PROVE t[i] \in Range(u)
  <2>1. PICK j \in 1..(m + n) : j = i + m /\ ~(j <= m) /\ j - m = i
    OBVIOUS
  <2>2. u[j] = t[i]
    BY <1>4, <2>1
  <2> QED BY <1>5, <2>2 DEF Range
<1>9. Range(u) = Range(s) \cup Range(t)
  BY <1>2, <1>3, <1>5, <1>6, <1>7, <1>8 DEF Range
<1> QED BY <1>1, <1>4, <1>9

\* What a queue has after a send and after a receive.
LEMMA QueueRange ==
    ASSUME NEW S, NEW s \in Seq(S)
    PROVE  /\ \A r \in S : Range(Append(s, r)) = Range(s) \cup {r}
           /\ s # <<>> => Range(s) = {Head(s)} \cup Range(Tail(s))
<1>1. PICK l \in Nat : l = Len(s) /\ DOMAIN s = 1..l
  BY LenProperties
<1>2. ASSUME NEW r \in S PROVE Range(Append(s, r)) = Range(s) \cup {r}
  <2>1. PICK a : a = Append(s, r)
    OBVIOUS
  <2>2. /\ a \in Seq(S) /\ Len(a) = l + 1
        /\ \A i \in 1..l : a[i] = s[i]
        /\ a[l + 1] = r
    BY <1>1, <2>1, AppendProperties
  <2>3. DOMAIN a = 1..(l + 1)
    BY <2>2, LenProperties
  <2>4. 1..(l + 1) = 1..l \cup {l + 1}
    OBVIOUS
  <2> QED BY <1>1, <2>1, <2>2, <2>3, <2>4 DEF Range
<1>3. ASSUME s # <<>> PROVE Range(s) = {Head(s)} \cup Range(Tail(s))
  <2>1. PICK t : t = Tail(s)
    OBVIOUS
  <2>2. l # 0 /\ Head(s) = s[1]
    BY <1>1, <1>3, EmptySeq
  <2>3. PICK m \in Nat : l = m + 1
    <3>1. l - 1 \in Nat /\ l = (l - 1) + 1
      BY <2>2
    <3> QED BY <3>1
  <2>4. t \in Seq(S) /\ Len(t) = m /\ \A i \in 1..m : t[i] = s[i + 1]
    <3>1. /\ t \in Seq(S) /\ Len(t) = l - 1
          /\ \A i \in 1..Len(t) : t[i] = s[i + 1]
      BY <1>1, <1>3, <2>1, HeadTailProperties
    <3>2. l - 1 = m
      BY <2>3
    <3> QED BY <3>1, <3>2
  <2>5. DOMAIN t = 1..m
    BY <2>4, LenProperties
  <2>6. \A i \in 1..m : i + 1 \in 1..l
    BY <2>3
  <2>7. \A k \in 1..l : k = 1 \/ \E i \in 1..m : k = i + 1
    <3>1. ASSUME NEW k \in 1..l, k # 1 PROVE k - 1 \in 1..m /\ k = (k - 1) + 1
      BY <2>3, <3>1
    <3> QED BY <3>1
  <2>8. 1 \in 1..l
    BY <2>2
  <2>9. ASSUME NEW k \in 1..l PROVE s[k] \in {s[1]} \cup Range(t)
    <3>1. CASE k = 1
      BY <3>1
    <3>2. ASSUME NEW i \in 1..m, k = i + 1 PROVE s[k] \in Range(t)
      BY <2>4, <2>5, <3>2 DEF Range
    <3> QED BY <2>7, <3>1, <3>2
  <2>10. ASSUME NEW i \in 1..m PROVE t[i] \in Range(s)
    BY <1>1, <2>4, <2>6 DEF Range
  <2>11. s[1] \in Range(s)
    BY <1>1, <2>8 DEF Range
  <2>12. Range(s) = {s[1]} \cup Range(t)
    BY <1>1, <2>5, <2>9, <2>10, <2>11 DEF Range
  <2> QED BY <2>1, <2>2, <2>12
<1> QED BY <1>2, <1>3

\* The least of a set is the least of any part of it that has it.
LEMMA LeastOfPart ==
    ASSUME NEW S \in SUBSET Nat, NEW T \in SUBSET S, S # {}, Min(S) \in T
    PROVE  Min(T) = Min(S)
<1>1. T # {} /\ T \in SUBSET Nat
  OBVIOUS
<1>2. Min(T) \in T /\ (\A x \in T : Min(T) <= x) /\ \A x \in S : Min(S) <= x
  BY <1>1, LeastOf
<1>3. Min(T) \in Nat /\ Min(S) \in Nat /\ Min(T) <= Min(S) /\ Min(S) <= Min(T)
  BY <1>1, <1>2
<1>4. PICK a \in Nat, b \in Nat : a = Min(T) /\ b = Min(S)
  BY <1>3
<1> QED BY <1>3, <1>4

-----------------------------------------------------------------------------
(* Types *)

LEMMA ConstantTypes ==
    /\ Node \subseteq Nat /\ Self \in Node
    /\ K \in Nat /\ K # 0 /\ Alpha \in Nat /\ Alpha # 0
    /\ \A S \in SUBSET Node : IsFiniteSet(S)
<1>1. N \in Nat /\ IsFiniteSet(1..N)
  BY LookupAssumption, FS_Interval
<1>2. PICK D : D = 1..N
  OBVIOUS
<1>3. \A S \in SUBSET D : IsFiniteSet(S)
  BY <1>1, <1>2, FS_Subset
<1> QED BY <1>1, <1>2, <1>3, LookupAssumption DEF Node

\* What is still as Init left it before the operation starts, and what of the
\* outcome, the STOREs and the results the types do not say.
Stages ==
    /\ collected \in Nat
    /\ phase = "start" =>
          /\ table \in Topologies
          /\ result = <<>> /\ queried = {} /\ learned = {} /\ answer = <<>>
          /\ asking = {} /\ storing = {} /\ outcome = "running"
    /\ phase \in {"pick", "collect"} => outcome = "running"
    /\ storing # {} => op = "store"
    /\ outcome = "missing" => op = "findValue"
    /\ \A r \in Range(chan) : r.value => op = "findValue"

TypeInv == TypeOK /\ Stages

\* What the end of a lookup makes of its result.
LEMMA FinishResult ==
    ASSUME TypeOK, Finish(result)
    PROVE  /\ answer' \in Seq(Node \ {Self}) /\ Len(answer') <= K
           /\ storing' \subseteq Node /\ (storing' # {} => op = "store")
           /\ phase' \in {"storing", "done"}
           /\ Range(result) # {} => answer' # <<>> /\ answer'[1] = Min(Range(result))
<1>1. PICK R : R = Range(result)
  OBVIOUS
<1>2. R \subseteq Node \ {Self} /\ R \in SUBSET Nat /\ IsFiniteSet(R)
  <2>1. result \in Seq(Node \ {Self})
    BY DEF TypeOK
  <2>2. R \subseteq Node \ {Self} /\ IsFiniteSet(R)
    BY <1>1, <2>1, SeqIsFinite
  <2> QED BY <2>2, ConstantTypes
<1>3. PICK f : f = FindClosest(R, K)
  OBVIOUS
<1>4. /\ f \in Seq(R) /\ Len(f) <= K
      /\ R # {} => f # <<>> /\ f[1] = Min(R)
  BY <1>2, <1>3, ConstantTypes, FindClosestProperties
<1>5. /\ answer' = f
      /\ storing' = IF op = "store" THEN Range(f) ELSE {}
      /\ phase' = IF op = "store" THEN "storing" ELSE "done"
  BY <1>1, <1>3 DEF Finish
<1>6. f \in Seq(Node \ {Self})
  BY <1>2, <1>4, SeqGrows
<1>7. Range(f) \subseteq Node
  BY <1>6, SeqIsFinite
<1> QED BY <1>1, <1>4, <1>5, <1>6, <1>7

\* The message a node that is asked returns.
LEMMA ReplyType ==
    ASSUME NEW n, NEW contacts \in SUBSET Node, NEW value \in BOOLEAN
    PROVE  /\ HandleMessage(n, contacts, value) \in Reply
           /\ value /\ n \in store => HandleMessage(n, contacts, value).value
           /\ HandleMessage(n, contacts, value).value => value
<1>1. PICK f : f = FindClosest(contacts, K)
  OBVIOUS
<1>2. contacts \in SUBSET Nat /\ IsFiniteSet(contacts)
  BY ConstantTypes
<1>3. f \in Seq(contacts)
  BY <1>1, <1>2, ConstantTypes, FindClosestProperties
<1>4. f \in Seq(Node)
  BY <1>3, SeqGrows
<1> QED BY <1>1, <1>4, EmptySeq DEF HandleMessage, Reply

LEMMA TablesStay ==
    ASSUME table \in [Node -> SUBSET Node], NEW n \in Node,
           NEW contacts \in AddNode(table[n], Self)
    PROVE  contacts \in SUBSET Node /\ [table EXCEPT ![n] = contacts] \in [Node -> SUBSET Node]
<1>1. contacts \in SUBSET Node
  BY ConstantTypes DEF AddNode
<1> QED BY <1>1

LEMMA TypeInit == Init => TypeInv
<1> SUFFICES ASSUME Init PROVE TypeInv
  OBVIOUS
<1>1. table \in [Node -> SUBSET Node] /\ store \subseteq Node
  BY LookupAssumption DEF Init
<1>2. << >> \in Seq(Node \ {Self}) /\ << >> \in Seq(Reply) /\ Len(<< >>) = 0
  BY EmptySeq
<1>3. Cardinality({}) = 0
  BY FS_EmptySet
<1>4. Len(toQuery) <= Alpha /\ Len(answer) <= K
      /\ collected + Len(chan) + Cardinality(asking) <= Len(toQuery)
  BY <1>2, <1>3, ConstantTypes DEF Init
<1>5. /\ result \in Seq(Node \ {Self}) /\ toQuery \in Seq(Node \ {Self})
      /\ answer \in Seq(Node \ {Self}) /\ chan \in Seq(Reply)
  BY <1>2 DEF Init
<1>6. TypeOK
  BY <1>1, <1>4, <1>5 DEF Init, TypeOK
<1>7. Stages
  <2>1. Range(<<>>) = {}
    BY DEF Range
  <2> QED BY <2>1 DEF Init, Stages
<1> QED BY <1>6, <1>7 DEF TypeInv

\* The counts of a round are numbers.
LEMMA RoundCounts ==
    ASSUME TypeInv
    PROVE  /\ Len(toQuery) \in Nat /\ Len(chan) \in Nat /\ collected \in Nat
           /\ IsFiniteSet(asking) /\ Cardinality(asking) \in Nat
           /\ \A i \in asking : toQuery[i] \in Node \ {Self}
<1>1. toQuery \in Seq(Node \ {Self}) /\ chan \in Seq(Reply) /\ asking \subseteq 1..Len(toQuery)
      /\ collected \in Nat
  BY DEF TypeInv, TypeOK, Stages
<1>2. Len(chan) \in Nat
  BY <1>1, LenProperties
<1>3. /\ Len(toQuery) \in Nat /\ IsFiniteSet(1..Len(toQuery))
      /\ \A k \in 1..Len(toQuery) : toQuery[k] \in Node \ {Self}
  BY <1>1, SeqIsFinite
<1>4. PICK D : D = 1..Len(toQuery)
  OBVIOUS
<1>5. IsFiniteSet(asking)
  BY <1>1, <1>3, <1>4, FS_Subset
<1>6. Cardinality(asking) \in Nat
  BY <1>5, FS_CardinalityType
<1> QED BY <1>1, <1>2, <1>3, <1>5, <1>6

\* A goroutine hands its result to the channel: the round counts the same.
LEMMA ResultSent ==
    ASSUME TypeInv, NEW i \in asking, NEW r \in Reply,
           chan' = Append(chan, r), asking' = asking \ {i},
           UNCHANGED <<toQuery, collected>>
    PROVE  /\ chan' \in Seq(Reply) /\ asking' \subseteq 1..Len(toQuery')
           /\ collected' + Len(chan') + Cardinality(asking') <= Len(toQuery')
<1>1. chan \in Seq(Reply) /\ asking \subseteq 1..Len(toQuery)
      /\ collected + Len(chan) + Cardinality(asking) <= Len(toQuery)
  BY DEF TypeInv, TypeOK
<1>2. chan' \in Seq(Reply) /\ Len(chan') = Len(chan) + 1
  BY <1>1, AppendProperties
<1>3. Cardinality(asking') = Cardinality(asking) - 1
  BY RoundCounts, FS_RemoveElement
<1>4. collected + (Len(chan) + 1) + (Cardinality(asking) - 1) <= Len(toQuery)
  BY <1>1, RoundCounts
<1> QED BY <1>1, <1>2, <1>3, <1>4

\* The first list of a lookup.
LEMMA StartResult ==
    ASSUME TypeInv, phase = "start", table[Self] # {}
    PROVE  /\ FindClosest(table[Self], Alpha) \in Seq(Node \ {Self})
           /\ Range(FindClosest(table[Self], Alpha)) \subseteq Node \ {Self}
           /\ FindClosest(table[Self], Alpha) # <<>>
           /\ FindClosest(table[Self], Alpha)[1] = Min(Range(FindClosest(table[Self], Alpha)))
<1>1. PICK T : T = table[Self]
  OBVIOUS
<1>2. T \in SUBSET Node /\ Self \notin T /\ T # {}
  BY <1>1, ConstantTypes, LookupAssumption DEF TypeInv, TypeOK, Stages
<1>3. T \in SUBSET Nat /\ IsFiniteSet(T)
  BY <1>2, ConstantTypes
<1>4. PICK f : f = FindClosest(T, Alpha)
  OBVIOUS
<1>5. f \in Seq(T) /\ f # <<>> /\ f[1] = Min(T)
  BY <1>2, <1>3, <1>4, ConstantTypes, FindClosestProperties
<1>6. Range(f) \subseteq T /\ f[1] \in Range(f)
  <2>1. Len(f) \in Nat /\ Len(f) # 0
    BY <1>5, EmptySeq, LenProperties
  <2>2. 1 \in 1..Len(f)
    BY <2>1
  <2> QED BY <1>5, <2>2, SeqIsFinite
<1>7. Min(Range(f)) = Min(T)
  BY <1>2, <1>3, <1>5, <1>6, LeastOfPart
<1>8. T \subseteq Node \ {Self}
  BY <1>2
<1>9. f \in Seq(Node \ {Self})
  BY <1>5, <1>8, SeqGrows
<1> QED BY <1>1, <1>4, <1>5, <1>6, <1>7, <1>8, <1>9

\* The contacts a round still has to ask, and those it asks.
LEMMA PickResult ==
    ASSUME TypeOK
    PROVE  /\ PickQueries(Unqueried) \in Seq(Node \ {Self})
           /\ Len(PickQueries(Unqueried)) <= Alpha
           /\ Range(PickQueries(Unqueried)) \subseteq Range(result) \ queried
           /\ Range(Unqueried) = Range(result) \ queried
           /\ result # <<>> /\ result[1] \notin queried
                 => result[1] \in Range(PickQueries(Unqueried))
           /\ Unqueried # <<>> => Range(PickQueries(Unqueried)) # {}
<1>1. result \in Seq(Node \ {Self})
  BY DEF TypeOK
<1>2. result \in Seq(Nat) /\ Range(result) \subseteq Node \ {Self}
  <2>1. Node \ {Self} \subseteq Nat
    BY ConstantTypes
  <2> QED BY <1>1, <2>1, SeqGrows, SeqIsFinite
<1>3. PICK u : u = Unqueried
  OBVIOUS
<1>4. /\ u \in Seq(Range(result) \ queried) /\ Range(u) = Range(result) \ queried
      /\ result # << >> /\ result[1] \notin queried => u # << >> /\ u[1] = result[1]
  BY <1>2, <1>3, WithoutProperties DEF Unqueried
<1>5. PICK q : q = PickQueries(u)
  OBVIOUS
<1>6. /\ q \in Seq(Range(result) \ queried) /\ Len(q) <= Alpha /\ Range(q) \subseteq Range(u)
      /\ u # << >> => u[1] \in Range(q)
  BY <1>4, <1>5, ConstantTypes, FirstOfProperties DEF PickQueries
<1>7. Range(result) \ queried \subseteq Node \ {Self}
  BY <1>2
<1>8. q \in Seq(Node \ {Self})
  BY <1>6, <1>7, SeqGrows
<1> QED BY <1>3, <1>4, <1>5, <1>6, <1>8

\* The contacts of a reply that are put to the result.
LEMMA FreshResult ==
    ASSUME TypeOK, NEW nodes \in Seq(Node)
    PROVE  /\ Fresh(nodes) \in Seq(Node \ {Self})
           /\ Range(Fresh(nodes)) = Range(nodes) \ (queried \cup {Self})
           /\ Range(nodes) \subseteq Node
           /\ result \o Fresh(nodes) \in Seq(Node \ {Self})
           /\ Range(result \o Fresh(nodes)) = Range(result) \cup Range(Fresh(nodes))
           /\ Fresh(nodes) = <<>> => Range(Fresh(nodes)) = {}
<1>1. nodes \in Seq(Nat) /\ Range(nodes) \subseteq Node
  BY ConstantTypes, SeqGrows, SeqIsFinite
<1>2. PICK f : f = Fresh(nodes)
  OBVIOUS
<1>3. /\ f \in Seq(Range(nodes) \ (queried \cup {Self}))
      /\ Range(f) = Range(nodes) \ (queried \cup {Self})
  BY <1>1, <1>2, WithoutProperties DEF Fresh
<1>4. Range(nodes) \ (queried \cup {Self}) \subseteq Node \ {Self}
  BY <1>1
<1>5. f \in Seq(Node \ {Self})
  BY <1>3, <1>4, SeqGrows
<1>6. result \in Seq(Node \ {Self})
  BY DEF TypeOK
<1>7. result \o f \in Seq(Node \ {Self}) /\ Range(result \o f) = Range(result) \cup Range(f)
  BY <1>5, <1>6, RangeOfBoth
<1>8. f = <<>> => Range(f) = {}
  BY DEF Range
<1> QED BY <1>1, <1>2, <1>3, <1>5, <1>7, <1>8

\* The result after the sort and the cut at the end of a round.
LEMMA KeptResult ==
    ASSUME TypeOK
    PROVE  /\ KeepClosest(result) \in Seq(Node \ {Self})
           /\ Range(KeepClosest(result)) \subseteq Range(result)
           /\ Range(result) # {} =>
                 /\ KeepClosest(result) # <<>> /\ KeepClosest(result)[1] = Min(Range(result))
                 /\ Min(Range(result)) \in Range(KeepClosest(result))
<1>1. result \in Seq(Node \ {Self})
  BY DEF TypeOK
<1>2. result \in Seq(Nat) /\ Range(result) \subseteq Node \ {Self}
  <2>1. Node \ {Self} \subseteq Nat
    BY ConstantTypes
  <2> QED BY <1>1, <2>1, SeqGrows, SeqIsFinite
<1>3. PICK c : c = KeepClosest(result)
  OBVIOUS
<1>4. /\ c \in Seq(Range(result))
      /\ result # <<>> => c # <<>> /\ c[1] = Min(Range(result))
  BY <1>2, <1>3, ConstantTypes, ClosestProperties DEF KeepClosest
<1>5. c \in Seq(Node \ {Self}) /\ Range(c) \subseteq Range(result)
  BY <1>2, <1>4, SeqGrows, SeqIsFinite
<1>6. result = <<>> => Range(result) = {}
  BY DEF Range
<1>7. c # <<>> => c[1] \in Range(c)
  <2>1. SUFFICES ASSUME c # <<>> PROVE c[1] \in Range(c)
    OBVIOUS
  <2>2. Len(c) \in Nat /\ Len(c) # 0
    BY <1>4, <2>1, EmptySeq, LenProperties
  <2>3. 1 \in 1..Len(c)
    BY <2>2
  <2> QED BY <1>4, <2>3, SeqIsFinite
<1> QED BY <1>3, <1>4, <1>5, <1>6, <1>7

\* A step of any actor keeps the types.
LEMMA TypeStep ==
    ASSUME TypeInv, [Next]_vars
    PROVE  TypeInv'
<1> USE DEF TypeInv
<1>0. TypeOK /\ Stages
  OBVIOUS
<1>1. CASE Start
  <2>1. CASE UNCHANGED <<result, queried, learned>> /\ phase' = "done"
              /\ outcome' \in {"found", "returned", "missing"}
              /\ (outcome' = "missing" => op = "findValue")
    <3>1. store' \subseteq Node
      BY <1>0, <1>1, ConstantTypes DEF Start, TypeOK
    <3>2. UNCHANGED <<op, table, toQuery, asking, chan, collected, newNodes, answer,
                      storing, failed>>
      BY <1>1 DEF Start
    <3>3. TypeOK'
      BY <1>0, <2>1, <3>1, <3>2 DEF TypeOK
    <3>4. Stages'
      BY <1>0, <2>1, <3>2 DEF Stages
    <3> QED BY <3>3, <3>4
  <2>2. CASE /\ table[Self] # {} /\ phase = "start"
             /\ result' = FindClosest(table[Self], Alpha)
             /\ queried' = {Self} /\ learned' = Range(result') /\ phase' = "pick"
             /\ UNCHANGED outcome
    <3>1. store' \subseteq Node
      BY <1>0, <1>1, ConstantTypes DEF Start, TypeOK
    <3>2. UNCHANGED <<op, table, toQuery, asking, chan, collected, newNodes, answer,
                      storing, failed>>
      BY <1>1 DEF Start
    <3>3. /\ result' \in Seq(Node \ {Self}) /\ learned' \subseteq Node \ {Self}
          /\ queried' \subseteq Node
      BY <1>0, <2>2, StartResult, ConstantTypes
    <3>4. TypeOK'
      BY <1>0, <2>2, <3>1, <3>2, <3>3 DEF TypeOK
    <3>5. Stages'
      BY <1>0, <2>2, <3>2 DEF Stages
    <3> QED BY <3>4, <3>5
  <2> QED BY <1>1, <2>1, <2>2 DEF Start, Ends
<1>2. CASE Exhausted
  <2>1. UNCHANGED <<op, table, store, result, queried, toQuery, asking, chan, collected,
                    newNodes, learned, failed>> /\ phase = "pick"
    BY <1>2 DEF Exhausted, lookup
  <2>2. /\ answer' \in Seq(Node \ {Self}) /\ Len(answer') <= K
        /\ storing' \subseteq Node /\ (storing' # {} => op = "store")
        /\ phase' \in {"storing", "done"} /\ outcome' \in {"missing", "returned"}
        /\ (outcome' = "missing" => op = "findValue")
    <3>1. CASE op = "findValue"
      BY <1>0, <1>2, <3>1 DEF Exhausted, Ends, TypeOK, Stages
    <3>2. CASE op # "findValue"
      <4>1. Finish(result) /\ outcome' = "returned"
        BY <1>2, <3>2 DEF Exhausted
      <4> QED BY <1>0, <4>1, FinishResult
    <3> QED BY <3>1, <3>2
  <2>3. TypeOK'
    BY <1>0, <2>1, <2>2 DEF TypeOK
  <2>4. Stages'
    BY <1>0, <2>1, <2>2 DEF Stages
  <2> QED BY <2>3, <2>4
<1>3. CASE Pick
  <2>1. /\ UNCHANGED <<op, table, store, result, answer, storing, outcome, learned, failed>>
        /\ phase = "pick" /\ phase' = "collect" /\ chan' = <<>> /\ collected' = 0
        /\ newNodes' = FALSE /\ queried' = queried \cup Range(toQuery')
        /\ toQuery' = PickQueries(Unqueried) /\ asking' = 1 .. Len(toQuery')
    BY <1>3 DEF Pick
  <2>2. /\ toQuery' \in Seq(Node \ {Self}) /\ Len(toQuery') <= Alpha
        /\ Range(toQuery') \subseteq Range(result)
    BY <1>0, <2>1, PickResult
  <2>3. Range(result) \subseteq Node
    BY <1>0, SeqIsFinite DEF TypeOK
  <2>4. Len(toQuery') \in Nat /\ Cardinality(asking') = Len(toQuery')
    BY <2>1, <2>2, SeqIsFinite
  <2>5. chan' \in Seq(Reply) /\ Len(chan') = 0
    BY <2>1, EmptySeq
  <2>6. collected' + Len(chan') + Cardinality(asking') <= Len(toQuery')
    BY <2>1, <2>4, <2>5
  <2>7. TypeOK'
    BY <1>0, <2>1, <2>2, <2>3, <2>5, <2>6 DEF TypeOK
  <2>8. Range(chan') = {}
    BY <2>1 DEF Range
  <2>9. Stages'
    BY <1>0, <2>1, <2>8 DEF Stages
  <2> QED BY <2>7, <2>9
<1>4. CASE Collect
  <2>1. /\ UNCHANGED <<op, table, queried, toQuery, asking, answer, storing, failed>>
        /\ phase = "collect" /\ chan # <<>> /\ chan' = Tail(chan)
    BY <1>4 DEF Collect
  <2>2. PICK qr : qr = Head(chan)
    OBVIOUS
  <2>3. chan \in Seq(Reply)
    BY <1>0 DEF TypeOK
  <2>4. qr \in Reply /\ chan' \in Seq(Reply) /\ Len(chan') = Len(chan) - 1
    BY <2>1, <2>2, <2>3, HeadTailProperties
  <2>5. qr.nodes \in Seq(Node)
    BY <2>4 DEF Reply
  <2>6. collected + Len(chan) + Cardinality(asking) <= Len(toQuery)
    BY <1>0 DEF TypeOK
  <2>r. Range(chan') \subseteq Range(chan)
    BY <2>1, <2>3, QueueRange
  <2>7. CASE /\ qr.value /\ store' = store \cup {Self} /\ phase' = "done"
             /\ outcome' = "found" /\ UNCHANGED <<result, newNodes, learned, collected>>
    <3>1. collected' + Len(chan') + Cardinality(asking') <= Len(toQuery')
      BY <2>1, <2>4, <2>6, <2>7, RoundCounts
    <3>2. TypeOK'
      BY <1>0, <2>1, <2>4, <2>7, <3>1, ConstantTypes DEF TypeOK
    <3>3. Stages'
      BY <1>0, <2>1, <2>r, <2>7 DEF Stages
    <3> QED BY <3>2, <3>3
  <2>8. CASE /\ ~qr.value /\ result' = result \o Fresh(qr.nodes)
             /\ newNodes' = (newNodes \/ Fresh(qr.nodes) # <<>>)
             /\ learned' = learned \cup (Range(qr.nodes) \ {Self})
             /\ collected' = collected + 1 /\ UNCHANGED <<store, phase, outcome>>
    <3>1. collected' + Len(chan') + Cardinality(asking') <= Len(toQuery')
      BY <2>1, <2>4, <2>6, <2>8, RoundCounts
    <3>2. result' \in Seq(Node \ {Self}) /\ Range(qr.nodes) \subseteq Node
      BY <1>0, <2>5, <2>8, FreshResult
    <3>3. newNodes' \in BOOLEAN
      BY <2>8
    <3>4. TypeOK'
      BY <1>0, <2>1, <2>4, <2>8, <3>1, <3>2, <3>3 DEF TypeOK
    <3>5. Stages'
      BY <1>0, <2>1, <2>r, <2>8 DEF Stages
    <3> QED BY <3>4, <3>5
  <2> QED BY <1>4, <2>2, <2>7, <2>8 DEF Collect, Ends
<1>5. CASE LookupTimeout
  <2>1. UNCHANGED <<op, table, store, result, queried, toQuery, asking, chan, collected,
                    newNodes, learned, failed>> /\ phase = "collect"
    BY <1>5 DEF LookupTimeout, lookup
  <2>2. /\ answer' \in Seq(Node \ {Self}) /\ Len(answer') <= K
        /\ storing' \subseteq Node /\ (storing' # {} => op = "store")
        /\ phase' \in {"storing", "done"} /\ outcome' = "timeout"
    <3>1. CASE op = "findValue"
      BY <1>0, <1>5, <3>1 DEF LookupTimeout, Ends, TypeOK, Stages
    <3>2. CASE op # "findValue"
      <4>1. Finish(result) /\ outcome' = "timeout"
        BY <1>5, <3>2 DEF LookupTimeout
      <4> QED BY <1>0, <4>1, FinishResult
    <3> QED BY <3>1, <3>2
  <2>3. TypeOK'
    BY <1>0, <2>1, <2>2 DEF TypeOK
  <2>4. Stages'
    BY <1>0, <2>1, <2>2 DEF Stages
  <2> QED BY <2>3, <2>4
<1>6. CASE EndRound
  <2>1. UNCHANGED <<op, table, store, queried, toQuery, asking, chan, collected,
                    newNodes, learned, failed>> /\ phase = "collect"
    BY <1>6 DEF EndRound
  <2>2. CASE ~newNodes /\ UNCHANGED result
             /\ IF op = "findValue"
                THEN Ends("missing") /\ UNCHANGED <<answer, storing>>
                ELSE Finish(result) /\ outcome' = "returned"
    <3>1. /\ answer' \in Seq(Node \ {Self}) /\ Len(answer') <= K
          /\ storing' \subseteq Node /\ (storing' # {} => op = "store")
          /\ phase' \in {"storing", "done"} /\ outcome' \in {"missing", "returned"}
          /\ (outcome' = "missing" => op = "findValue")
      <4>1. CASE op = "findValue"
        BY <1>0, <2>2, <4>1 DEF Ends, TypeOK, Stages
      <4>2. CASE op # "findValue"
        BY <1>0, <2>2, <4>2, FinishResult
      <4> QED BY <4>1, <4>2
    <3>2. TypeOK'
      BY <1>0, <2>1, <2>2, <3>1 DEF TypeOK
    <3>3. Stages'
      BY <1>0, <2>1, <2>2, <3>1 DEF Stages
    <3> QED BY <3>2, <3>3
  <2>3. CASE newNodes /\ result' = KeepClosest(result) /\ phase' = "pick"
             /\ UNCHANGED <<answer, storing, outcome>>
    <3>1. result' \in Seq(Node \ {Self})
      BY <1>0, <2>3, KeptResult
    <3>2. TypeOK'
      BY <1>0, <2>1, <2>3, <3>1 DEF TypeOK
    <3>3. Stages'
      BY <1>0, <2>1, <2>3 DEF Stages
    <3> QED BY <3>2, <3>3
  <2> QED BY <1>6, <2>2, <2>3 DEF EndRound
<1>7. CASE StoreReturns
  <2>1. UNCHANGED <<op, table, store, result, queried, toQuery, asking, chan, collected,
                    newNodes, learned, answer, storing, outcome, failed>>
        /\ phase' = "done"
    BY <1>7 DEF StoreReturns, lookup
  <2>2. TypeOK'
    BY <1>0, <2>1 DEF TypeOK
  <2>3. Stages'
    BY <1>0, <2>1 DEF Stages
  <2> QED BY <2>2, <2>3
<1>8. ASSUME NEW i \in 1 .. Alpha, Goroutine(i) PROVE TypeInv'
  <2>1. /\ i \in asking /\ asking' = asking \ {i}
        /\ UNCHANGED <<op, phase, store, result, queried, toQuery, collected, newNodes,
                       answer, storing, outcome, learned>>
    BY <1>8 DEF Goroutine, Answered, Unanswered
  <2>2. toQuery[i] \in Node
    BY <2>1, RoundCounts
  <2>3. /\ table' \in [Node -> SUBSET Node] /\ failed' \subseteq Node
        /\ \E r \in Reply : chan' = Append(chan, r) /\ (r.value => op = "findValue")
    <3>1. CASE Answered(i)
      <4>1. PICK contacts \in AddNode(table[toQuery[i]], Self) :
                /\ table' = [table EXCEPT ![toQuery[i]] = contacts]
                /\ chan' = Append(chan, HandleMessage(toQuery[i], contacts, op = "findValue"))
        BY <3>1 DEF Answered
      <4>2. contacts \in SUBSET Node /\ table' \in [Node -> SUBSET Node]
        BY <1>0, <2>2, <4>1, TablesStay DEF TypeOK
      <4>3. PICK v \in BOOLEAN : v = (op = "findValue")
        OBVIOUS
      <4>4. PICK r \in Reply : /\ r = HandleMessage(toQuery[i], contacts, v)
                               /\ r.value => v
        BY <4>2, ReplyType
      <4>5. failed' = failed
        BY <3>1 DEF Answered
      <4> QED BY <1>0, <4>1, <4>2, <4>3, <4>4, <4>5 DEF TypeOK
    <3>2. CASE Unanswered(i)
      <4>1. NoReply \in Reply /\ ~NoReply.value
        BY EmptySeq DEF NoReply, Reply
      <4> QED BY <1>0, <2>2, <3>2, <4>1 DEF Unanswered, TypeOK
    <3> QED BY <1>8, <3>1, <3>2 DEF Goroutine
  <2>4. /\ chan' \in Seq(Reply) /\ asking' \subseteq 1..Len(toQuery')
        /\ collected' + Len(chan') + Cardinality(asking') <= Len(toQuery')
    BY <2>1, <2>3, ResultSent
  <2>5. phase # "start"
    BY <1>0, <2>1 DEF Stages
  <2>6. TypeOK'
    BY <1>0, <2>1, <2>3, <2>4 DEF TypeOK
  <2>7. \A r \in Range(chan') : r.value => op = "findValue"
    <3>1. PICK r \in Reply : chan' = Append(chan, r) /\ (r.value => op = "findValue")
      BY <2>3
    <3>2. Range(chan') = Range(chan) \cup {r}
      BY <1>0, <3>1, QueueRange DEF TypeOK
    <3> QED BY <1>0, <3>1, <3>2 DEF Stages
  <2>8. Stages'
    BY <1>0, <2>1, <2>5, <2>7 DEF Stages
  <2> QED BY <2>6, <2>8
<1>9. ASSUME NEW n \in Node, StoredAt(n) \/ StoreFails(n) PROVE TypeInv'
  <2>1. /\ n \in storing /\ storing' = storing \ {n}
        /\ UNCHANGED <<op, phase, result, queried, toQuery, asking, chan, collected, newNodes,
                       learned, answer, outcome>>
    BY <1>9 DEF StoredAt, StoreFails, lookup
  <2>2. table' \in [Node -> SUBSET Node] /\ store' \subseteq Node /\ failed' \subseteq Node
    <3>1. CASE StoredAt(n)
      <4>1. PICK contacts \in AddNode(table[n], Self) : table' = [table EXCEPT ![n] = contacts]
        BY <3>1 DEF StoredAt
      <4>2. table' \in [Node -> SUBSET Node]
        BY <1>0, <4>1, TablesStay DEF TypeOK
      <4> QED BY <1>0, <3>1, <4>2 DEF StoredAt, TypeOK
    <3>2. CASE StoreFails(n)
      BY <1>0, <3>2 DEF StoreFails, TypeOK
    <3> QED BY <1>9, <3>1, <3>2
  <2>3. phase # "start" /\ op = "store"
    BY <1>0, <2>1 DEF Stages
  <2>4. TypeOK'
    BY <1>0, <2>1, <2>2 DEF TypeOK
  <2>5. Stages'
    BY <1>0, <2>1, <2>3 DEF Stages
  <2> QED BY <2>4, <2>5
<1>10. CASE UNCHANGED vars
  <2>1. TypeOK'
    BY <1>0, <1>10 DEF TypeOK, vars, lookup
  <2>2. Stages'
    BY <1>0, <1>10 DEF Stages, vars, lookup
  <2> QED BY <2>1, <2>2
<1> HIDE DEF TypeInv
<1> QED BY <1>1, <1>2, <1>3, <1>4, <1>5, <1>6, <1>7, <1>8, <1>9, <1>10 DEF Next, Main

\* Every variable stays in its type, nobody queries itself, and a round has no
\* more results on the way than it asked nodes, whatever the lookup is given.
THEOREM LookupTypeCorrect == Spec => []TypeOK
<1>1. TypeInv /\ [Next]_vars => TypeInv'
  BY TypeStep
<1>2. TypeInv => TypeOK
  BY DEF TypeInv
<1> QED BY TypeInit, <1>1, <1>2, PTL DEF Spec

-----------------------------------------------------------------------------
(* The nearest contact *)

\* The lookup has in its list only contacts it was given, has asked only those,
\* and while it runs its list has the nearest of them.
Known ==
    /\ Range(result) \subseteq learned
    /\ queried \subseteq learned \cup {Self}
    /\ phase \in {"pick", "collect"} => learned # {} /\ Min(learned) \in Range(result)

\* Between two rounds the nearest contact is the first of the list.
NearestFirst == phase = "pick" => result # <<>> /\ result[1] = Min(learned)

\* A round that has brought nothing new has asked the nearest contact.
NearestAsked == phase = "collect" /\ ~newNodes => Min(learned) \in queried

NearInv == TypeInv /\ Known /\ NearestFirst /\ NearestAsked /\ ClosestKept /\ ClosestAsked

LEMMA NearInit == Init => NearInv
<1> SUFFICES ASSUME Init PROVE NearInv
  OBVIOUS
<1>1. TypeInv
  BY TypeInit
<1>2. Range(<<>>) = {}
  BY DEF Range
<1> QED BY <1>1, <1>2 DEF Init, NearInv, Known, NearestFirst, NearestAsked, ClosestKept,
                          ClosestAsked

\* What an operation keeps once its lookup is over.
LEMMA NearAfter ==
    ASSUME NearInv, TypeInv', UNCHANGED <<op, result, queried, answer, outcome, learned>>,
           phase' \in {"storing", "done"}, phase \in {"storing", "done"}
    PROVE  NearInv'
BY DEF NearInv, Known, NearestFirst, NearestAsked, ClosestKept, ClosestAsked

\* What it keeps while its lookup runs.
LEMMA NearMeanwhile ==
    ASSUME NearInv, TypeInv',
           UNCHANGED <<op, phase, result, queried, newNodes, answer, outcome, learned>>
    PROVE  NearInv'
BY DEF NearInv, Known, NearestFirst, NearestAsked, ClosestKept, ClosestAsked

\* A lookup that ends with the nearest contact in its list.
LEMMA NearEnds ==
    ASSUME NearInv, TypeInv', phase \in {"pick", "collect"},
           UNCHANGED <<op, result, queried, learned>>,
           phase' \in {"storing", "done"},
           op # "findValue" => Finish(result),
           outcome' \in {"returned", "missing"} => Min(learned) \in queried
    PROVE  NearInv'
<1>1. TypeOK /\ Known
  BY DEF NearInv, TypeInv
<1>2. learned # {} /\ Min(learned) \in Range(result) /\ Range(result) \subseteq learned
  BY <1>1 DEF Known
<1>3. learned \in SUBSET Nat
  BY <1>1, ConstantTypes DEF TypeOK
<1>4. Min(Range(result)) = Min(learned)
  BY <1>2, <1>3, LeastOfPart
<1>5. op # "findValue" => answer' # <<>> /\ answer'[1] = Min(learned)
  BY <1>1, <1>2, <1>4, FinishResult
<1> QED BY <1>1, <1>5 DEF NearInv, Known, NearestFirst, NearestAsked, ClosestKept, ClosestAsked

LEMMA NearStep ==
    ASSUME NearInv, [Next]_vars
    PROVE  NearInv'
<1>0. TypeInv /\ TypeOK /\ Stages /\ Known /\ learned \in SUBSET Nat
  BY ConstantTypes DEF NearInv, TypeInv, TypeOK
<1>t. TypeInv'
  BY <1>0, TypeStep
<1>1. CASE Start
  <2>0. /\ phase = "start" /\ result = <<>> /\ queried = {} /\ learned = {}
        /\ UNCHANGED <<op, answer>>
    BY <1>0, <1>1 DEF Start, Stages
  <2>1. CASE UNCHANGED <<result, queried, learned>> /\ phase' = "done"
    <3>1. Range(<<>>) = {}
      BY DEF Range
    <3> QED BY <1>t, <2>0, <2>1, <3>1
            DEF NearInv, Known, NearestFirst, NearestAsked, ClosestKept, ClosestAsked
  <2>2. CASE /\ table[Self] # {} /\ phase' = "pick"
             /\ result' = FindClosest(table[Self], Alpha)
             /\ queried' = {Self} /\ learned' = Range(result') /\ UNCHANGED outcome
    <3>1. /\ result' # <<>> /\ result'[1] = Min(learned') /\ result' \in Seq(Node \ {Self})
      BY <1>0, <2>0, <2>2, StartResult
    <3>2. result'[1] \in Range(result')
      <4>1. Len(result') \in Nat /\ Len(result') # 0
        BY <3>1, EmptySeq, LenProperties
      <4>2. 1 \in 1..Len(result')
        BY <4>1
      <4> QED BY <3>1, <4>2, SeqIsFinite
    <3>3. outcome' = "running"
      BY <1>0, <2>0, <2>2 DEF Stages
    <3> QED BY <1>t, <2>2, <3>1, <3>2, <3>3
            DEF NearInv, Known, NearestFirst, NearestAsked, ClosestKept, ClosestAsked
  <2> QED BY <1>1, <2>1, <2>2 DEF Start, Ends
<1>2. CASE Exhausted
  <2>1. /\ UNCHANGED <<op, result, queried, learned>> /\ phase = "pick"
        /\ Unqueried = <<>> /\ (op # "findValue" => Finish(result))
        /\ phase' \in {"storing", "done"}
    BY <1>2 DEF Exhausted, lookup, Finish, Ends
  <2>2. Range(result) \ queried = {}
    <3>1. Range(Unqueried) = {}
      BY <2>1 DEF Range
    <3> QED BY <1>0, <3>1, PickResult
  <2>3. Min(learned) \in queried
    BY <1>0, <2>1, <2>2 DEF Known
  <2> QED BY <1>t, <2>1, <2>3, NearEnds
<1>3. CASE Pick
  <2>1. /\ UNCHANGED <<op, result, answer, outcome, learned>>
        /\ phase = "pick" /\ phase' = "collect"
        /\ queried' = queried \cup Range(toQuery') /\ toQuery' = PickQueries(Unqueried)
    BY <1>3 DEF Pick
  <2>2. result # <<>> /\ result[1] = Min(learned)
    BY <2>1 DEF NearInv, NearestFirst
  <2>3. result[1] \notin queried => result[1] \in Range(toQuery')
    BY <1>0, <2>1, <2>2, PickResult
  <2>4. Min(learned') \in queried'
    BY <2>1, <2>2, <2>3
  <2>5. Range(toQuery') \subseteq learned
    BY <1>0, <2>1, PickResult DEF Known
  <2>6. outcome' = "running"
    BY <1>0, <2>1 DEF Stages
  <2> QED BY <1>0, <1>t, <2>1, <2>4, <2>5, <2>6
          DEF NearInv, Known, NearestFirst, NearestAsked, ClosestKept, ClosestAsked
<1>4. CASE Collect
  <2>1. UNCHANGED <<op, queried, answer>> /\ phase = "collect" /\ chan # <<>>
    BY <1>4 DEF Collect
  <2>2. PICK qr : qr = Head(chan)
    OBVIOUS
  <2>3. chan \in Seq(Reply)
    BY <1>0 DEF TypeOK
  <2>4. qr \in Reply
    BY <2>1, <2>2, <2>3, HeadTailProperties
  <2>5. qr.nodes \in Seq(Node)
    BY <2>4 DEF Reply
  <2>6. CASE /\ qr.value /\ phase' = "done" /\ outcome' = "found"
             /\ UNCHANGED <<result, learned>>
    <3>1. op = "findValue"
      BY <1>0, <2>1, <2>2, <2>3, <2>6, QueueRange DEF Stages
    <3> QED BY <1>0, <1>t, <2>1, <2>6, <3>1
            DEF NearInv, Known, NearestFirst, NearestAsked, ClosestKept, ClosestAsked
  <2>7. CASE /\ result' = result \o Fresh(qr.nodes)
             /\ newNodes' = (newNodes \/ Fresh(qr.nodes) # <<>>)
             /\ learned' = learned \cup (Range(qr.nodes) \ {Self})
             /\ UNCHANGED <<phase, outcome>>
    <3>1. PICK f : f = Range(Fresh(qr.nodes))
      OBVIOUS
    <3>2. /\ f = Range(qr.nodes) \ (queried \cup {Self})
          /\ Range(result') = Range(result) \cup f
          /\ Fresh(qr.nodes) = <<>> => f = {}
      BY <1>0, <2>5, <2>7, <3>1, FreshResult
    <3>3. learned # {} /\ Min(learned) \in Range(result)
      BY <1>0, <2>1 DEF Known
    <3>4. learned' \in SUBSET Nat
      BY <1>t, ConstantTypes DEF TypeInv, TypeOK
    <3>5. Min(learned') \in learned' /\ (Min(learned') \in learned => Min(learned') = Min(learned))
      <4>1. Min(learned') \in learned' /\ learned \in SUBSET (learned') /\ learned' # {}
        BY <2>7, <3>3, <3>4, LeastOf
      <4> QED BY <3>4, <4>1, LeastOfPart
    <3>6. Min(learned') \notin learned => Min(learned') \in f \/ Min(learned') \in queried
      BY <2>7, <3>2, <3>5
    <3>7. queried \subseteq learned \cup {Self} /\ Self \notin learned'
      BY <1>0, <1>t DEF Known, TypeInv, TypeOK
    <3>8. Min(learned') \in Range(result')
      BY <3>2, <3>3, <3>5, <3>6, <3>7
    <3>9. Range(result') \subseteq learned'
      BY <1>0, <2>7, <3>2 DEF Known
    <3>10. ~newNodes' => Min(learned') \in queried
      <4>1. SUFFICES ASSUME ~newNodes' PROVE Min(learned') \in queried
        OBVIOUS
      <4>2. ~newNodes /\ f = {}
        BY <2>7, <3>2, <4>1
      <4>3. Min(learned) \in queried
        BY <2>1, <4>2 DEF NearInv, NearestAsked
      <4> QED BY <3>5, <3>6, <4>2, <4>3
    <3>11. outcome' = "running"
      BY <1>0, <2>1, <2>7 DEF Stages
    <3> QED BY <1>0, <1>t, <2>1, <2>7, <3>5, <3>7, <3>8, <3>9, <3>10, <3>11
            DEF NearInv, Known, NearestFirst, NearestAsked, ClosestKept, ClosestAsked
  <2> QED BY <1>4, <2>2, <2>6, <2>7 DEF Collect, Ends
<1>5. CASE LookupTimeout
  <2>1. /\ UNCHANGED <<op, result, queried, learned>> /\ phase = "collect"
        /\ (op # "findValue" => Finish(result))
        /\ phase' \in {"storing", "done"} /\ outcome' = "timeout"
    BY <1>5 DEF LookupTimeout, lookup, Finish, Ends
  <2> QED BY <1>t, <2>1, NearEnds
<1>6. CASE EndRound
  <2>1. UNCHANGED <<op, queried, newNodes, learned>> /\ phase = "collect"
    BY <1>6 DEF EndRound
  <2>2. CASE /\ ~newNodes /\ UNCHANGED result
             /\ IF op = "findValue"
                THEN Ends("missing") /\ UNCHANGED <<answer, storing>>
                ELSE Finish(result) /\ outcome' = "returned"
    <3>1. (op # "findValue" => Finish(result)) /\ phase' \in {"storing", "done"}
      BY <2>2 DEF Finish, Ends
    <3>2. Min(learned) \in queried
      BY <2>1, <2>2 DEF NearInv, NearestAsked
    <3> QED BY <1>t, <2>1, <2>2, <3>1, <3>2, NearEnds
  <2>3. CASE /\ newNodes /\ result' = KeepClosest(result) /\ phase' = "pick"
             /\ UNCHANGED <<answer, outcome>>
    <3>1. learned # {} /\ Min(learned) \in Range(result) /\ Range(result) \subseteq learned
      BY <1>0, <2>1 DEF Known
    <3>2. Min(Range(result)) = Min(learned) /\ Range(result) # {}
      BY <1>0, <3>1, LeastOfPart
    <3>3. /\ result' # <<>> /\ result'[1] = Min(learned)
          /\ Min(learned) \in Range(result') /\ Range(result') \subseteq learned
      BY <1>0, <2>3, <3>1, <3>2, KeptResult
    <3>4. outcome' = "running"
      BY <1>0, <2>1, <2>3 DEF Stages
    <3> QED BY <1>0, <1>t, <2>1, <2>3, <3>1, <3>3, <3>4
            DEF NearInv, Known, NearestFirst, NearestAsked, ClosestKept, ClosestAsked
  <2> QED BY <1>6, <2>2, <2>3 DEF EndRound
<1>7. CASE StoreReturns
  <2>1. /\ UNCHANGED <<op, result, queried, answer, outcome, learned>>
        /\ phase' = "done" /\ phase = "storing"
    BY <1>7 DEF StoreReturns, lookup
  <2> QED BY <1>t, <2>1, NearAfter
<1>8. ASSUME NEW i \in 1 .. Alpha, Goroutine(i) PROVE NearInv'
  <2>1. UNCHANGED <<op, phase, result, queried, newNodes, answer, outcome, learned>>
    BY <1>8 DEF Goroutine, Answered, Unanswered
  <2> QED BY <1>t, <2>1, NearMeanwhile
<1>9. ASSUME NEW n \in Node, StoredAt(n) \/ StoreFails(n) PROVE NearInv'
  <2>1. UNCHANGED <<op, phase, result, queried, newNodes, answer, outcome, learned>>
    BY <1>9 DEF StoredAt, StoreFails, lookup
  <2> QED BY <1>t, <2>1, NearMeanwhile
<1>10. CASE UNCHANGED vars
  <2>1. UNCHANGED <<op, phase, result, queried, newNodes, answer, outcome, learned>>
    BY <1>10 DEF vars, lookup
  <2> QED BY <1>t, <2>1, NearMeanwhile
<1> QED BY <1>1, <1>2, <1>3, <1>4, <1>5, <1>6, <1>7, <1>8, <1>9, <1>10 DEF Next, Main

\* However the lookup of FindNode or Store ends, and in whatever order the
\* goroutines of its rounds answered, the first contact it returns is the nearest
\* of all it was given: the sorts and cuts of iterativeFindNode lose it for no K,
\* no Alpha and no routing tables.
THEOREM ClosestIsKept == Spec => []ClosestKept
<1>1. NearInv /\ [Next]_vars => NearInv'
  BY NearStep
<1>2. NearInv => ClosestKept
  BY DEF NearInv
<1> QED BY NearInit, <1>1, <1>2, PTL DEF Spec

\* A lookup that no time-out cuts short has asked the nearest contact it was
\* given: neither break of the round loop comes too early.
THEOREM ClosestIsAsked == Spec => []ClosestAsked
<1>1. NearInv /\ [Next]_vars => NearInv'
  BY NearStep
<1>2. NearInv => ClosestAsked
  BY DEF NearInv
<1> QED BY NearInit, <1>1, <1>2, PTL DEF Spec

-----------------------------------------------------------------------------
(* Records that are there *)

\* A node that holds the record and was asked for it has failed, is still being
\* asked, or has its answer on the channel.
Accounted ==
    op = "findValue" =>
        /\ phase = "pick" => queried \cap store \subseteq failed
        /\ phase = "collect" =>
              \A n \in (queried \cap store) \ failed :
                  (\E i \in asking : toQuery[i] = n) \/ \E r \in Range(chan) : r.value

HonestInv == TypeInv /\ Accounted /\ MissIsHonest

LEMMA HonestInit == Init => HonestInv
BY TypeInit DEF Init, HonestInv, Accounted, MissIsHonest

\* A step that is not the lookup's own, while no result is sent.
LEMMA HonestMeanwhile ==
    ASSUME HonestInv, TypeInv',
           UNCHANGED <<op, phase, queried, toQuery, asking, chan, outcome>>,
           op = "findValue" => store' = store, failed \subseteq failed'
    PROVE  HonestInv'
BY DEF HonestInv, TypeInv, Stages, Accounted, MissIsHonest

LEMMA HonestStep ==
    ASSUME HonestInv, [Next]_vars
    PROVE  HonestInv'
<1>0. TypeInv /\ TypeOK /\ Stages /\ Accounted /\ MissIsHonest
  BY DEF HonestInv, TypeInv
<1>t. TypeInv'
  BY <1>0, TypeStep
<1>1. CASE Start
  <2>0. phase = "start" /\ queried = {} /\ UNCHANGED <<op, failed>>
    BY <1>0, <1>1 DEF Start, Stages
  <2>1. CASE UNCHANGED queried /\ phase' = "done"
    BY <1>t, <2>0, <2>1 DEF HonestInv, Accounted, MissIsHonest
  <2>2. CASE /\ ~(op = "findValue" /\ Self \in store)
             /\ queried' = {Self} /\ phase' = "pick" /\ UNCHANGED outcome
    <3>1. op = "findValue" => store' = store /\ Self \notin store
      BY <1>1, <2>2 DEF Start
    <3>2. outcome' = "running"
      BY <1>0, <2>0, <2>2 DEF Stages
    <3> QED BY <1>t, <2>0, <2>2, <3>1, <3>2 DEF HonestInv, Accounted, MissIsHonest
  <2> QED BY <1>1, <2>1, <2>2 DEF Start, Ends
<1>2. CASE Exhausted
  <2>1. /\ UNCHANGED <<op, store, queried, failed>> /\ phase = "pick"
        /\ phase' \in {"storing", "done"} /\ (op # "findValue" => outcome' = "returned")
    BY <1>2 DEF Exhausted, lookup, Finish, Ends
  <2> QED BY <1>0, <1>t, <2>1 DEF HonestInv, Accounted, MissIsHonest
<1>3. CASE Pick
  <2>1. /\ UNCHANGED <<op, store, outcome, failed>>
        /\ phase = "pick" /\ phase' = "collect" /\ asking' = 1 .. Len(toQuery')
        /\ queried' = queried \cup Range(toQuery')
    BY <1>3 DEF Pick
  <2>2. DOMAIN toQuery' = asking'
    <3>1. toQuery' \in Seq(Node \ {Self})
      BY <1>t DEF TypeInv, TypeOK
    <3> QED BY <2>1, <3>1, LenProperties
  <2>3. \A n \in Range(toQuery') : \E i \in asking' : toQuery'[i] = n
    BY <2>2 DEF Range
  <2>4. outcome' = "running"
    BY <1>0, <2>1 DEF Stages
  <2>5. op = "findValue" => queried \cap store \subseteq failed
    BY <1>0, <2>1 DEF Accounted
  <2> QED BY <1>t, <2>1, <2>3, <2>4, <2>5 DEF HonestInv, Accounted, MissIsHonest
<1>4. CASE Collect
  <2>1. UNCHANGED <<op, queried, toQuery, asking, failed>> /\ phase = "collect"
        /\ chan # <<>> /\ chan' = Tail(chan)
    BY <1>4 DEF Collect
  <2>2. PICK qr : qr = Head(chan)
    OBVIOUS
  <2>3. Range(chan) = {qr} \cup Range(chan')
    BY <1>0, <2>1, <2>2, QueueRange DEF TypeOK
  <2>4. CASE qr.value /\ phase' = "done" /\ outcome' = "found"
    BY <1>t, <2>4 DEF HonestInv, Accounted, MissIsHonest
  <2>5. CASE ~qr.value /\ UNCHANGED <<store, phase, outcome>>
    <3>1. outcome' = "running"
      BY <1>0, <2>1, <2>5 DEF Stages
    <3>2. \A r \in Range(chan) : r.value => r \in Range(chan')
      BY <2>3, <2>5
    <3> QED BY <1>0, <1>t, <2>1, <2>5, <3>1, <3>2 DEF HonestInv, Accounted, MissIsHonest
  <2> QED BY <1>4, <2>2, <2>4, <2>5 DEF Collect, Ends
<1>5. CASE LookupTimeout
  <2>1. phase' \in {"storing", "done"} /\ outcome' = "timeout"
    BY <1>5 DEF LookupTimeout, Finish, Ends
  <2> QED BY <1>t, <2>1 DEF HonestInv, Accounted, MissIsHonest
<1>6. CASE EndRound
  <2>1. /\ UNCHANGED <<op, store, queried, failed>> /\ phase = "collect"
        /\ collected = Len(toQuery)
    BY <1>6 DEF EndRound, RoundOver
  <2>2. asking = {} /\ chan = <<>>
    <3>1. collected + Len(chan) + Cardinality(asking) <= Len(toQuery)
      BY <1>0 DEF TypeOK
    <3>2. Len(chan) = 0 /\ Cardinality(asking) = 0
      BY <1>0, <2>1, <3>1, RoundCounts
    <3>3. asking = {}
      BY <1>0, <3>2, RoundCounts, FS_EmptySet
    <3> QED BY <1>0, <3>2, <3>3, EmptySeq DEF TypeOK
  <2>3. Range(chan) = {}
    BY <2>2 DEF Range
  <2>4. op = "findValue" => queried \cap store \subseteq failed
    BY <1>0, <2>1, <2>2, <2>3 DEF Accounted
  <2>5. outcome = "running"
    BY <1>0, <2>1 DEF Stages
  <2>6. \/ phase' \in {"storing", "done"} /\ (outcome' = "missing" => op = "findValue")
        \/ phase' = "pick" /\ outcome' = outcome
    BY <1>6 DEF EndRound, Finish, Ends
  <2> QED BY <1>t, <2>1, <2>4, <2>5, <2>6 DEF HonestInv, Accounted, MissIsHonest
<1>7. CASE StoreReturns
  <2>1. UNCHANGED <<op, store, queried, outcome, failed>> /\ phase' = "done"
    BY <1>7 DEF StoreReturns, lookup
  <2> QED BY <1>0, <1>t, <2>1 DEF HonestInv, Accounted, MissIsHonest
<1>8. ASSUME NEW i \in 1 .. Alpha, Goroutine(i) PROVE HonestInv'
  <2>1. /\ i \in asking /\ asking' = asking \ {i}
        /\ UNCHANGED <<op, phase, store, queried, toQuery, outcome>>
        /\ failed \subseteq failed'
    BY <1>8 DEF Goroutine, Answered, Unanswered
  <2>2. PICK n : n = toQuery[i]
    OBVIOUS
  <2>3. PICK r \in Reply : /\ chan' = Append(chan, r)
                           /\ op = "findValue" /\ n \in store => r.value \/ n \in failed'
    <3>1. CASE Answered(i)
      <4>1. PICK contacts \in AddNode(table[n], Self) :
                chan' = Append(chan, HandleMessage(n, contacts, op = "findValue"))
        BY <2>2, <3>1 DEF Answered
      <4>2. contacts \in SUBSET Node
        BY <1>0, <2>1, <2>2, <4>1, RoundCounts, TablesStay DEF TypeOK
      <4>3. PICK v \in BOOLEAN : v = (op = "findValue")
        OBVIOUS
      <4>4. PICK r \in Reply : /\ r = HandleMessage(n, contacts, v)
                               /\ v /\ n \in store => r.value
        BY <4>2, ReplyType
      <4> QED BY <4>1, <4>3, <4>4
    <3>2. CASE Unanswered(i)
      <4>1. NoReply \in Reply
        BY EmptySeq DEF NoReply, Reply
      <4> QED BY <2>2, <3>2, <4>1 DEF Unanswered
    <3> QED BY <1>8, <3>1, <3>2 DEF Goroutine
  <2>4. Range(chan') = Range(chan) \cup {r}
    BY <1>0, <2>3, QueueRange DEF TypeOK
  <2>5. MissIsHonest'
    BY <1>0, <2>1 DEF MissIsHonest
  <2>6. Accounted'
    <3>1. SUFFICES ASSUME op = "findValue" PROVE Accounted'
      BY <2>1 DEF Accounted
    <3>2. CASE phase = "collect"
      <4>1. SUFFICES ASSUME NEW m \in (queried \cap store) \ failed'
                     PROVE  (\E j \in asking' : toQuery[j] = m) \/ \E x \in Range(chan') : x.value
        BY <2>1, <3>2 DEF Accounted
      <4>2. (\E j \in asking : toQuery[j] = m) \/ \E x \in Range(chan) : x.value
        BY <1>0, <2>1, <3>1, <3>2 DEF Accounted
      <4>3. CASE \E x \in Range(chan) : x.value
        BY <2>4, <4>3
      <4>4. ASSUME NEW j \in asking, toQuery[j] = m
            PROVE  (\E k \in asking' : toQuery[k] = m) \/ \E x \in Range(chan') : x.value
        BY <2>1, <2>2, <2>3, <2>4, <3>1, <4>4
      <4> QED BY <4>2, <4>3, <4>4
    <3>3. CASE phase # "collect"
      BY <1>0, <2>1, <3>3 DEF Accounted
    <3> QED BY <3>2, <3>3
  <2> QED BY <1>t, <2>5, <2>6 DEF HonestInv
<1>9. ASSUME NEW n \in Node, StoredAt(n) \/ StoreFails(n) PROVE HonestInv'
  <2>1. /\ UNCHANGED <<op, phase, queried, toQuery, asking, chan, outcome>>
        /\ n \in storing /\ failed \subseteq failed'
    BY <1>9 DEF StoredAt, StoreFails, lookup
  <2>2. op # "findValue"
    BY <1>0, <2>1 DEF Stages
  <2> QED BY <1>t, <2>1, <2>2, HonestMeanwhile
<1>10. CASE UNCHANGED vars
  <2>1. UNCHANGED <<op, phase, queried, toQuery, asking, chan, outcome, store, failed>>
    BY <1>10 DEF vars, lookup
  <2> QED BY <1>t, <2>1, HonestMeanwhile
<1> QED BY <1>1, <1>2, <1>3, <1>4, <1>5, <1>6, <1>7, <1>8, <1>9, <1>10 DEF Next, Main

\* When FindValue reports that there is no record and no time-out cut it short,
\* every node it asked that holds the record had failed to answer: no result is
\* left on the channel of a round, however its goroutines were scheduled.
THEOREM MissesAreHonest == Spec => []MissIsHonest
<1>1. HonestInv /\ [Next]_vars => HonestInv'
  BY HonestStep
<1>2. HonestInv => MissIsHonest
  BY DEF HonestInv
<1> QED BY HonestInit, <1>1, <1>2, PTL DEF Spec

-----------------------------------------------------------------------------
(* Rounds come to their end *)

\* A goroutine that has a result to send finds room on the channel, also after
\* the lookup has returned and reads it no more; and a round that waits with no
\* query left has a result to collect, or all of them.
NobodyBlocks ==
    /\ \A i \in asking : Len(chan) < ChanCap
    /\ phase = "collect" /\ asking = {} => chan # <<>> \/ RoundOver

\* A lookup asks a node once, and each round asks a node that was not asked
\* before.
RoundsAskMore ==
    [][/\ queried \subseteq queried'
       /\ phase = "pick" /\ phase' = "collect" => queried' # queried]_vars

\* Every query of a round is running, has its result on the channel, or was
\* collected.
AllCounted ==
    phase = "collect" => collected + Len(chan) + Cardinality(asking) = Len(toQuery)

LEMMA CountedStep ==
    ASSUME TypeInv, AllCounted, [Next]_vars
    PROVE  AllCounted'
<1>0. /\ Len(toQuery) \in Nat /\ Len(chan) \in Nat /\ collected \in Nat
      /\ IsFiniteSet(asking) /\ Cardinality(asking) \in Nat
  BY RoundCounts
<1>t. TypeOK /\ TypeInv'
  BY TypeStep DEF TypeInv
<1>1. CASE phase' # "collect"
  BY <1>1 DEF AllCounted
<1>2. CASE UNCHANGED <<phase, collected, chan, asking, toQuery>>
  BY <1>2 DEF AllCounted
<1>3. CASE Pick
  <2>1. collected' = 0 /\ chan' = <<>> /\ asking' = 1 .. Len(toQuery')
    BY <1>3 DEF Pick
  <2>2. toQuery' \in Seq(Node \ {Self})
    BY <1>t DEF TypeInv, TypeOK
  <2>3. Len(toQuery') \in Nat /\ Cardinality(asking') = Len(toQuery')
    BY <2>1, <2>2, SeqIsFinite
  <2>4. Len(chan') = 0
    BY <2>1
  <2> QED BY <2>1, <2>3, <2>4 DEF AllCounted
<1>4. CASE Collect
  <2>1. /\ phase = "collect" /\ chan # <<>> /\ chan' = Tail(chan)
        /\ UNCHANGED <<toQuery, asking>>
        /\ phase' = "done" \/ collected' = collected + 1
    BY <1>4 DEF Collect, Ends
  <2>2. chan \in Seq(Reply)
    BY <1>t DEF TypeOK
  <2>3. Len(chan') = Len(chan) - 1
    BY <2>1, <2>2, HeadTailProperties
  <2>4. collected + Len(chan) + Cardinality(asking) = Len(toQuery)
    BY <2>1 DEF AllCounted
  <2>5. (collected + 1) + (Len(chan) - 1) + Cardinality(asking) = Len(toQuery)
    BY <1>0, <2>4
  <2> QED BY <2>1, <2>3, <2>5 DEF AllCounted
<1>5. ASSUME NEW i \in 1 .. Alpha, Goroutine(i) PROVE AllCounted'
  <2>1. /\ i \in asking /\ asking' = asking \ {i}
        /\ UNCHANGED <<phase, toQuery, collected>>
        /\ \E r : chan' = Append(chan, r)
    BY <1>5 DEF Goroutine, Answered, Unanswered
  <2>2. chan \in Seq(Reply) /\ chan' \in Seq(Reply)
    BY <1>t DEF TypeInv, TypeOK
  <2>3. Len(chan') = Len(chan) + 1
    BY <2>1, <2>2
  <2>4. Cardinality(asking') = Cardinality(asking) - 1
    BY <1>0, <2>1, FS_RemoveElement
  <2>5. ASSUME phase = "collect"
        PROVE  collected + (Len(chan) + 1) + (Cardinality(asking) - 1) = Len(toQuery)
    BY <1>0, <2>5 DEF AllCounted
  <2> QED BY <2>1, <2>3, <2>4, <2>5 DEF AllCounted
<1>6. CASE Start \/ Exhausted \/ LookupTimeout \/ EndRound \/ StoreReturns
  BY <1>1, <1>6 DEF Start, Exhausted, LookupTimeout, EndRound, StoreReturns, Finish, Ends
<1>7. ASSUME NEW n \in Node, StoredAt(n) \/ StoreFails(n) PROVE AllCounted'
  BY <1>2, <1>7 DEF StoredAt, StoreFails, lookup
<1>8. CASE UNCHANGED vars
  BY <1>2, <1>8 DEF vars, lookup
<1> QED BY <1>3, <1>4, <1>5, <1>6, <1>7, <1>8 DEF Next, Main

\* However the queries of a round end and whenever the lookup returns, no
\* goroutine stays behind on a channel that nobody reads, and the lookup never
\* waits for a result that nobody is left to send: what OperationReturns needs of
\* the channel (make(chan queryResult, len(toQuery))), for every Alpha and K.
THEOREM ChannelNeverBlocks == Spec => []NobodyBlocks
<1>1. Init => AllCounted
  BY DEF Init, AllCounted
<1>2. TypeInv /\ AllCounted /\ [Next]_vars => AllCounted'
  BY CountedStep
<1>3. TypeInv /\ [Next]_vars => TypeInv'
  BY TypeStep
<1>4. ASSUME TypeInv, AllCounted PROVE NobodyBlocks
  <2>0. /\ Len(toQuery) \in Nat /\ Len(chan) \in Nat /\ collected \in Nat
        /\ IsFiniteSet(asking) /\ Cardinality(asking) \in Nat
    BY <1>4, RoundCounts
  <2>1. ASSUME NEW i \in asking PROVE Len(chan) < ChanCap
    <3>1. Cardinality(asking) # 0
      BY <2>0, FS_EmptySet
    <3>2. collected + Len(chan) + Cardinality(asking) <= Len(toQuery)
      BY <1>4 DEF TypeInv, TypeOK
    <3> QED BY <2>0, <3>1, <3>2 DEF ChanCap
  <2>2. ASSUME phase = "collect", asking = {}, chan = <<>> PROVE RoundOver
    <3>1. Cardinality(asking) = 0 /\ Len(chan) = 0
      BY <2>2, FS_EmptySet
    <3>2. collected + Len(chan) + Cardinality(asking) = Len(toQuery)
      BY <1>4, <2>2 DEF AllCounted
    <3> QED BY <2>0, <3>1, <3>2 DEF RoundOver
  <2> QED BY <2>1, <2>2 DEF NobodyBlocks
<1> QED BY TypeInit, <1>1, <1>2, <1>3, <1>4, PTL DEF Spec

\* A lookup has at most as many rounds as there are nodes: in each it asks one
\* that it has not asked before, and it forgets none (the queried map of
\* iterativeFindNode and iterativeFindValue).
THEOREM RoundsAreFew == Spec => RoundsAskMore
<1>1. ASSUME TypeInv, [Next]_vars
      PROVE  [/\ queried \subseteq queried'
              /\ phase = "pick" /\ phase' = "collect" => queried' # queried]_vars
  <2>0. TypeOK /\ Stages
    BY <1>1 DEF TypeInv
  <2>1. CASE Start
    BY <2>0, <2>1 DEF Start, Stages
  <2>2. CASE Pick
    <3>1. /\ queried' = queried \cup Range(toQuery') /\ toQuery' = PickQueries(Unqueried)
          /\ Unqueried # <<>>
      BY <2>2 DEF Pick
    <3>2. Range(toQuery') # {} /\ Range(toQuery') \cap queried = {}
      BY <2>0, <3>1, PickResult
    <3> QED BY <3>1, <3>2
  <2>3. CASE Exhausted \/ Collect \/ LookupTimeout \/ EndRound \/ StoreReturns
    BY <2>3 DEF Exhausted, Collect, LookupTimeout, EndRound, StoreReturns, Finish, Ends, lookup
  <2>4. ASSUME NEW i \in 1 .. Alpha, Goroutine(i) PROVE UNCHANGED <<queried, phase>>
    BY <2>4 DEF Goroutine, Answered, Unanswered
  <2>5. ASSUME NEW n \in Node, StoredAt(n) \/ StoreFails(n) PROVE UNCHANGED <<queried, phase>>
    BY <2>5 DEF StoredAt, StoreFails, lookup
  <2> QED BY <1>1, <2>1, <2>2, <2>3, <2>4, <2>5 DEF Next, Main
<1>2. TypeInv /\ [Next]_vars => TypeInv'
  BY TypeStep
<1> QED BY TypeInit, <1>1, <1>2, PTL DEF Spec, RoundsAskMore

=============================================================================
