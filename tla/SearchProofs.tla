--------------------------- MODULE SearchProofs ----------------------------
(***************************************************************************)
(* The search engine, for every value of its constants: types, the counts  *)
(* of the keyword index, that results were searchable while their search   *)
(* ran, that exact matches are found, and that successive pages are of one *)
(* list.                                                                   *)
(***************************************************************************)
EXTENDS Search, SequenceTheorems, FiniteSetTheorems, NaturalsInduction,
        WellFoundedInduction, TLAPS

-----------------------------------------------------------------------------
(* Finite sets *)

\* A set of numbers that is not empty has a least one.
LEMMA LeastOf ==
    ASSUME NEW S \in SUBSET Nat, S # {}
    PROVE  /\ Min(S) \in S
           /\ \A x \in S : Min(S) <= x
<1> DEFINE T == {1..n : n \in S}
<1>1. T \subseteq FiniteSubsetsOf(Nat) /\ T # {}
  <2>1. ASSUME NEW n \in S PROVE 1..n \in FiniteSubsetsOf(Nat)
    BY FS_Interval DEF FiniteSubsetsOf
  <2> QED BY <2>1
<1>2. PICK t \in T : \A u \in T : ~(<<u, t>> \in StrictSubsetOrdering(Nat))
  BY <1>1, FS_StrictSubsetOrderingWellFounded, WFMin
<1>3. PICK x \in S : t = 1..x
  BY <1>2
<1>4. ASSUME NEW y \in S, y < x PROVE FALSE
  <2>1. 1..y \in SUBSET Nat /\ 1..x \in SUBSET Nat /\ 1..y \subseteq 1..x
    BY <1>4
  <2>2. x \in 1..x /\ x \notin 1..y
    BY <1>4
  <2>3. <<1..y, 1..x>> \in StrictSubsetOrdering(Nat)
    BY <2>1, <2>2 DEF StrictSubsetOrdering
  <2> QED BY <1>2, <1>3, <2>3
<1>5. \A y \in S : x <= y
  BY <1>4
<1> QED BY <1>5 DEF Min

\* The numbers of a finite set have a largest one.
LEMMA LargestOf ==
    ASSUME NEW S \in SUBSET Nat, S # {}, IsFiniteSet(S)
    PROVE  /\ Max(S) \in S
           /\ \A x \in S : x <= Max(S)
<1>1. PICK s \in Seq(S) : \A x \in S : \E n \in 1..Len(s) : s[n] = x
  BY DEF IsFiniteSet
<1>2. PICK l \in Nat : l = Len(s)
  BY <1>1, LenProperties
<1>3. \A n \in 1..l : s[n] \in Nat
  BY <1>1, <1>2, ElementOfSeq
<1> DEFINE Bounded(n) == \E b \in Nat : \A i \in 1..n : s[i] <= b
           Bad == {n \in 0..l : ~Bounded(n)}
<1> HIDE DEF Bounded
<1>4. Bounded(l)
  <2>1. SUFFICES ASSUME ~Bounded(l) PROVE FALSE
    OBVIOUS
  <2>a. l \in Bad /\ Bad # {}
    BY <1>2, <2>1
  <2>2. PICK m \in Bad : \A y \in Bad : m <= y
    <3>1. Bad \in SUBSET Nat
      BY <1>2
    <3> HIDE DEF Bad
    <3> QED BY <2>a, <3>1, LeastOf
  <2>3. m # 0
    <3>1. \A i \in 1..0 : s[i] <= 0
      OBVIOUS
    <3> QED BY <3>1, <2>2 DEF Bounded
  <2>4. m \in 1..l /\ m - 1 \in 0..l /\ m - 1 \notin Bad
    BY <2>2, <2>3, <1>2
  <2>5. Bounded(m - 1)
    BY <2>4
  <2>b. PICK b \in Nat : \A i \in 1..(m - 1) : s[i] <= b
    BY <2>5, Zenon DEF Bounded
  <2>6. PICK c \in Nat : c >= b /\ c >= s[m]
    <3>1. PICK v \in Nat : v = s[m]
      BY <2>4, <1>3
    <3>2. b + v \in Nat /\ b + v >= b /\ b + v >= v
      OBVIOUS
    <3> QED BY <3>1, <3>2
  <2>7. ASSUME NEW i \in 1..m PROVE s[i] <= c
    <3>1. i = m \/ i \in 1..(m - 1)
      BY <2>4
    <3>2. PICK v \in Nat : v = s[i]
      BY <2>4, <1>2, <1>3
    <3>3. v <= b \/ v <= c
      BY <2>b, <2>6, <3>1, <3>2
    <3>4. v <= c
      BY <2>6, <3>3
    <3> QED BY <3>2, <3>4
  <2> QED BY <2>2, <2>7 DEF Bounded
<1>5. PICK b \in Nat : \A x \in S : x <= b
  BY <1>1, <1>2, <1>4 DEF Bounded
<1> DEFINE U == {n \in Nat : \A x \in S : x <= n}
<1>6. PICK u \in U : \A y \in U : u <= y
  <2>1. U \in SUBSET Nat /\ U # {}
    BY <1>5
  <2> HIDE DEF U
  <2> QED BY <2>1, LeastOf
<1>7. u \in S
  <2>1. SUFFICES ASSUME u \notin S PROVE FALSE
    OBVIOUS
  <2>2. PICK x \in S : TRUE
    OBVIOUS
  <2>3. u - 1 \in U
    BY <1>6, <2>1, <2>2
  <2> QED BY <1>6, <2>3
<1>8. \A y \in S : u >= y
  BY <1>6
<1> QED BY <1>7, <1>8 DEF Max

\* A count of a set that changes at one element.
LEMMA Recount ==
    ASSUME NEW A, NEW B, NEW e, IsFiniteSet(A), A \ {e} = B \ {e}
    PROVE  /\ Cardinality(A) \in Nat /\ (e \in A => Cardinality(A) >= 1)
           /\ Cardinality(B) = Cardinality(A) - (IF e \in A THEN 1 ELSE 0)
                                              + (IF e \in B THEN 1 ELSE 0)
<1>1. Cardinality(A) \in Nat
  BY FS_CardinalityType
<1>2. /\ IsFiniteSet(A \ {e})
      /\ Cardinality(A \ {e}) = IF e \in A THEN Cardinality(A) - 1 ELSE Cardinality(A)
  BY FS_RemoveElement
<1>3. Cardinality(A \ {e}) \in Nat
  BY <1>2, FS_CardinalityType
<1>4. CASE e \in B
  <2>1. B = (A \ {e}) \cup {e} /\ e \notin A \ {e}
    BY <1>4
  <2>2. Cardinality((A \ {e}) \cup {e}) = Cardinality(A \ {e}) + 1
    BY <1>2, FS_AddElement
  <2> QED BY <1>1, <1>2, <1>3, <1>4, <2>1, <2>2
<1>5. CASE e \notin B
  <2>1. B = A \ {e}
    BY <1>5
  <2> QED BY <1>1, <1>2, <1>3, <1>5, <2>1
<1> QED BY <1>4, <1>5

-----------------------------------------------------------------------------
(* The index and the tables *)

\* A count of documents that changes at one entity.
LEMMA CountsKept ==
    ASSUME NEW docs \in [Entity -> Opt(Content)], NEW e \in Entity,
           NEW doc \in Opt(Content)
    PROVE  LET new == [docs EXCEPT ![e] = doc]
               all(d) == {x \in Entity : d[x] # None}
               terms(d) == {x \in Entity : HasTerm(d[x]) = 1}
           IN  /\ Cardinality(all(docs)) \in Nat
               /\ Cardinality(terms(docs)) \in Nat
               /\ Cardinality(all(docs)) >= Counted(docs[e])
               /\ Cardinality(terms(docs)) >= HasTerm(docs[e])
               /\ Cardinality(all(new)) =
                     Cardinality(all(docs)) - Counted(docs[e]) + Counted(doc)
               /\ Cardinality(terms(new)) =
                     Cardinality(terms(docs)) - HasTerm(docs[e]) + HasTerm(doc)
<1> DEFINE new == [docs EXCEPT ![e] = doc]
           all(d) == {x \in Entity : d[x] # None}
           terms(d) == {x \in Entity : HasTerm(d[x]) = 1}
<1>1. IsFiniteSet(all(docs)) /\ IsFiniteSet(terms(docs))
  BY SearchAssumption, FS_Subset
<1>2. /\ all(docs) \ {e} = all(new) \ {e}
      /\ terms(docs) \ {e} = terms(new) \ {e}
      /\ e \in all(docs) <=> docs[e] # None
      /\ e \in all(new) <=> doc # None
      /\ e \in terms(docs) <=> HasTerm(docs[e]) = 1
      /\ e \in terms(new) <=> HasTerm(doc) = 1
  BY Zenon
<1>3. HasTerm(docs[e]) \in {0, 1} /\ HasTerm(doc) \in {0, 1}
  BY DEF HasTerm
<1>4. /\ Cardinality(all(docs)) \in Nat
      /\ e \in all(docs) => Cardinality(all(docs)) >= 1
      /\ Cardinality(all(new)) = Cardinality(all(docs))
            - (IF e \in all(docs) THEN 1 ELSE 0) + (IF e \in all(new) THEN 1 ELSE 0)
  <2> HIDE DEF all, new
  <2> QED BY <1>1, <1>2, Recount
<1>5. /\ Cardinality(terms(docs)) \in Nat
      /\ e \in terms(docs) => Cardinality(terms(docs)) >= 1
      /\ Cardinality(terms(new)) = Cardinality(terms(docs))
            - (IF e \in terms(docs) THEN 1 ELSE 0) + (IF e \in terms(new) THEN 1 ELSE 0)
  <2> HIDE DEF terms, new
  <2> QED BY <1>1, <1>2, Recount
<1> HIDE DEF all, terms, new
<1>6. /\ Cardinality(all(docs)) >= Counted(docs[e])
      /\ Cardinality(all(new)) =
            Cardinality(all(docs)) - Counted(docs[e]) + Counted(doc)
  BY <1>2, <1>4 DEF Counted
<1>7. /\ Cardinality(terms(docs)) >= HasTerm(docs[e])
      /\ Cardinality(terms(new)) =
            Cardinality(terms(docs)) - HasTerm(docs[e]) + HasTerm(doc)
  BY <1>2, <1>3, <1>5
<1>8. Cardinality(all(docs)) \in Nat /\ Cardinality(terms(docs)) \in Nat
  BY <1>4, <1>5
<1> QED BY <1>6, <1>7, <1>8, Zenon DEF all, terms, new

\* An index whose counts agree with its documents.
Counts(idx) ==
    /\ idx.docCount = Cardinality({e \in Entity : idx.docs[e] # None})
    /\ idx.df = Cardinality({e \in Entity : HasTerm(idx.docs[e]) = 1})

LEMMA LessIsMinus ==
    ASSUME NEW df \in Nat, NEW n \in {0, 1}, df >= n
    PROVE  Less(df, n) = df - n
BY DEF Less

\* Indexing a document, new or in the place of another one.
LEMMA IndexDocumentCounts ==
    ASSUME NEW idx \in KeywordIndex, Counts(idx), NEW e \in Entity, NEW doc \in Content
    PROVE  /\ IndexDocument(idx, e, doc) \in KeywordIndex
           /\ Counts(IndexDocument(idx, e, doc))
<1>1. /\ idx.docs \in [Entity -> Opt(Content)]
      /\ idx.docCount \in Nat /\ idx.df \in Nat
  BY DEF KeywordIndex
<1>2. doc \in Opt(Content) /\ Counted(doc) = 1
  BY SearchAssumption DEF Opt, Counted
<1> DEFINE new == [idx.docs EXCEPT ![e] = doc]
           count(d) == Cardinality({x \in Entity : d[x] # None})
           term(d) == Cardinality({x \in Entity : HasTerm(d[x]) = 1})
<1>3. /\ count(idx.docs) >= Counted(idx.docs[e])
      /\ term(idx.docs) >= HasTerm(idx.docs[e])
      /\ count(new) = count(idx.docs) - Counted(idx.docs[e]) + Counted(doc)
      /\ term(new) = term(idx.docs) - HasTerm(idx.docs[e]) + HasTerm(doc)
  BY <1>1, <1>2, CountsKept, Zenon
<1>4. count(idx.docs) = idx.docCount /\ term(idx.docs) = idx.df
  BY DEF Counts
<1>5. /\ new \in [Entity -> Opt(Content)]
      /\ Counted(idx.docs[e]) \in {0, 1} /\ HasTerm(idx.docs[e]) \in {0, 1}
      /\ HasTerm(doc) \in {0, 1}
  BY <1>1, <1>2 DEF Counted, HasTerm
<1> HIDE DEF count, term, new
<1>6. Less(idx.df, HasTerm(idx.docs[e])) = idx.df - HasTerm(idx.docs[e])
  BY <1>1, <1>3, <1>4, <1>5, LessIsMinus
<1>7. PICK r : r = IndexDocument(idx, e, doc)
  OBVIOUS
<1>8. r = [docs |-> new, docCount |-> idx.docCount - Counted(idx.docs[e]) + 1,
           df |-> Less(idx.df, HasTerm(idx.docs[e])) + HasTerm(doc)]
  BY <1>7 DEF IndexDocument, new
<1>9. r.docs = new /\ r.docCount = count(new) /\ r.df = term(new)
  BY <1>1, <1>2, <1>3, <1>4, <1>5, <1>6, <1>8
<1>10. r \in KeywordIndex
  BY <1>1, <1>3, <1>4, <1>5, <1>6, <1>8 DEF KeywordIndex
<1>11. Counts(r)
  BY <1>9 DEF Counts, count, term
<1> QED BY <1>7, <1>10, <1>11

\* Removing the document of an entity, if there is one.
LEMMA RemoveDocumentCounts ==
    ASSUME NEW idx \in KeywordIndex, Counts(idx), NEW e \in Entity
    PROVE  /\ RemoveDocument(idx, e) \in KeywordIndex
           /\ Counts(RemoveDocument(idx, e))
<1>1. /\ idx.docs \in [Entity -> Opt(Content)]
      /\ idx.docCount \in Nat /\ idx.df \in Nat
  BY DEF KeywordIndex
<1>2. None \in Opt(Content) /\ Counted(None) = 0 /\ HasTerm(None) = 0
  BY DEF Opt, Counted, HasTerm
<1> DEFINE new == [idx.docs EXCEPT ![e] = None]
           count(d) == Cardinality({x \in Entity : d[x] # None})
           term(d) == Cardinality({x \in Entity : HasTerm(d[x]) = 1})
<1>3. /\ count(idx.docs) >= Counted(idx.docs[e])
      /\ term(idx.docs) >= HasTerm(idx.docs[e])
      /\ count(new) = count(idx.docs) - Counted(idx.docs[e]) + Counted(None)
      /\ term(new) = term(idx.docs) - HasTerm(idx.docs[e]) + HasTerm(None)
  BY <1>1, <1>2, CountsKept, Zenon
<1>4. count(idx.docs) = idx.docCount /\ term(idx.docs) = idx.df
  BY DEF Counts
<1>5. /\ new \in [Entity -> Opt(Content)]
      /\ Counted(idx.docs[e]) \in {0, 1} /\ HasTerm(idx.docs[e]) \in {0, 1}
  BY <1>1, <1>2 DEF Counted, HasTerm
<1> HIDE DEF count, term, new
<1>6. Less(idx.df, HasTerm(idx.docs[e])) = idx.df - HasTerm(idx.docs[e])
  BY <1>1, <1>3, <1>4, <1>5, LessIsMinus
<1>7. PICK r : r = RemoveDocument(idx, e)
  OBVIOUS
<1>8. r = [docs |-> new, docCount |-> idx.docCount - Counted(idx.docs[e]),
           df |-> Less(idx.df, HasTerm(idx.docs[e]))]
  BY <1>7 DEF RemoveDocument, new
<1>9. r.docs = new /\ r.docCount = count(new) /\ r.df = term(new)
  BY <1>1, <1>2, <1>3, <1>4, <1>5, <1>6, <1>8
<1>10. r \in KeywordIndex
  BY <1>1, <1>3, <1>4, <1>5, <1>6, <1>8 DEF KeywordIndex
<1>11. Counts(r)
  BY <1>9 DEF Counts, count, term
<1> QED BY <1>7, <1>10, <1>11

\* The index of a start counts the rows.
LEMMA RebuiltCounts ==
    ASSUME NEW table \in [Entity -> Opt(Row)]
    PROVE  /\ Rebuilt(table) \in KeywordIndex
           /\ Counts(Rebuilt(table))
           /\ Rebuilt(table).docs \in [Entity -> Opt(Content)]
<1> DEFINE docs == [e \in Entity |-> IF table[e] = None THEN None
                                     ELSE table[e].content]
           count(d) == Cardinality({x \in Entity : d[x] # None})
           term(d) == Cardinality({x \in Entity : HasTerm(d[x]) = 1})
<1>1. docs \in [Entity -> Opt(Content)]
  BY DEF Opt, Row
<1>2. count(docs) \in Nat /\ term(docs) \in Nat
  <2>1. IsFiniteSet({x \in Entity : docs[x] # None})
    BY SearchAssumption, FS_Subset
  <2>2. IsFiniteSet({x \in Entity : HasTerm(docs[x]) = 1})
    BY SearchAssumption, FS_Subset
  <2> QED BY <2>1, <2>2, FS_CardinalityType, Zenon
<1>3. PICK r : r = Rebuilt(table)
  OBVIOUS
<1>4. r = [docs |-> docs, docCount |-> count(docs), df |-> term(docs)]
  BY <1>3, Zenon DEF Rebuilt
<1> HIDE DEF count, term, docs
<1>5. r.docs = docs /\ r.docCount = count(docs) /\ r.df = term(docs)
  BY <1>4
<1>6. r \in KeywordIndex
  BY <1>1, <1>2, <1>4 DEF KeywordIndex
<1>7. Counts(r)
  BY <1>5 DEF Counts, count, term
<1> QED BY <1>1, <1>3, <1>5, <1>6, <1>7

-----------------------------------------------------------------------------
(* Types, by what they are about *)

TablesOK ==
    /\ embedder \in {"hash", "http"}
    /\ rows \in [Entity -> Opt(Row)]
    /\ gossip \in [Entity -> Opt(GossipRow)]

\* With the counts, without which docCount might leave the naturals.
IndexOK ==
    /\ keyword \in KeywordIndex /\ Counts(keyword)
    /\ vectors \in [Entity -> Opt(Content) \cup {Zero}]
    /\ work \in SUBSET Work
    /\ writes \in 0..MaxWrites

\* With what the division by the best keyword score needs, and the source that
\* the answers of peers are.
SearchOK ==
    search # None =>
        /\ search \in SearchState
        /\ IsFiniteSet(search.hits)
        /\ \A h \in search.hits : h.score > 0
        /\ search.federated = "done" => search.sources # << >>

AnswersOK ==
    /\ answers \in Seq(Answer)
    /\ lived \in SUBSET Entity /\ steadfast \in SUBSET Entity

TypeInv == TablesOK /\ IndexOK /\ SearchOK /\ AnswersOK

\* A search reads: only its own state moves, until it answers.
LEMMA StepAdvances ==
    ASSUME SearchStep
    PROVE  Advance \/ Respond
<1>1. SearchKeyword => Advance
  BY DEF SearchKeyword
<1>2. SearchVector => Advance
  BY DEF SearchVector
<1>3. MergeHits => Advance
  BY DEF MergeHits
<1>4. FinishLocal => Advance
  BY DEF FinishLocal
<1>5. SearchGossip => Advance
  BY DEF SearchGossip
<1>6. Federate => Advance
  BY DEF Federate
<1> QED BY <1>1, <1>2, <1>3, <1>4, <1>5, <1>6 DEF SearchStep

LEMMA SearchStepKeeps ==
    ASSUME SearchStep
    PROVE  UNCHANGED <<tables, indexes, work, writes>>
<1>1. Advance => UNCHANGED <<tables, indexes, work, writes>>
  BY DEF Advance
<1>2. Respond => UNCHANGED <<tables, indexes, work, writes>>
  BY Zenon DEF Respond
<1> QED BY <1>1, <1>2, StepAdvances

LEMMA TablesStep ==
    ASSUME TablesOK, Next
    PROVE  TablesOK'
<1> USE DEF TablesOK
<1>0. embedder' = embedder
  BY DEF Next
<1>1. ASSUME NEW e \in Owned, Handler(e) PROVE TablesOK'
  <2>1. e \in Entity
    BY SearchAssumption
  <2>2. CASE RegisterEntity(e)
    <3>1. PICK c \in Drafts :
             /\ rows' = [rows EXCEPT ![e] = [content |-> c, active |-> TRUE]]
             /\ gossip' = gossip
      BY <2>2 DEF RegisterEntity
    <3>2. [content |-> c, active |-> TRUE] \in Opt(Row)
      BY SearchAssumption DEF Row, Opt
    <3> QED BY <1>0, <2>1, <3>1, <3>2
  <2>3. CASE UpdateEntity(e)
    <3>1. PICK c \in Drafts : /\ rows[e] # None
                              /\ rows' = [rows EXCEPT ![e].content = c]
                              /\ gossip' = gossip
      BY <2>3 DEF UpdateEntity
    <3>2. [rows[e] EXCEPT !.content = c] \in Opt(Row)
      BY <2>1, <3>1, SearchAssumption DEF Row, Opt
    <3> QED BY <1>0, <2>1, <3>1, <3>2
  <2>4. CASE DeleteEntity(e)
    BY <1>0, <2>1, <2>4 DEF DeleteEntity, Opt
  <2>5. CASE SetStatus(e)
    <3>1. /\ rows[e] # None /\ rows' = [rows EXCEPT ![e].active = ~@]
          /\ gossip' = gossip
      BY <2>5 DEF SetStatus
    <3>2. [rows[e] EXCEPT !.active = ~@] \in Opt(Row)
      BY <2>1, <3>1 DEF Row, Opt
    <3> QED BY <1>0, <2>1, <3>1, <3>2
  <2> QED BY <1>1, <2>2, <2>3, <2>4, <2>5 DEF Handler
<1>2. ASSUME NEW e \in Foreign, HandleAnnouncement(e) PROVE TablesOK'
  <2>1. e \in Entity
    BY SearchAssumption
  <2>2. CASE ApplyGossip(e)
    <3>1. PICK c \in Drafts, s \in BOOLEAN :
             /\ gossip' = [gossip EXCEPT ![e] = [content |-> c, active |-> s,
                                                 tombstoned |-> FALSE]]
             /\ rows' = rows
      BY <2>2 DEF ApplyGossip
    <3>2. [content |-> c, active |-> s, tombstoned |-> FALSE] \in Opt(GossipRow)
      BY SearchAssumption DEF GossipRow, Opt
    <3> QED BY <1>0, <2>1, <3>1, <3>2
  <2>3. CASE TombstoneGossip(e)
    <3>1. /\ gossip[e] # None /\ gossip' = [gossip EXCEPT ![e].tombstoned = TRUE]
          /\ rows' = rows
      BY <2>3 DEF TombstoneGossip
    <3>2. [gossip[e] EXCEPT !.tombstoned = TRUE] \in Opt(GossipRow)
      BY <2>1, <3>1 DEF GossipRow, Opt
    <3> QED BY <1>0, <2>1, <3>1, <3>2
  <2> QED BY <1>2, <2>2, <2>3 DEF HandleAnnouncement
<1>3. ASSUME NEW w \in work, IndexKeyword(w) \/ IndexVector(w) PROVE TablesOK'
  BY <1>0, <1>3 DEF IndexKeyword, IndexVector, tables
<1>4. CASE Restart
  BY <1>0, <1>4 DEF Restart, tables
<1>5. CASE BeginSearch
  BY <1>0, <1>5 DEF BeginSearch, tables
<1>6. CASE search # None /\ SearchStep
  BY <1>0, <1>6, SearchStepKeeps DEF tables
<1> QED BY <1>1, <1>2, <1>3, <1>4, <1>5, <1>6 DEF Next

\* A write owes a piece of work to the indexes, or none.
LEMMA WriteKeeps ==
    ASSUME IndexOK, NEW owed \in SUBSET Work, Write(owed)
    PROVE  IndexOK'
<1>1. /\ keyword' = keyword /\ vectors' = vectors /\ work' = work \cup owed
      /\ writes < MaxWrites /\ writes' = writes + 1
  BY DEF Write, indexes
<1>2. writes' \in 0..MaxWrites
  BY <1>1, SearchAssumption DEF IndexOK
<1> QED BY <1>1, <1>2 DEF IndexOK, Counts

LEMMA OwedIsWork ==
    ASSUME IndexOK, NEW e \in Entity, NEW c \in Content
    PROVE  /\ IndexAgent(e, c) \in SUBSET Work
           /\ RemoveAgent(e) \in SUBSET Work
<1>1. writes \in Nat
  BY SearchAssumption DEF IndexOK
<1> QED BY <1>1 DEF IndexAgent, RemoveAgent, Work, Opt

LEMMA IndexStep ==
    ASSUME TablesOK, IndexOK, Next
    PROVE  IndexOK'
<1>1. ASSUME NEW e \in Owned, Handler(e) PROVE IndexOK'
  <2>1. e \in Entity
    BY SearchAssumption
  <2>2. CASE RegisterEntity(e)
    <3>1. PICK c \in Drafts : Write(IndexAgent(e, c))
      BY <2>2 DEF RegisterEntity
    <3> QED BY <2>1, <3>1, SearchAssumption, OwedIsWork, WriteKeeps
  <2>3. CASE UpdateEntity(e)
    <3>1. PICK c \in Drafts : Write(IndexAgent(e, c))
      BY <2>3 DEF UpdateEntity
    <3> QED BY <2>1, <3>1, SearchAssumption, OwedIsWork, WriteKeeps
  <2>4. CASE DeleteEntity(e)
    <3>1. Write(RemoveAgent(e)) /\ rows[e] # None
      BY <2>4 DEF DeleteEntity
    <3>2. rows[e].content \in Content
      BY <2>1, <3>1 DEF TablesOK, Opt, Row
    <3> QED BY <2>1, <3>1, <3>2, OwedIsWork, WriteKeeps
  <2>5. CASE SetStatus(e)
    BY <2>5, WriteKeeps DEF SetStatus
  <2> QED BY <1>1, <2>2, <2>3, <2>4, <2>5 DEF Handler
<1>2. ASSUME NEW e \in Foreign, HandleAnnouncement(e) PROVE IndexOK'
  <2>1. e \in Entity
    BY SearchAssumption
  <2>2. CASE ApplyGossip(e)
    <3>1. PICK c \in Drafts : Write(IndexAgent(e, c))
      BY <2>2 DEF ApplyGossip
    <3> QED BY <2>1, <3>1, SearchAssumption, OwedIsWork, WriteKeeps
  <2>3. CASE TombstoneGossip(e)
    BY <2>3, WriteKeeps DEF TombstoneGossip
  <2> QED BY <1>2, <2>2, <2>3 DEF HandleAnnouncement
<1>3. ASSUME NEW w \in work, IndexKeyword(w) PROVE IndexOK'
  <2>1. w \in Work /\ w.entity \in Entity /\ w.doc \in Opt(Content)
    BY DEF IndexOK, Work
  <2>2. /\ keyword' = IF w.doc = None THEN RemoveDocument(keyword, w.entity)
                      ELSE IndexDocument(keyword, w.entity, w.doc)
        /\ work' = (work \ {w}) \cup {[w EXCEPT !.next = "vector"]}
        /\ vectors' = vectors /\ writes' = writes
    BY <1>3 DEF IndexKeyword
  <2>3. [w EXCEPT !.next = "vector"] \in Work
    BY <2>1 DEF Work
  <2>4. keyword' \in KeywordIndex /\ Counts(keyword')
    <3>1. CASE w.doc = None
      BY <2>1, <2>2, <3>1, RemoveDocumentCounts DEF IndexOK
    <3>2. CASE w.doc # None
      <4>1. w.doc \in Content
        BY <2>1, <3>2 DEF Opt
      <4> QED BY <2>1, <2>2, <3>2, <4>1, IndexDocumentCounts DEF IndexOK
    <3> QED BY <3>1, <3>2
  <2>5. Counts(keyword)'
    BY <2>4 DEF Counts
  <2> QED BY <2>2, <2>3, <2>4, <2>5 DEF IndexOK
<1>4. ASSUME NEW w \in work, IndexVector(w) PROVE IndexOK'
  <2>1. w \in Work /\ w.entity \in Entity /\ w.doc \in Opt(Content)
    BY DEF IndexOK, Work
  <2>2. PICK v \in IF w.doc = None THEN {None} ELSE Embed(w.doc) :
           vectors' = [vectors EXCEPT ![w.entity] = v]
    BY <1>4 DEF IndexVector
  <2>3. v \in Opt(Content) \cup {Zero}
    BY <2>1, <2>2 DEF Embed, Opt
  <2>4. work' = work \ {w} /\ keyword' = keyword /\ writes' = writes
    BY <1>4 DEF IndexVector
  <2> QED BY <2>1, <2>2, <2>3, <2>4 DEF IndexOK, Counts
<1>5. CASE Restart
  <2>1. /\ keyword' = Rebuilt(rows) /\ vectors' = keyword'.docs /\ work' = {}
        /\ writes < MaxWrites /\ writes' = writes + 1
    BY <1>5 DEF Restart
  <2>2. writes' \in 0..MaxWrites
    BY <2>1, SearchAssumption DEF IndexOK
  <2>3. /\ keyword' \in KeywordIndex /\ Counts(keyword')
        /\ keyword'.docs \in [Entity -> Opt(Content)]
    BY <2>1, RebuiltCounts DEF TablesOK
  <2>4. Counts(keyword)'
    BY <2>3 DEF Counts
  <2>5. vectors' \in [Entity -> Opt(Content) \cup {Zero}]
    BY <2>1, <2>3
  <2> QED BY <2>1, <2>2, <2>3, <2>4, <2>5 DEF IndexOK
<1>6. CASE BeginSearch
  BY <1>6 DEF BeginSearch, indexes, IndexOK, Counts
<1>7. CASE search # None /\ SearchStep
  BY <1>7, SearchStepKeeps DEF indexes, IndexOK, Counts
<1> QED BY <1>1, <1>2, <1>3, <1>4, <1>5, <1>6, <1>7 DEF Next

-----------------------------------------------------------------------------
(* What the steps of a search produce *)

LEMMA ScoreIsNat ==
    ASSUME NEW hits \in SUBSET Hit, NEW e
    PROVE  ScoreIn(hits, e) \in Nat
<1>1. CASE \E h \in hits : h.id = e
  <2>1. (CHOOSE h \in hits : h.id = e) \in hits
    BY <1>1
  <2> QED BY <2>1, <1>1 DEF ScoreIn, Hit
<1>2. CASE ~\E h \in hits : h.id = e
  BY <1>2 DEF ScoreIn
<1> QED BY <1>1, <1>2

\* The keyword hits are finitely many and their scores positive.
LEMMA KeywordHitsOK ==
    ASSUME IndexOK, NEW req
    PROVE  /\ KeywordHits(req) \in SUBSET Hit
           /\ IsFiniteSet(KeywordHits(req))
           /\ \A h \in KeywordHits(req) : h.score > 0
<1>0. keyword.docs \in [Entity -> Opt(Content)]
  BY DEF IndexOK, KeywordIndex
<1> DEFINE X == {x \in Entity : HasTerm(keyword.docs[x]) = 1}
           f == [e \in X |-> [id |-> e, score |-> Bm25[keyword.docs[e]]]]
           R == {[id |-> e, score |-> Bm25[keyword.docs[e]]] : e \in X}
<1>1. ASSUME NEW e \in X
      PROVE  /\ e \in Entity
             /\ Bm25[keyword.docs[e]] \in Nat /\ Bm25[keyword.docs[e]] > 0
  BY <1>0, SearchAssumption DEF HasTerm, Opt
<1>2. R \in SUBSET Hit /\ \A h \in R : h.score > 0
  BY <1>1 DEF Hit
<1>3. IsFiniteSet(R)
  <2>1. IsFiniteSet(X)
    BY SearchAssumption, FS_Subset
  <2>2. f \in Surjection(X, R)
    <3>1. f \in [X -> R] /\ \A r \in R : \E x \in X : f[x] = r
      OBVIOUS
    <3> QED BY <3>1 DEF Surjection
  <2> HIDE DEF f, X, R
  <2> QED BY <2>1, <2>2, FS_Surjection
<1>4. KeywordHits(req) = R \/ KeywordHits(req) = {}
  BY DEF KeywordHits
<1>5. IsFiniteSet({}) /\ {} \in SUBSET Hit /\ \A h \in {} : h.score > 0
  BY FS_EmptySet
<1> QED BY <1>2, <1>3, <1>4, <1>5

LEMMA VectorHitsOK ==
    ASSUME IndexOK, NEW req
    PROVE  VectorHits(req) \in SUBSET Hit
<1>1. ASSUME NEW e \in Entity, Similarity(vectors[e]) > 0
      PROVE  [id |-> e, score |-> Similarity(vectors[e])] \in Hit
  <2>1. Similarity(vectors[e]) \in Int
    BY SearchAssumption DEF Similarity
  <2> QED BY <1>1, <2>1 DEF Hit
<1> QED BY <1>1 DEF VectorHits

LEMMA LocalIsCandidate ==
    ASSUME TablesOK, NEW e \in Entity, rows[e] # None, NEW t \in Nat, NEW s \in Int
    PROVE  Local(e, t, s) \in Candidate
<1>1. rows[e].content \in Content
  BY DEF TablesOK, Opt, Row
<1>2. TypeOf[rows[e].content] \in Opt(EntityType)
  BY <1>1 DEF Opt, EntityType
<1> QED BY <1>2 DEF Local, Candidate

\* The score of a hit against the best one, of which there is one.
LEMMA NormalisedIsNat ==
    ASSUME NEW hits \in SUBSET Hit, IsFiniteSet(hits), NEW h \in hits,
           \A k \in hits : k.score > 0
    PROVE  Normalised(hits, h) \in Nat
<1> DEFINE S == {k.score : k \in hits}
           f == [k \in hits |-> k.score]
<1>1. S \in SUBSET Nat /\ S # {} /\ \A x \in S : x > 0
  BY DEF Hit
<1>2. IsFiniteSet(S)
  <2>1. f \in Surjection(hits, S)
    <3>1. f \in [hits -> S] /\ \A r \in S : \E x \in hits : f[x] = r
      OBVIOUS
    <3> QED BY <3>1 DEF Surjection
  <2> HIDE DEF f, S
  <2> QED BY <2>1, FS_Surjection
<1>3. Max(S) \in Nat /\ Max(S) > 0
  <2> HIDE DEF S
  <2>1. Max(S) \in S
    BY <1>1, <1>2, LargestOf
  <2> QED BY <1>1, <2>1
<1>4. h.score \in Nat
  BY DEF Hit
<1>5. \A a, b \in Nat : b > 0 => (10 * a) \div b \in Nat
  OBVIOUS
<1> HIDE DEF S
<1>6. (10 * h.score) \div Max(S) \in Nat
  BY <1>3, <1>4, <1>5
<1> QED BY <1>6 DEF Normalised, S

LEMMA MergeOK ==
    ASSUME TablesOK, SearchOK, search # None
    PROVE  Merge \in SUBSET Candidate
<1> DEFINE ids == {h.id : h \in search.hits \cup search.near}
           text(e) == IF ~\E h \in search.hits : h.id = e THEN 0
                      ELSE IF IsExactMatch(search.req, e) THEN 25
                      ELSE Normalised(search.hits,
                                      CHOOSE h \in search.hits : h.id = e)
<1>1. search.hits \in SUBSET Hit /\ search.near \in SUBSET Hit
  BY DEF SearchOK, SearchState
<1>2. ids \subseteq Entity
  BY <1>1 DEF Hit
<1>3. ASSUME NEW e \in ids, Listed(search.req, e)
      PROVE  Local(e, text(e), ScoreIn(search.near, e)) \in Candidate
  <2>1. text(e) \in Nat
    <3>1. CASE \E h \in search.hits : h.id = e
      <4>1. PICK k \in search.hits : k = CHOOSE h \in search.hits : h.id = e
        BY <3>1
      <4>2. Normalised(search.hits, k) \in Nat
        BY <1>1, NormalisedIsNat DEF SearchOK
      <4> QED BY <3>1, <4>1, <4>2
    <3>2. CASE ~\E h \in search.hits : h.id = e
      BY <3>2
    <3> QED BY <3>1, <3>2
  <2>2. ScoreIn(search.near, e) \in Int
    BY <1>1, ScoreIsNat
  <2>3. e \in Entity /\ rows[e] # None
    BY <1>2, <1>3 DEF Listed
  <2> HIDE DEF text
  <2> QED BY <2>1, <2>2, <2>3, LocalIsCandidate
<1>4. Merge = {Local(e, text(e), ScoreIn(search.near, e)) :
                  e \in {x \in ids : Listed(search.req, x)}}
  BY Zenon DEF Merge
<1> HIDE DEF text, ids
<1> QED BY <1>3, <1>4

LEMMA ListPassOK ==
    ASSUME TablesOK, SearchOK, search # None, NEW E \in SUBSET Entity
    PROVE  ListPass(E) \in SUBSET Candidate
<1> DEFINE qualifies(e) == Listed(search.req, e)
                           /\ (~search.req.query \/ IsExactMatch(search.req, e))
           known == {c.id : c \in search.found}
<1>1. search.found \in SUBSET Candidate
  BY DEF SearchOK, SearchState
<1>2. ASSUME NEW c \in search.found
      PROVE  c \in Candidate /\ [c EXCEPT !.text = 25] \in Candidate
  BY <1>1 DEF Candidate
<1>3. ASSUME NEW e \in E, qualifies(e)
      PROVE  Local(e, 25, 0) \in Candidate
  <2>1. rows[e] # None
    BY <1>3 DEF Listed
  <2> QED BY <2>1, LocalIsCandidate
<1>4. ListPass(E) =
        {IF c.id \in E /\ qualifies(c.id) THEN [c EXCEPT !.text = 25] ELSE c :
            c \in search.found}
        \cup {Local(e, 25, 0) : e \in {x \in E : qualifies(x)} \ known}
  BY Zenon DEF ListPass
<1> HIDE DEF qualifies, known
<1> QED BY <1>2, <1>3, <1>4

\* The source that the gossip goroutine adds.
LEMMA GossipSource ==
    ASSUME TablesOK, SearchOK, IndexOK, search # None, SearchGossip
    PROVE  \E S \in SUBSET Candidate :
              /\ \A c \in S : Visible(c.id) /\ gossip[c.id].active
              /\ search' = [search EXCEPT !.sources = Append(@, S),
                                          !.gossip = "done"]
<1>1. PICK E \in SUBSET {e \in Entity : Visible(e)} :
      \E first \in [E -> Top(KeywordHits(search.req), 1)], fails \in [E -> Fails] :
         search' = [search EXCEPT
            !.sources = Append(@, {[id |-> e, type |-> TypeOf[gossip[e].content],
                 text |-> ScoreIn(first[e], e),
                 semantic |-> IF fails[e] \/ ~search.req.query THEN 0
                              ELSE Cosine[gossip[e].content],
                 trust |-> 3, dated |-> TRUE, avail |-> 9] : e \in
                    {x \in E : /\ gossip[x].active
                               /\ Wanted(search.req, TypeOf[gossip[x].content])}}),
            !.gossip = "done"]
  <2> DEFINE entries == {e \in Entity : Visible(e) /\
                            (~search.req.query \/ Bm25[gossip[e].content] > 0)}
             T == Top(KeywordHits(search.req), 1)
             After(first, fails, E) == search' = [search EXCEPT
                !.sources = Append(@, {[id |-> e, type |-> TypeOf[gossip[e].content],
                     text |-> ScoreIn(first[e], e),
                     semantic |-> IF fails[e] \/ ~search.req.query THEN 0
                                  ELSE Cosine[gossip[e].content],
                     trust |-> 3, dated |-> TRUE, avail |-> 9] : e \in
                        {x \in E : /\ gossip[x].active
                                   /\ Wanted(search.req, TypeOf[gossip[x].content])}}),
                !.gossip = "done"]
  <2>1. \E E \in SearchGossipByKeyword(search.req) :
           \E first \in [E -> T], fails \in [E -> Fails] : After(first, fails, E)
    BY Zenon DEF SearchGossip
  <2>2. SearchGossipByKeyword(search.req) \subseteq SUBSET {e \in Entity : Visible(e)}
    <3>1. SearchGossipByKeyword(search.req)
            = kSubset(Min({Limit, Cardinality(entries)}), entries)
      BY Zenon DEF SearchGossipByKeyword
    <3>2. \A n : kSubset(n, entries) \subseteq SUBSET {e \in Entity : Visible(e)}
      BY DEF kSubset
    <3> HIDE DEF entries
    <3> QED BY <3>1, <3>2
  <2> HIDE DEF entries, T, After
  <2>3. \E E \in SUBSET {e \in Entity : Visible(e)} :
           \E first \in [E -> T], fails \in [E -> Fails] : After(first, fails, E)
    BY <2>1, <2>2, Zenon
  <2> QED BY <2>3, Zenon DEF T, After
<1>p. PICK first \in [E -> Top(KeywordHits(search.req), 1)], fails \in [E -> Fails] :
         search' = [search EXCEPT
            !.sources = Append(@, {[id |-> e, type |-> TypeOf[gossip[e].content],
                 text |-> ScoreIn(first[e], e),
                 semantic |-> IF fails[e] \/ ~search.req.query THEN 0
                              ELSE Cosine[gossip[e].content],
                 trust |-> 3, dated |-> TRUE, avail |-> 9] : e \in
                    {x \in E : /\ gossip[x].active
                               /\ Wanted(search.req, TypeOf[gossip[x].content])}}),
            !.gossip = "done"]
  BY <1>1, Zenon
<1> DEFINE Y == {x \in E : /\ gossip[x].active
                           /\ Wanted(search.req, TypeOf[gossip[x].content])}
           cand(e) == [id |-> e, type |-> TypeOf[gossip[e].content],
                       text |-> ScoreIn(first[e], e),
                       semantic |-> IF fails[e] \/ ~search.req.query THEN 0
                                    ELSE Cosine[gossip[e].content],
                       trust |-> 3, dated |-> TRUE, avail |-> 9]
           S == {cand(e) : e \in Y}
<1>2. \A e \in E : first[e] \in SUBSET Hit
  BY <1>p, KeywordHitsOK DEF Top
<1>3. ASSUME NEW e \in Y
      PROVE  /\ cand(e) \in Candidate /\ cand(e).id = e
             /\ Visible(e) /\ gossip[e].active
  <2>1. e \in Entity /\ Visible(e) /\ gossip[e].active
    BY <1>1
  <2>2. gossip[e].content \in Content
    BY <2>1 DEF Visible, TablesOK, Opt, GossipRow
  <2>3. TypeOf[gossip[e].content] \in Opt(EntityType)
    BY <2>2 DEF Opt, EntityType
  <2>4. ScoreIn(first[e], e) \in Nat
    BY <1>2, ScoreIsNat
  <2>5. (IF fails[e] \/ ~search.req.query THEN 0 ELSE Cosine[gossip[e].content]) \in Int
    BY <2>2, SearchAssumption
  <2>6. cand(e) \in Candidate
    BY <2>1, <2>3, <2>4, <2>5 DEF Candidate
  <2> QED BY <2>1, <2>6
<1>4. search' = [search EXCEPT !.sources = Append(@, S), !.gossip = "done"]
  BY <1>p, Zenon
<1> HIDE DEF cand, Y
<1>5. S \in SUBSET Candidate /\ \A c \in S : Visible(c.id) /\ gossip[c.id].active
  BY <1>3
<1> HIDE DEF S
<1> QED BY <1>4, <1>5, Zenon

\* The source made of the answers of peers.
LEMMA PeerSource ==
    ASSUME Federate
    PROVE  \E S \in SUBSET Candidate :
              /\ \A c \in S : Remote[c.id] # None
              /\ search' = [search EXCEPT !.sources = Append(@, S),
                                          !.federated = "done"]
<1>1. PICK E \in SUBSET {e \in Entity : Remote[e] # None} :
         search' = [search EXCEPT
              !.sources = Append(@, {[id |-> e, type |-> None, text |-> 0,
                  semantic |-> 0, trust |-> 3, dated |-> FALSE, avail |-> 7] :
                     e \in {x \in E : Wanted(search.req, TypeOf[Remote[x]])}}),
              !.federated = "done"]
  BY Zenon DEF Federate
<1> DEFINE Y == {x \in E : Wanted(search.req, TypeOf[Remote[x]])}
           cand(e) == [id |-> e, type |-> None, text |-> 0, semantic |-> 0,
                       trust |-> 3, dated |-> FALSE, avail |-> 7]
           S == {cand(e) : e \in Y}
<1>2. ASSUME NEW e \in Y
      PROVE  cand(e) \in Candidate /\ cand(e).id = e /\ Remote[e] # None
  BY <1>1 DEF Candidate, Opt
<1>3. search' = [search EXCEPT !.sources = Append(@, S), !.federated = "done"]
  BY <1>1, Zenon
<1> HIDE DEF cand, Y
<1>4. S \in SUBSET Candidate /\ \A c \in S : Remote[c.id] # None
  BY <1>2
<1> HIDE DEF S
<1> QED BY <1>3, <1>4, Zenon

LEMMA SearchStateStep ==
    ASSUME TablesOK, IndexOK, SearchOK, Next
    PROVE  SearchOK'
<1>0. search # None =>
        /\ search \in SearchState /\ IsFiniteSet(search.hits)
        /\ \A h \in search.hits : h.score > 0
        /\ search.sources \in Seq(SUBSET Candidate)
        /\ search.federated = "done" => search.sources # << >>
  BY DEF SearchOK, SearchState
<1>1. CASE Disturb
  BY <1>0, <1>1 DEF Disturb, SearchOK, SearchState, Opt
<1>2. CASE Restart
  BY <1>2 DEF Restart, SearchOK
<1>3. CASE BeginSearch
  <2>1. PICK req \in Requests, st \in Opt(Nat) :
           search' = [local |-> "keyword", gossip |-> "read",
                  federated |-> "ask", req |-> req, hits |-> {}, near |-> {},
                  found |-> {}, sources |-> << >>, stamp |-> st]
    <3>1. (IF work = {} THEN writes ELSE None) \in Opt(Nat)
      BY SearchAssumption DEF IndexOK, Opt
    <3> QED BY <1>3, <3>1 DEF BeginSearch
  <2>2. req \in Request
    BY SearchAssumption
  <2>3. /\ search' \in SearchState /\ search'.hits = {}
        /\ search'.federated = "done" => search'.sources # << >>
    BY <2>1, <2>2 DEF SearchState
  <2> QED BY <2>3, FS_EmptySet DEF SearchOK
<1>4. ASSUME search # None, SearchKeyword PROVE SearchOK'
  <2>1. PICK T \in SUBSET KeywordHits(search.req) :
           search' = [search EXCEPT !.hits = T, !.local = "vector"]
    <3>1. PICK T \in Top(KeywordHits(search.req), Limit) :
             search' = [search EXCEPT !.hits = T, !.local = "vector"]
      BY <1>4, Zenon DEF SearchKeyword
    <3>2. T \in SUBSET KeywordHits(search.req)
      BY <3>1, Zenon DEF Top
    <3> QED BY <3>1, <3>2, Zenon
  <2>2. T \in SUBSET Hit /\ IsFiniteSet(T) /\ \A h \in T : h.score > 0
    BY <2>1, KeywordHitsOK, FS_Subset
  <2>3. /\ search' \in SearchState /\ search'.hits = T
        /\ search'.federated = "done" => search'.sources # << >>
    BY <1>0, <1>4, <2>1, <2>2 DEF SearchState
  <2> QED BY <2>2, <2>3 DEF SearchOK
<1>5. ASSUME search # None, SearchVector PROVE SearchOK'
  <2>1. PICK T \in SUBSET Hit :
           search' = [search EXCEPT !.near = T, !.local = "merge"]
    <3>1. PICK fails \in Fails :
             \E T \in Top(IF fails THEN {} ELSE VectorHits(search.req), Limit) :
                search' = [search EXCEPT !.near = T, !.local = "merge"]
      BY <1>5, Zenon DEF SearchVector
    <3>2. (IF fails THEN {} ELSE VectorHits(search.req)) \in SUBSET Hit
      BY VectorHitsOK
    <3>3. PICK T \in Top(IF fails THEN {} ELSE VectorHits(search.req), Limit) :
             search' = [search EXCEPT !.near = T, !.local = "merge"]
      BY <3>1, Zenon
    <3>4. T \in SUBSET Hit
      BY <3>2, <3>3 DEF Top
    <3> QED BY <3>3, <3>4, Zenon
  <2>2. /\ search' \in SearchState /\ search'.hits = search.hits
        /\ search'.federated = "done" => search'.sources # << >>
    BY <1>0, <1>5, <2>1 DEF SearchState
  <2> QED BY <1>0, <1>5, <2>2 DEF SearchOK
<1>6. ASSUME search # None, MergeHits PROVE SearchOK'
  <2>1. PICK M \in SUBSET Candidate :
           search' = [search EXCEPT !.found = M, !.local = "list"]
    BY <1>6, MergeOK, Zenon DEF MergeHits
  <2>2. /\ search' \in SearchState /\ search'.hits = search.hits
        /\ search'.federated = "done" => search'.sources # << >>
    BY <1>0, <1>6, <2>1 DEF SearchState
  <2> QED BY <1>0, <1>6, <2>2 DEF SearchOK
<1>7. ASSUME search # None, FinishLocal PROVE SearchOK'
  <2>1. PICK S \in SUBSET Candidate :
           search' = [search EXCEPT !.sources = Append(@, S),
                                   !.found = {}, !.hits = {}, !.near = {},
                                   !.local = "done"]
    <3>1. PICK E \in ListEntities :
             search' = [search EXCEPT !.sources = Append(@, ListPass(E)),
                                   !.found = {}, !.hits = {}, !.near = {},
                                   !.local = "done"]
      BY <1>7, Zenon DEF FinishLocal
    <3>2. ListPass(E) \in SUBSET Candidate
      BY <1>7, ListPassOK DEF ListEntities
    <3> QED BY <3>1, <3>2, Zenon
  <2>2. /\ Append(search.sources, S) \in Seq(SUBSET Candidate)
        /\ Append(search.sources, S) # << >>
    BY <1>0, <1>7, AppendProperties
  <2>3. /\ search' \in SearchState /\ search'.hits = {}
        /\ search'.federated = "done" => search'.sources # << >>
    BY <1>0, <1>7, <2>1, <2>2 DEF SearchState
  <2> QED BY <2>3, FS_EmptySet DEF SearchOK
<1>8. ASSUME search # None, SearchGossip PROVE SearchOK'
  <2>1. PICK S \in SUBSET Candidate :
           search' = [search EXCEPT !.sources = Append(@, S), !.gossip = "done"]
    BY <1>8, GossipSource, Zenon
  <2>2. /\ Append(search.sources, S) \in Seq(SUBSET Candidate)
        /\ Append(search.sources, S) # << >>
    BY <1>0, <1>8, AppendProperties
  <2>3. /\ search' \in SearchState /\ search'.hits = search.hits
        /\ search'.federated = "done" => search'.sources # << >>
    BY <1>0, <1>8, <2>1, <2>2 DEF SearchState
  <2> QED BY <1>0, <1>8, <2>3 DEF SearchOK
<1>9. ASSUME search # None, Federate PROVE SearchOK'
  <2>1. PICK S \in SUBSET Candidate :
           search' = [search EXCEPT !.sources = Append(@, S), !.federated = "done"]
    BY <1>9, PeerSource, Zenon
  <2>2. /\ Append(search.sources, S) \in Seq(SUBSET Candidate)
        /\ Append(search.sources, S) # << >>
    BY <1>0, <1>9, AppendProperties
  <2>3. /\ search' \in SearchState /\ search'.hits = search.hits
        /\ search'.federated = "done" => search'.sources # << >>
    BY <1>0, <1>9, <2>1, <2>2 DEF SearchState
  <2> QED BY <1>0, <1>9, <2>3 DEF SearchOK
<1>10. CASE Respond
  <2>1. search' = None
    BY <1>10, Zenon DEF Respond
  <2> QED BY <2>1 DEF SearchOK
<1> QED BY <1>1, <1>2, <1>3, <1>4, <1>5, <1>6, <1>7, <1>8, <1>9, <1>10 DEF Next, SearchStep

-----------------------------------------------------------------------------
(* The answer *)

\* What Respond makes of the sources: the candidates that pass the type
\* filter, and what is left of them after deduplication and threshold.
Shown == [i \in DOMAIN search.sources |->
            {c \in search.sources[i] : Wanted(search.req, c.type)}]
ShownIds == {c.id : c \in UNION {Shown[i] : i \in DOMAIN Shown}}
Survivors(fresh) ==
    {c \in {Deduplicate(Shown, e) : e \in ShownIds} : Clamped(fresh, c) >= MinScore}

LEMMA MinOfTwo ==
    ASSUME NEW a \in Nat, NEW b \in Nat
    PROVE  Min({a, b}) \in Nat /\ Min({a, b}) <= a /\ Min({a, b}) <= b
<1>1. {a, b} \in SUBSET Nat /\ {a, b} # {}
  OBVIOUS
<1>2. Min({a, b}) \in {a, b} /\ \A x \in {a, b} : Min({a, b}) <= x
  BY <1>1, LeastOf
<1> QED BY <1>2

\* Deduplicate picks a candidate of the entity from the first source with one.
LEMMA FirstIsPicked ==
    ASSUME SearchOK, search # None, NEW e \in ShownIds
    PROVE  \E i \in DOMAIN search.sources :
              /\ Deduplicate(Shown, e) \in search.sources[i]
              /\ Wanted(search.req, Deduplicate(Shown, e).type)
              /\ Deduplicate(Shown, e).id = e
              /\ \A j \in DOMAIN search.sources : \A c \in search.sources[j] :
                    c.id = e /\ Wanted(search.req, c.type) => i <= j
<1>1. search.sources \in Seq(SUBSET Candidate)
  BY DEF SearchOK, SearchState
<1>2. PICK n \in Nat : DOMAIN search.sources = 1..n
  BY <1>1, LenProperties
<1> DEFINE D == {j \in DOMAIN Shown : \E c \in Shown[j] : c.id = e}
<1>3. DOMAIN Shown = 1..n
  BY <1>2 DEF Shown
<1>4. D \in SUBSET Nat /\ D # {}
  BY <1>2, <1>3 DEF ShownIds
<1>5. PICK i \in D : i = Min(D) /\ \A j \in D : i <= j
  <2> HIDE DEF D
  <2> QED BY <1>4, LeastOf
<1>6. Deduplicate(Shown, e) = CHOOSE c \in Shown[i] : c.id = e
  BY <1>5, Zenon DEF Deduplicate
<1>7. Deduplicate(Shown, e) \in Shown[i] /\ Deduplicate(Shown, e).id = e
  BY <1>5, <1>6
<1>8. /\ i \in DOMAIN search.sources
      /\ Deduplicate(Shown, e) \in search.sources[i]
      /\ Wanted(search.req, Deduplicate(Shown, e).type)
  BY <1>2, <1>3, <1>5, <1>7, Zenon DEF Shown
<1>9. ASSUME NEW j \in DOMAIN search.sources, NEW c \in search.sources[j],
             c.id = e, Wanted(search.req, c.type)
      PROVE  i <= j
  <2>1. j \in DOMAIN Shown /\ c \in Shown[j]
    BY <1>9, Zenon DEF Shown
  <2>2. j \in D
    BY <1>9, <2>1
  <2> QED BY <1>5, <2>2
<1> QED BY <1>7, <1>8, <1>9

LEMMA ShownAreEntities ==
    ASSUME SearchOK, search # None
    PROVE  ShownIds \in SUBSET Entity
<1>1. search.sources \in Seq(SUBSET Candidate)
  BY DEF SearchOK, SearchState
<1>2. \A i \in DOMAIN search.sources : search.sources[i] \in SUBSET Candidate
  BY <1>1, ElementOfSeq, LenProperties
<1>3. \A j \in DOMAIN Shown : Shown[j] \in SUBSET Candidate
  BY <1>2, Zenon DEF Shown
<1>4. \A c \in Candidate : c.id \in Entity
  BY DEF Candidate
<1> QED BY <1>3, <1>4 DEF ShownIds

LEMMA SurvivorsOK ==
    ASSUME SearchOK, search # None, NEW fresh
    PROVE  /\ IsFiniteSet(Survivors(fresh)) /\ Survivors(fresh) \in SUBSET Candidate
           /\ \A c \in Survivors(fresh) :
                 \E i \in DOMAIN search.sources : c \in search.sources[i]
<1>1. search.sources \in Seq(SUBSET Candidate)
  BY DEF SearchOK, SearchState
<1>2. \A i \in DOMAIN search.sources : search.sources[i] \in SUBSET Candidate
  BY <1>1, ElementOfSeq, LenProperties
<1> DEFINE C == {Deduplicate(Shown, e) : e \in ShownIds}
           f == [e \in ShownIds |-> Deduplicate(Shown, e)]
<1>3. ShownIds \in SUBSET Entity
  BY ShownAreEntities
<1>4. IsFiniteSet(ShownIds)
  BY <1>3, SearchAssumption, FS_Subset
<1>5. f \in Surjection(ShownIds, C)
  <2>1. f \in [ShownIds -> C] /\ \A c \in C : \E e \in ShownIds : f[e] = c
    OBVIOUS
  <2> QED BY <2>1 DEF Surjection
<1>6. IsFiniteSet(C)
  <2> HIDE DEF f, C
  <2> QED BY <1>4, <1>5, FS_Surjection
<1>7. Survivors(fresh) \in SUBSET C
  BY DEF Survivors
<1>8. IsFiniteSet(Survivors(fresh))
  <2> HIDE DEF C
  <2> QED BY <1>6, <1>7, FS_Subset
<1>9. ASSUME NEW c \in Survivors(fresh)
      PROVE  \E i \in DOMAIN search.sources : c \in search.sources[i]
  <2>1. PICK e \in ShownIds : c = Deduplicate(Shown, e)
    BY <1>7
  <2> QED BY <2>1, FirstIsPicked
<1> QED BY <1>2, <1>8, <1>9

\* A ranking lists every candidate once.
LEMMA RankedOK ==
    ASSUME NEW fresh, NEW C, IsFiniteSet(C), NEW ranked \in RankWeighted(fresh, C)
    PROVE  /\ Cardinality(C) \in Nat
           /\ ranked \in [1..Cardinality(C) -> C]
           /\ \A c \in C : \E i \in 1..Cardinality(C) : ranked[i] = c
<1>1. PICK n \in Nat : n = Cardinality(C)
  BY FS_CardinalityType
<1>2. /\ ranked \in [1..n -> C]
      /\ \A i, j \in 1..n : i # j => ranked[i] # ranked[j]
  BY <1>1, Zenon DEF RankWeighted, SetToSeqs
<1>3. ranked \in Injection(1..n, C)
  BY <1>2 DEF Injection, IsInjective
<1>4. IsFiniteSet(1..n) /\ Cardinality(1..n) = n
  BY FS_Interval
<1>5. ranked \in Surjection(1..n, C)
  BY <1>1, <1>3, <1>4, FS_Injection
<1>6. \A c \in C : \E i \in 1..n : ranked[i] = c
  BY <1>5 DEF Surjection
<1> QED BY <1>1, <1>2, <1>6

\* The page of an answer is cut out of its list.
PageOf(a) ==
    /\ a.page = SubSeq(a.ranked, a.req.offset + 1,
                       Min({a.req.offset + PageSize, Len(a.ranked)}))
    /\ a.more = (Len(a.ranked) - a.req.offset > PageSize)

\* The answer of a search: its list is a ranking of what survived.
LEMMA RespondAnswers ==
    ASSUME SearchOK, AnswersOK, search # None, Respond
    PROVE  \E a \in Answer :
              /\ answers' = Append(answers, a)
              /\ a.lived = lived /\ a.steadfast = steadfast
              /\ a.fresh \in [ShownIds -> Freshness]
              /\ ToSet(a.page) \subseteq ToSet(a.ranked)
              /\ ToSet(a.ranked) = {c.id : c \in Survivors(a.fresh)}
              /\ a.req = search.req /\ a.stamp = search.stamp
              /\ a.peers = {c.id : c \in Last(search.sources)}
              /\ a.tied = Tied(a.fresh, Survivors(a.fresh)) /\ PageOf(a)
              /\ \E r \in RankWeighted(a.fresh, Survivors(a.fresh)) :
                    a.ranked = [i \in DOMAIN r |-> r[i].id]
<1> DEFINE off == search.req.offset
           s(ranked) == [i \in DOMAIN ranked |-> ranked[i].id]
           ans(fresh, ranked) ==
              [req |-> search.req, ranked |-> s(ranked), fresh |-> fresh,
               tied |-> Tied(fresh, Survivors(fresh)),
               page |-> SubSeq(s(ranked), off + 1,
                               Min({off + PageSize, Len(s(ranked))})),
               more |-> Len(s(ranked)) - off > PageSize,
               peers |-> {c.id : c \in Last(search.sources)},
               stamp |-> search.stamp,
               lived |-> lived, steadfast |-> steadfast]
<1>f. PICK fresh \in [ShownIds -> Freshness] :
         \E ranked \in RankWeighted(fresh, Survivors(fresh)) :
            answers' = Append(answers, ans(fresh, ranked))
  BY Zenon DEF Respond, Survivors, ShownIds, Shown
<1>1. PICK ranked \in RankWeighted(fresh, Survivors(fresh)) :
         answers' = Append(answers, ans(fresh, ranked))
  BY <1>f, Zenon
<1>2. PICK n \in Nat : /\ n = Cardinality(Survivors(fresh))
                       /\ ranked \in [1..n -> Survivors(fresh)]
                       /\ \A c \in Survivors(fresh) : \E i \in 1..n : ranked[i] = c
  <2>1. IsFiniteSet(Survivors(fresh))
    BY SurvivorsOK
  <2>2. /\ Cardinality(Survivors(fresh)) \in Nat
        /\ ranked \in [1..Cardinality(Survivors(fresh)) -> Survivors(fresh)]
        /\ \A c \in Survivors(fresh) : \E i \in 1..Cardinality(Survivors(fresh)) : ranked[i] = c
    BY <2>1, RankedOK
  <2> QED BY <2>2
<1>3. \A c \in Survivors(fresh) : c.id \in Entity
  BY SurvivorsOK DEF Candidate
<1>4. PICK l : l = s(ranked)
  OBVIOUS
<1>5. /\ l \in [1..n -> Entity] /\ l \in Seq(Entity) /\ Len(l) = n
      /\ DOMAIN l = 1..n /\ \A i \in 1..n : l[i] = ranked[i].id
  <2>1. l = [i \in 1..n |-> ranked[i].id]
    BY <1>2, <1>4
  <2>2. l \in [1..n -> Entity]
    BY <1>2, <1>3, <2>1
  <2>3. l \in Seq(Entity)
    BY <2>2, SeqDef
  <2>4. Len(l) = n
    BY <2>2, <2>3, LenProperties
  <2> QED BY <2>1, <2>2, <2>3, <2>4
<1>6. ToSet(l) = {c.id : c \in Survivors(fresh)}
  BY <1>2, <1>5 DEF ToSet
<1>7. /\ search.req \in Request /\ off \in Nat /\ PageSize \in Nat
      /\ search.stamp \in Opt(Nat)
      /\ lived \in SUBSET Entity /\ steadfast \in SUBSET Entity
  BY SearchAssumption DEF SearchOK, SearchState, Request, AnswersOK
<1>8. PICK m \in Nat : m = Min({off + PageSize, Len(l)}) /\ m <= n
  <2>1. off + PageSize \in Nat
    BY <1>7
  <2> QED BY <1>5, <2>1, MinOfTwo
<1>9. PICK p : p = SubSeq(l, off + 1, m)
  OBVIOUS
<1>10. p \in Seq(Entity) /\ ToSet(p) \subseteq ToSet(l)
  <2>1. PICK k \in Nat : k = off + 1
    BY <1>7
  <2>2. k >= 1
    BY <1>7, <2>1
  <2>3. \A i \in k..m : i \in 1..n
    BY <1>8, <2>2
  <2>4. \A i \in k..m : l[i] \in ToSet(l)
    BY <1>5, <2>3 DEF ToSet
  <2>5. p \in Seq(ToSet(l))
    BY <1>9, <2>1, <2>4, SubSeqProperties
  <2>6. ToSet(l) \subseteq Entity
    BY <1>5 DEF ToSet
  <2>7. \A i \in DOMAIN p : p[i] \in ToSet(l)
    BY <2>5, LenProperties, ElementOfSeq
  <2>8. p \in Seq(Entity)
    BY <2>5, <2>6, <2>7, LenProperties, SeqDef
  <2> QED BY <2>7, <2>8 DEF ToSet
<1>11. {c.id : c \in Last(search.sources)} \in SUBSET Entity
  <2>1. /\ search.sources \in Seq(SUBSET Candidate)
        /\ search.sources # << >>
    BY DEF SearchOK, SearchState, Respond
  <2>2. Last(search.sources) \in SUBSET Candidate
    <3>1. PICK z : z = search.sources
      OBVIOUS
    <3>2. z \in Seq(SUBSET Candidate) /\ z # << >>
      BY <2>1, <3>1
    <3>3. Len(z) \in 1..Len(z)
      BY <3>2, LenProperties, EmptySeq
    <3>4. z[Len(z)] \in SUBSET Candidate
      BY <3>2, <3>3, ElementOfSeq
    <3> QED BY <3>1, <3>4 DEF Last
  <2> QED BY <2>2 DEF Candidate
<1>12. (Len(l) - off > PageSize) \in BOOLEAN
  BY <1>5, <1>7
<1>13. PICK a : a = ans(fresh, ranked)
  OBVIOUS
<1>14. a = [req |-> search.req, ranked |-> l, fresh |-> fresh,
            tied |-> Tied(fresh, Survivors(fresh)), page |-> p,
            more |-> Len(l) - off > PageSize,
            peers |-> {c.id : c \in Last(search.sources)},
            stamp |-> search.stamp, lived |-> lived, steadfast |-> steadfast]
  BY <1>4, <1>8, <1>9, <1>13, Zenon
<1>15. answers' = Append(answers, a)
  BY <1>1, <1>13
<1> HIDE DEF ans, s
<1>16. a \in Answer
  <2>1. Tied(fresh, Survivors(fresh)) \in BOOLEAN
    BY DEF Tied
  <2>2. fresh \in UNION {[E -> Freshness] : E \in SUBSET Entity}
    BY <1>f, ShownAreEntities
  <2> QED BY <1>5, <1>7, <1>10, <1>11, <1>12, <1>14, <2>1, <2>2 DEF Answer
<1>17. /\ a.lived = lived /\ a.steadfast = steadfast /\ a.page = p /\ a.ranked = l
       /\ a.req = search.req /\ a.stamp = search.stamp /\ a.fresh = fresh
       /\ a.tied = Tied(fresh, Survivors(fresh))
       /\ a.peers = {c.id : c \in Last(search.sources)}
       /\ a.more = (Len(l) - off > PageSize)
  BY <1>14
<1>18. PageOf(a)
  <2>1. a.page = SubSeq(l, off + 1, Min({off + PageSize, Len(l)}))
    BY <1>8, <1>9, <1>17
  <2> QED BY <1>17, <2>1 DEF PageOf
<1>19. \E r \in RankWeighted(fresh, Survivors(fresh)) : a.ranked = [i \in DOMAIN r |-> r[i].id]
  BY <1>1, <1>4, <1>17 DEF s
<1> QED BY <1>f, <1>6, <1>10, <1>15, <1>16, <1>17, <1>18, <1>19, Zenon

\* Only a response changes the answers.
LEMMA AnswersChange ==
    ASSUME Next
    PROVE  answers' = answers \/ (search # None /\ Respond)
<1>0. \A owed : Write(owed) => answers' = answers
  BY DEF Write
<1>1. ASSUME NEW e, Handler(e) \/ HandleAnnouncement(e) PROVE answers' = answers
  BY <1>0, <1>1 DEF Handler, RegisterEntity, UpdateEntity, DeleteEntity, SetStatus,
                    HandleAnnouncement, ApplyGossip, TombstoneGossip
<1>2. ASSUME NEW w \in work, IndexKeyword(w) \/ IndexVector(w) PROVE answers' = answers
  BY <1>2 DEF IndexKeyword, IndexVector
<1>3. Restart \/ BeginSearch => answers' = answers
  BY DEF Restart, BeginSearch
<1>4. Advance => answers' = answers
  BY DEF Advance
<1>5. SearchStep => Advance \/ Respond
  BY StepAdvances
<1> QED BY <1>1, <1>2, <1>3, <1>4, <1>5 DEF Next

LEMMA AnswersStep ==
    ASSUME SearchOK, AnswersOK, Next
    PROVE  AnswersOK'
<1>1. lived' \in SUBSET Entity /\ steadfast' \in SUBSET Entity
  <2>1. Witness
    BY DEF Next
  <2> QED BY <2>1 DEF Witness, AnswersOK
<1>2. CASE answers' = answers
  BY <1>1, <1>2 DEF AnswersOK
<1>3. ASSUME search # None, Respond PROVE AnswersOK'
  <2>1. PICK a \in Answer : answers' = Append(answers, a)
    BY <1>3, RespondAnswers, Zenon
  <2>2. answers' \in Seq(Answer)
    BY <2>1, AppendProperties DEF AnswersOK
  <2> QED BY <1>1, <2>2 DEF AnswersOK
<1> QED BY <1>2, <1>3, AnswersChange

-----------------------------------------------------------------------------
(* Types and counts *)

LEMMA TypeInvInit ==
    ASSUME Init
    PROVE  TypeInv
<1>1. rows \in [Entity -> Opt(Row)] /\ gossip \in [Entity -> Opt(GossipRow)]
  BY DEF Init, Opt, Row, GossipRow
<1>2. TablesOK
  BY <1>1 DEF Init, TablesOK
<1>3. /\ keyword \in KeywordIndex /\ Counts(keyword)
      /\ keyword.docs \in [Entity -> Opt(Content)]
  BY <1>1, RebuiltCounts DEF Init
<1>4. vectors \in [Entity -> Opt(Content) \cup {Zero}]
  BY <1>3 DEF Init
<1>5. IndexOK
  BY <1>3, <1>4, SearchAssumption DEF Init, IndexOK
<1>6. SearchOK
  BY DEF Init, SearchOK
<1>7. AnswersOK
  BY DEF Init, AnswersOK
<1> QED BY <1>2, <1>5, <1>6, <1>7 DEF TypeInv

LEMMA TypeInvStep ==
    ASSUME TypeInv, [Next]_vars
    PROVE  TypeInv'
<1>1. CASE Next
  BY <1>1, TablesStep, IndexStep, SearchStateStep, AnswersStep DEF TypeInv
<1>2. CASE UNCHANGED vars
  BY <1>2 DEF vars, TypeInv, TablesOK, IndexOK, Counts, SearchOK, AnswersOK
<1> QED BY <1>1, <1>2

LEMMA TypeInvImplies ==
    ASSUME TypeInv
    PROVE  TypeOK /\ IndexCounts
BY DEF TypeInv, TablesOK, IndexOK, SearchOK, AnswersOK, TypeOK, IndexCounts, Counts

LEMMA TypeInvHolds == Spec => []TypeInv
BY TypeInvInit, TypeInvStep, PTL DEF Spec

\* Every table, index, search and answer keeps its type, whatever the handlers,
\* announcements, restarts and searches that interleave.
THEOREM SearchTypeCorrect == Spec => []TypeOK
BY TypeInvHolds, TypeInvImplies, PTL

\* docCount and df agree with the documents of the keyword index after any
\* interleaving of the writers (IndexDocument, RemoveDocument).
THEOREM CountsAgree == Spec => []IndexCounts
BY TypeInvHolds, TypeInvImplies, PTL

-----------------------------------------------------------------------------
(* What a search has seen *)

\* Everything in a search was searchable since it began.
FoundLived ==
    search # None =>
        /\ \A c \in search.found : c.id \in lived
        /\ \A i \in DOMAIN search.sources : \A c \in search.sources[i] : c.id \in lived

\* The history of a search is up to date.
SeenNow ==
    search # None =>
        /\ \A e \in Entity : Searchable(e) => e \in lived
        /\ \A e \in steadfast : e \in Entity /\ MatchesExactly(search.req, e)

LEMMA SeenNowStep ==
    ASSUME Next
    PROVE  SeenNow'
<1>1. SUFFICES ASSUME search' # None
               PROVE  (/\ \A e \in Entity : Searchable(e) => e \in lived
                       /\ \A e \in steadfast : e \in Entity
                                              /\ MatchesExactly(search.req, e))'
  BY DEF SeenNow
<1>2. Witness
  BY DEF Next
<1>3. \A e \in {x \in Entity : Searchable(x)}' : e \in lived'
  BY <1>1, <1>2, Zenon DEF Witness
<1>4. \A e \in steadfast' : e \in {x \in Entity : MatchesExactly(search.req, x)}'
  BY <1>1, <1>2, Zenon DEF Witness
<1> QED BY <1>3, <1>4, Zenon

\* The history goes on with a search.
LEMMA WitnessGoesOn ==
    ASSUME Next, search # None, search' # None
    PROVE  lived \subseteq lived' /\ steadfast' \subseteq steadfast
<1>1. Witness
  BY DEF Next
<1> QED BY <1>1, Zenon DEF Witness

\* A candidate of the local store, as the ranker weighs it.
LocalCandidate(req, c) ==
    /\ Wanted(req, c.type) /\ c.semantic >= 0
    /\ c.trust = 5 /\ c.dated = TRUE /\ c.avail = 10

LEMMA LocalIsLocal ==
    ASSUME NEW req, NEW e, Listed(req, e), NEW t, NEW s \in Nat
    PROVE  /\ LocalCandidate(req, Local(e, t, s))
           /\ Local(e, t, s).id = e /\ Local(e, t, s).text = t
BY DEF LocalCandidate, Local, Listed

LEMMA MergeIsLocal ==
    ASSUME SearchOK, search # None, NEW c \in Merge
    PROVE  /\ c.id \in Entity /\ Listed(search.req, c.id)
           /\ LocalCandidate(search.req, c)
<1> DEFINE ids == {h.id : h \in search.hits \cup search.near}
           text(e) == IF ~\E h \in search.hits : h.id = e THEN 0
                      ELSE IF IsExactMatch(search.req, e) THEN 25
                      ELSE Normalised(search.hits,
                                      CHOOSE h \in search.hits : h.id = e)
<1>1. search.hits \in SUBSET Hit /\ search.near \in SUBSET Hit
  BY DEF SearchOK, SearchState
<1>2. ids \subseteq Entity
  BY <1>1 DEF Hit
<1>3. Merge = {Local(e, text(e), ScoreIn(search.near, e)) :
                  e \in {x \in ids : Listed(search.req, x)}}
  BY Zenon DEF Merge
<1> HIDE DEF text, ids
<1>4. PICK e \in ids : /\ Listed(search.req, e)
                       /\ c = Local(e, text(e), ScoreIn(search.near, e))
  BY <1>3
<1>5. ScoreIn(search.near, e) \in Nat
  BY <1>1, ScoreIsNat
<1> QED BY <1>2, <1>4, <1>5, LocalIsLocal

\* What the exact-match pass adds is in the store now, and it marks what it
\* qualifies.
LEMMA ListPassIsLocal ==
    ASSUME TablesOK, SearchOK, search # None, NEW E \in SUBSET Entity,
           NEW d \in ListPass(E)
    PROVE  /\ \/ \E c \in search.found : c.id = d.id
              \/ Listed(search.req, d.id)
           /\ d.id \in E /\ Listed(search.req, d.id)
                 /\ (~search.req.query \/ IsExactMatch(search.req, d.id))
                 /\ (\A c \in search.found : LocalCandidate(search.req, c))
              => LocalCandidate(search.req, d) /\ d.text = 25
<1> DEFINE qualifies(e) == Listed(search.req, e)
                           /\ (~search.req.query \/ IsExactMatch(search.req, e))
           known == {c.id : c \in search.found}
<1>1. search.found \in SUBSET Candidate
  BY DEF SearchOK, SearchState
<1>2. ListPass(E) =
        {IF c.id \in E /\ qualifies(c.id) THEN [c EXCEPT !.text = 25] ELSE c :
            c \in search.found}
        \cup {Local(e, 25, 0) : e \in {x \in E : qualifies(x)} \ known}
  BY Zenon DEF ListPass
<1>3. ASSUME NEW c \in search.found,
             d = IF c.id \in E /\ qualifies(c.id) THEN [c EXCEPT !.text = 25] ELSE c
      PROVE  /\ c.id = d.id
             /\ d.id \in E /\ qualifies(d.id) /\ LocalCandidate(search.req, c)
                => LocalCandidate(search.req, d) /\ d.text = 25
  <2>1. c \in Candidate
    BY <1>1
  <2> HIDE DEF qualifies
  <2> QED BY <1>3, <2>1 DEF Candidate, LocalCandidate
<1>4. ASSUME NEW e \in E, qualifies(e), d = Local(e, 25, 0)
      PROVE  /\ Listed(search.req, d.id)
             /\ LocalCandidate(search.req, d) /\ d.text = 25
  BY <1>4, LocalIsLocal
<1>5. \/ \E c \in search.found :
            d = IF c.id \in E /\ qualifies(c.id) THEN [c EXCEPT !.text = 25] ELSE c
      \/ \E e \in E : qualifies(e) /\ d = Local(e, 25, 0)
  <2> HIDE DEF qualifies, known
  <2> QED BY <1>2
<1> QED BY <1>3, <1>4, <1>5, Zenon

\* The exact-match pass has a candidate for all it qualifies.
LEMMA ListPassFinds ==
    ASSUME TablesOK, SearchOK, search # None, NEW E \in SUBSET Entity, NEW e \in E,
           Listed(search.req, e), ~search.req.query \/ IsExactMatch(search.req, e)
    PROVE  \E d \in ListPass(E) : d.id = e
<1> DEFINE qualifies(x) == Listed(search.req, x)
                           /\ (~search.req.query \/ IsExactMatch(search.req, x))
           known == {c.id : c \in search.found}
<1>1. search.found \in SUBSET Candidate
  BY DEF SearchOK, SearchState
<1>2. ListPass(E) =
        {IF c.id \in E /\ qualifies(c.id) THEN [c EXCEPT !.text = 25] ELSE c :
            c \in search.found}
        \cup {Local(x, 25, 0) : x \in {x \in E : qualifies(x)} \ known}
  BY Zenon DEF ListPass
<1>3. qualifies(e)
  OBVIOUS
<1> HIDE DEF qualifies
<1>4. CASE e \in known
  <2>1. PICK c \in search.found : c.id = e
    BY <1>4
  <2>2. [c EXCEPT !.text = 25] \in ListPass(E)
    BY <1>2, <1>3, <2>1
  <2>3. [c EXCEPT !.text = 25].id = e
    BY <1>1, <2>1 DEF Candidate
  <2> QED BY <2>2, <2>3
<1>5. CASE e \notin known
  <2>1. Local(e, 25, 0) \in ListPass(E)
    <3> HIDE DEF known
    <3> QED BY <1>2, <1>3, <1>5
  <2> QED BY <2>1, LocalIsLocal
<1> QED BY <1>4, <1>5

\* The moves of a search, by what they make of its findings.
Waits ==
    /\ search'.found = search.found /\ search'.sources = search.sources
    /\ search'.local = "done" <=> search.local = "done"
    /\ search'.federated = search.federated
Merges ==
    /\ search'.found = Merge /\ search'.sources = search.sources
    /\ search.local # "done" /\ search'.local # "done"
    /\ search'.federated = search.federated
Lists(E) ==
    /\ search'.found = {} /\ search'.sources = Append(search.sources, ListPass(E))
    /\ search.local # "done" /\ search'.local = "done"
    /\ search'.federated = search.federated
Hears(S) ==
    /\ \A c \in S : Visible(c.id) /\ gossip[c.id].active
    /\ search'.found = search.found /\ search'.sources = Append(search.sources, S)
    /\ search'.local = search.local /\ search'.federated = search.federated
Collects(S) ==
    /\ \A c \in S : Remote[c.id] # None
    /\ search'.found = search.found /\ search'.sources = Append(search.sources, S)
    /\ search.local = "done" /\ search'.local = "done"

LEMMA SearchMoves ==
    ASSUME TypeInv, Next, search # None, search' # None
    PROVE  /\ search'.req = search.req
           /\ \/ Waits \/ Merges
              \/ \E E \in ListEntities : Lists(E)
              \/ \E S \in SUBSET Candidate : Hears(S) \/ Collects(S)
<1>0. /\ search \in SearchState /\ search.sources \in Seq(SUBSET Candidate)
      /\ TablesOK /\ IndexOK /\ SearchOK
  BY DEF TypeInv, SearchOK, SearchState
<1>1. CASE Disturb
  BY <1>0, <1>1 DEF Disturb, Waits, SearchState
<1>2. CASE Restart \/ BeginSearch
  BY <1>2 DEF Restart, BeginSearch
<1>3. CASE SearchKeyword
  <2>1. PICK T : search' = [search EXCEPT !.hits = T, !.local = "vector"]
    BY <1>3, Zenon DEF SearchKeyword
  <2>2. search.local = "keyword"
    BY <1>3 DEF SearchKeyword
  <2> QED BY <1>0, <2>1, <2>2 DEF Waits, SearchState
<1>4. CASE SearchVector
  <2>1. PICK T : search' = [search EXCEPT !.near = T, !.local = "merge"]
    BY <1>4, Zenon DEF SearchVector
  <2>2. search.local = "vector"
    BY <1>4 DEF SearchVector
  <2> QED BY <1>0, <2>1, <2>2 DEF Waits, SearchState
<1>5. CASE MergeHits
  <2>1. PICK M : M = Merge
    OBVIOUS
  <2>2. search.local = "merge" /\ search' = [search EXCEPT !.found = M, !.local = "list"]
    BY <1>5, <2>1 DEF MergeHits
  <2>3. /\ search'.req = search.req /\ search'.found = M
        /\ search'.sources = search.sources /\ search'.federated = search.federated
        /\ search'.local # "done" /\ search.local # "done"
    BY <1>0, <2>2 DEF SearchState
  <2> QED BY <2>1, <2>3 DEF Merges
<1>6. CASE FinishLocal
  <2>1. PICK E \in ListEntities :
           search' = [search EXCEPT !.sources = Append(@, ListPass(E)),
                                   !.found = {}, !.hits = {}, !.near = {},
                                   !.local = "done"]
    BY <1>6, Zenon DEF FinishLocal
  <2>2. PICK P : P = ListPass(E)
    OBVIOUS
  <2>3. search.local = "list"
    BY <1>6 DEF FinishLocal
  <2>4. search' = [search EXCEPT !.sources = Append(@, P),
                                 !.found = {}, !.hits = {}, !.near = {},
                                 !.local = "done"]
    BY <2>1, <2>2
  <2>5. /\ search'.req = search.req /\ search'.found = {}
        /\ search'.sources = Append(search.sources, P)
        /\ search'.federated = search.federated
        /\ search'.local = "done" /\ search.local # "done"
    BY <1>0, <2>3, <2>4 DEF SearchState
  <2> QED BY <2>1, <2>2, <2>5 DEF Lists
<1>7. CASE SearchGossip
  <2>1. PICK S \in SUBSET Candidate :
              /\ \A c \in S : Visible(c.id) /\ gossip[c.id].active
              /\ search' = [search EXCEPT !.sources = Append(@, S),
                                          !.gossip = "done"]
    BY <1>0, <1>7, GossipSource, Zenon
  <2>2. /\ search'.req = search.req /\ search'.found = search.found
        /\ search'.sources = Append(search.sources, S)
        /\ search'.local = search.local /\ search'.federated = search.federated
    BY <1>0, <2>1 DEF SearchState
  <2> QED BY <2>1, <2>2 DEF Hears
<1>8. CASE Federate
  <2>1. PICK S \in SUBSET Candidate :
              /\ \A c \in S : Remote[c.id] # None
              /\ search' = [search EXCEPT !.sources = Append(@, S),
                                          !.federated = "done"]
    BY <1>8, PeerSource, Zenon
  <2>2. /\ search'.req = search.req /\ search'.found = search.found
        /\ search'.sources = Append(search.sources, S)
        /\ search'.local = search.local
    BY <1>0, <2>1 DEF SearchState
  <2>3. search.local = "done"
    BY <1>8 DEF Federate
  <2> QED BY <2>1, <2>2, <2>3 DEF Collects
<1>9. CASE Respond
  BY <1>9, Zenon DEF Respond
<1> QED BY <1>1, <1>2, <1>3, <1>4, <1>5, <1>6, <1>7, <1>8, <1>9 DEF Next, SearchStep

\* A search begins with nothing.
LEMMA SearchBegins ==
    ASSUME Next, search = None, search' # None
    PROVE  /\ search'.found = {} /\ search'.sources = << >>
           /\ search'.local = "keyword" /\ search'.federated = "ask"
<1>1. BeginSearch
  BY DEF Next, Disturb, Restart
<1> QED BY <1>1 DEF BeginSearch

LEMMA AppendedSource ==
    ASSUME NEW T, NEW q \in Seq(T), NEW S
    PROVE  /\ DOMAIN q = 1..Len(q) /\ Len(q) \in Nat
           /\ DOMAIN Append(q, S) = 1..(Len(q) + 1)
           /\ \A i \in 1..Len(q) : Append(q, S)[i] = q[i]
           /\ Append(q, S)[Len(q) + 1] = S
<1>1. q \in Seq(T \cup {S}) /\ S \in T \cup {S}
  BY SeqDef, LenProperties, ElementOfSeq
<1> QED BY <1>1, AppendProperties, LenProperties

LEMMA FoundLivedStep ==
    ASSUME TypeInv, SeenNow, FoundLived, Next
    PROVE  FoundLived'
<1>1. SUFFICES ASSUME search' # None
               PROVE  /\ \A c \in search'.found : c.id \in lived'
                      /\ \A i \in DOMAIN search'.sources :
                            \A c \in search'.sources[i] : c.id \in lived'
  BY DEF FoundLived
<1>2. CASE search = None
  BY <1>1, <1>2, SearchBegins
<1>3. CASE search # None
  <2>1. lived \subseteq lived'
    BY <1>1, <1>3, WitnessGoesOn
  <2>2. /\ \A c \in search.found : c.id \in lived
        /\ \A i \in DOMAIN search.sources : \A c \in search.sources[i] : c.id \in lived
        /\ \A e \in Entity : Searchable(e) => e \in lived
    BY <1>3 DEF FoundLived, SeenNow
  <2>3. /\ search.sources \in Seq(SUBSET Candidate)
        /\ SearchOK /\ TablesOK
    BY <1>3 DEF TypeInv, SearchOK, SearchState
  <2>4. ASSUME NEW S, search'.sources = Append(search.sources, S),
               \A c \in S : c.id \in lived'
        PROVE  \A i \in DOMAIN search'.sources :
                  \A c \in search'.sources[i] : c.id \in lived'
    <3>1. PICK q \in Seq(SUBSET Candidate) : q = search.sources
      BY <2>3
    <3>2. PICK n \in Nat :
            /\ DOMAIN q = 1..n /\ DOMAIN Append(q, S) = 1..(n + 1)
            /\ \A i \in 1..n : Append(q, S)[i] = q[i]
            /\ Append(q, S)[n + 1] = S
      BY AppendedSource
    <3>3. ASSUME NEW i \in 1..(n + 1), NEW c \in Append(q, S)[i] PROVE c.id \in lived'
      <4>1. i \in 1..n \/ i = n + 1
        OBVIOUS
      <4> QED BY <2>1, <2>2, <2>4, <3>1, <3>2, <3>3, <4>1
    <3> QED BY <2>4, <3>1, <3>2, <3>3
  <2>5. CASE Waits
    BY <2>1, <2>2, <2>5 DEF Waits
  <2>6. CASE Merges
    <3>1. \A c \in Merge : c.id \in Entity /\ Listed(search.req, c.id)
      BY <1>3, <2>3, MergeIsLocal
    <3>2. \A c \in Merge : c.id \in lived
      BY <2>2, <3>1 DEF Listed, Searchable
    <3> QED BY <2>1, <2>2, <2>6, <3>2 DEF Merges
  <2>7. ASSUME NEW E \in ListEntities, Lists(E)
        PROVE  /\ \A c \in search'.found : c.id \in lived'
               /\ \A i \in DOMAIN search'.sources :
                     \A c \in search'.sources[i] : c.id \in lived'
    <3>1. E \in SUBSET Entity
      BY DEF ListEntities
    <3>2. ListPass(E) \in SUBSET Candidate
      BY <1>3, <2>3, <3>1, ListPassOK
    <3>3. ASSUME NEW d \in ListPass(E) PROVE d.id \in lived
      <4>1. \/ \E c \in search.found : c.id = d.id
            \/ Listed(search.req, d.id)
        BY <1>3, <2>3, <3>1, ListPassIsLocal
      <4>2. d.id \in Entity
        BY <3>2 DEF Candidate
      <4> QED BY <2>2, <4>1, <4>2 DEF Listed, Searchable
    <3> QED BY <2>1, <2>4, <2>7, <3>3 DEF Lists
  <2>8. ASSUME NEW S \in SUBSET Candidate, Hears(S)
        PROVE  /\ \A c \in search'.found : c.id \in lived'
               /\ \A i \in DOMAIN search'.sources :
                     \A c \in search'.sources[i] : c.id \in lived'
    <3>1. \A c \in S : c.id \in Entity /\ Searchable(c.id)
      BY <2>8 DEF Hears, Candidate, Searchable
    <3> QED BY <2>1, <2>2, <2>4, <2>8, <3>1 DEF Hears
  <2>9. ASSUME NEW S \in SUBSET Candidate, Collects(S)
        PROVE  /\ \A c \in search'.found : c.id \in lived'
               /\ \A i \in DOMAIN search'.sources :
                     \A c \in search'.sources[i] : c.id \in lived'
    <3>1. \A c \in S : c.id \in Entity /\ Searchable(c.id)
      BY <2>9 DEF Collects, Candidate, Searchable
    <3> QED BY <2>1, <2>2, <2>4, <2>9, <3>1 DEF Collects
  <2> QED BY <1>1, <1>3, <2>5, <2>6, <2>7, <2>8, <2>9, SearchMoves
<1> QED BY <1>2, <1>3

\* Old answers stay, and the new one comes from what the search has found.
LEMMA ResultsWereLiveStep ==
    ASSUME TypeInv, FoundLived, ResultsWereLive, Next
    PROVE  ResultsWereLive'
<1>0. answers \in Seq(Answer) /\ SearchOK /\ AnswersOK
  BY DEF TypeInv, AnswersOK
<1>1. CASE answers' = answers
  BY <1>1 DEF ResultsWereLive
<1>2. ASSUME search # None, Respond PROVE ResultsWereLive'
  <2>1. PICK a \in Answer :
              /\ answers' = Append(answers, a)
              /\ a.lived = lived /\ a.steadfast = steadfast
              /\ ToSet(a.page) \subseteq ToSet(a.ranked)
              /\ ToSet(a.ranked) = {c.id : c \in Survivors(a.fresh)}
    BY <1>0, <1>2, RespondAnswers
  <2>2. \A c \in Survivors(a.fresh) : c.id \in lived
    BY <1>0, <1>2, SurvivorsOK DEF FoundLived
  <2>3. ToSet(a.page) \subseteq a.lived
    BY <2>1, <2>2
  <2>4. PICK n \in Nat :
            /\ DOMAIN answers = 1..n /\ DOMAIN answers' = 1..(n + 1)
            /\ \A i \in 1..n : answers'[i] = answers[i]
            /\ answers'[n + 1] = a
    BY <1>0, <2>1, AppendedSource
  <2>5. ASSUME NEW i \in 1..(n + 1)
        PROVE  ToSet(answers'[i].page) \subseteq answers'[i].lived
    <3>1. i \in 1..n \/ i = n + 1
      OBVIOUS
    <3> QED BY <2>3, <2>4, <3>1 DEF ResultsWereLive
  <2> QED BY <2>4, <2>5 DEF ResultsWereLive
<1> QED BY <1>1, <1>2, AnswersChange

\* ResultsWereLive with the findings of the search under way.
LiveInv == TypeInv /\ SeenNow /\ FoundLived /\ ResultsWereLive

LEMMA LiveInvHolds == Spec => []LiveInv
<1>1. Init => LiveInv
  <2>1. Init => SeenNow /\ FoundLived /\ ResultsWereLive
    BY DEF Init, SeenNow, FoundLived, ResultsWereLive
  <2> QED BY <2>1, TypeInvInit DEF LiveInv
<1>2. LiveInv /\ [Next]_vars => LiveInv'
  <2>1. ASSUME LiveInv, Next PROVE LiveInv'
    <3>1. TypeInv'
      BY <2>1, TypeInvStep DEF LiveInv
    <3> QED BY <2>1, <3>1, SeenNowStep, FoundLivedStep, ResultsWereLiveStep DEF LiveInv
  <2>2. ASSUME LiveInv, UNCHANGED vars PROVE LiveInv'
    <3>1. TypeInv'
      BY <2>2, TypeInvStep DEF LiveInv
    <3>2. (SeenNow /\ FoundLived /\ ResultsWereLive)'
      BY <2>2, Zenon DEF LiveInv, vars, SeenNow, FoundLived, ResultsWereLive, Searchable,
                  Visible, MatchesExactly, Listed, Wanted, IsExactMatch
    <3> QED BY <3>1, <3>2 DEF LiveInv
  <2> QED BY <2>1, <2>2
<1> QED BY <1>1, <1>2, PTL DEF Spec

\* Every entity on a page was searchable at some moment of its search: in an
\* active row, in a visible gossip row, or in the answer of a peer, whatever
\* stale documents the indexes held (searchLocal, searchGossip).
THEOREM PagesWereLive == Spec => []ResultsWereLive
<1>1. LiveInv => ResultsWereLive
  BY DEF LiveInv
<1> QED BY <1>1, LiveInvHolds, PTL

-----------------------------------------------------------------------------
(* Exact matches *)

\* The findings before the exact-match pass are local candidates.
FoundLocal == search # None => \A c \in search.found : LocalCandidate(search.req, c)

\* Before the pass no source has a candidate for a steadfast entity: the only
\* source there may be is that of the gossip table, where it is not visible.
NotYet ==
    search # None /\ search.local # "done" =>
        \A e \in steadfast : \A i \in DOMAIN search.sources :
            \A c \in search.sources[i] : c.id # e

\* After the pass, the first source with a candidate for it has local ones,
\* marked exact: the peers, who are asked afterwards, come later.
Held ==
    search # None /\ search.local = "done" =>
        \A e \in steadfast : \E i \in DOMAIN search.sources :
            /\ \E c \in search.sources[i] : c.id = e
            /\ \A j \in 1..i : \A c \in search.sources[j] :
                  c.id = e => LocalCandidate(search.req, c) /\ c.text = 25

\* A search that has asked the peers is done with the local pass.
PeersLast == search # None /\ search.federated = "done" => search.local = "done"

LEMMA FoundLocalStep ==
    ASSUME TypeInv, FoundLocal, Next
    PROVE  FoundLocal'
<1>1. SUFFICES ASSUME search' # None
               PROVE  \A c \in search'.found : LocalCandidate(search'.req, c)
  BY DEF FoundLocal, LocalCandidate, Wanted
<1>2. CASE search = None
  BY <1>1, <1>2, SearchBegins
<1>3. CASE search # None
  <2>1. /\ search'.req = search.req
        /\ \/ search'.found = search.found \/ search'.found = Merge \/ search'.found = {}
    BY <1>1, <1>3, SearchMoves DEF Waits, Merges, Lists, Hears, Collects
  <2>2. \A c \in Merge : LocalCandidate(search.req, c)
    BY <1>3, MergeIsLocal DEF TypeInv
  <2>3. \A c \in search.found : LocalCandidate(search.req, c)
    BY <1>3 DEF FoundLocal
  <2> QED BY <2>1, <2>2, <2>3
<1> QED BY <1>2, <1>3

LEMMA PeersLastStep ==
    ASSUME TypeInv, PeersLast, Next
    PROVE  PeersLast'
<1>1. SUFFICES ASSUME search' # None, search'.federated = "done"
               PROVE  search'.local = "done"
  BY DEF PeersLast
<1>2. CASE search = None
  BY <1>1, <1>2, SearchBegins
<1>3. CASE search # None
  BY <1>1, <1>3, SearchMoves DEF PeersLast, Waits, Merges, Lists, Hears, Collects
<1> QED BY <1>2, <1>3

\* ListEntities returns every row when the rows fit in its limit.
LEMMA AllListed ==
    ASSUME NEW E \in ListEntities, NEW e \in Entity, rows[e] # None,
           Cardinality({x \in Entity : rows[x] # None}) <= 2 * Limit
    PROVE  e \in E
<1> DEFINE R == {x \in Entity : rows[x] # None}
<1>1. IsFiniteSet(R)
  BY SearchAssumption, FS_Subset
<1>2. E \in SUBSET R /\ Cardinality(E) = Min({2 * Limit, Cardinality(R)})
  BY DEF ListEntities
<1>3. e \in R /\ Cardinality(R) <= 2 * Limit
  OBVIOUS
<1> HIDE DEF R
<1>4. Cardinality(R) \in Nat /\ 2 * Limit \in Nat
  BY <1>1, FS_CardinalityType, SearchAssumption
<1>5. Min({2 * Limit, Cardinality(R)}) = Cardinality(R)
  <2>1. PICK a \in Nat : a = 2 * Limit
    BY <1>4
  <2>2. PICK b \in Nat : b = Cardinality(R)
    BY <1>4
  <2>3. {a, b} \in SUBSET Nat /\ {a, b} # {} /\ b <= a
    BY <1>3, <2>1, <2>2
  <2>4. Min({a, b}) \in {a, b} /\ \A x \in {a, b} : Min({a, b}) <= x
    BY <2>3, LeastOf
  <2>5. Min({a, b}) = b
    BY <2>3, <2>4
  <2> QED BY <2>1, <2>2, <2>5
<1>6. E = R
  BY <1>1, <1>2, <1>5, FS_Subset
<1> QED BY <1>3, <1>6

LEMMA NotYetStep ==
    ASSUME TypeInv, SeenNow, NotYet, Next
    PROVE  NotYet'
<1>1. SUFFICES ASSUME search' # None, search'.local # "done", NEW e \in steadfast',
                      NEW i \in DOMAIN search'.sources, NEW c \in search'.sources[i]
               PROVE  c.id # e
  BY DEF NotYet
<1>2. CASE search = None
  BY <1>1, <1>2, SearchBegins
<1>3. CASE search # None
  <2>1. e \in steadfast /\ e \in Entity /\ MatchesExactly(search.req, e)
    BY <1>1, <1>3, WitnessGoesOn DEF SeenNow
  <2>2. search.sources \in Seq(SUBSET Candidate)
    BY <1>3 DEF TypeInv, SearchOK, SearchState
  <2>3. CASE Waits \/ Merges
    BY <1>1, <1>3, <2>1, <2>3 DEF Waits, Merges, NotYet
  <2>4. ASSUME NEW S \in SUBSET Candidate, Hears(S) PROVE c.id # e
    <3>1. PICK n \in Nat :
            /\ DOMAIN search.sources = 1..n /\ DOMAIN search'.sources = 1..(n + 1)
            /\ \A j \in 1..n : search'.sources[j] = search.sources[j]
            /\ search'.sources[n + 1] = S
      BY <2>2, <2>4, AppendedSource DEF Hears
    <3>2. i \in 1..n \/ i = n + 1
      BY <1>1, <3>1
    <3>3. CASE i \in 1..n
      BY <1>1, <1>3, <2>1, <2>4, <3>1, <3>3 DEF NotYet, Hears
    <3>4. CASE i = n + 1
      <4>1. Visible(c.id) /\ ~Visible(e)
        BY <1>1, <2>1, <2>4, <3>1, <3>4 DEF Hears, MatchesExactly
      <4> QED BY <4>1
    <3> QED BY <3>2, <3>3, <3>4
  <2> QED BY <1>1, <1>3, <2>3, <2>4, SearchMoves DEF Lists, Collects
<1> QED BY <1>2, <1>3

LEMMA HeldStep ==
    ASSUME TypeInv, SeenNow, FoundLocal, NotYet, Held, Next
    PROVE  Held'
<1> DEFINE Fits(q, r, e) == \E i \in DOMAIN q :
              /\ \E c \in q[i] : c.id = e
              /\ \A j \in 1..i : \A c \in q[j] :
                    c.id = e => LocalCandidate(r, c) /\ c.text = 25
<1>1. SUFFICES ASSUME search' # None, search'.local = "done", NEW e \in steadfast'
               PROVE  Fits(search'.sources, search'.req, e)
  BY Zenon DEF Held, LocalCandidate, Wanted
<1>2. CASE search = None
  BY <1>1, <1>2, SearchBegins
<1>3. CASE search # None
  <2>1. e \in steadfast /\ e \in Entity /\ MatchesExactly(search.req, e)
    BY <1>1, <1>3, WitnessGoesOn DEF SeenNow
  <2>2. search.sources \in Seq(SUBSET Candidate) /\ SearchOK /\ TablesOK
    BY <1>3 DEF TypeInv, SearchOK, SearchState
  <2>3. search'.req = search.req
    BY <1>1, <1>3, SearchMoves
  <2>4. ASSUME search.local = "done" PROVE Fits(search.sources, search.req, e)
    BY <1>3, <2>1, <2>4 DEF Held
  <2>5. CASE Waits
    <3>1. search'.sources = search.sources /\ search.local = "done"
      BY <1>1, <2>5 DEF Waits
    <3> HIDE DEF Fits
    <3> QED BY <2>3, <2>4, <3>1
  <2>6. ASSUME NEW S, search.local = "done",
               search'.sources = Append(search.sources, S)
        PROVE  Fits(search'.sources, search'.req, e)
    <3>1. PICK n \in Nat :
            /\ DOMAIN search.sources = 1..n /\ DOMAIN search'.sources = 1..(n + 1)
            /\ \A j \in 1..n : search'.sources[j] = search.sources[j]
      BY <2>2, <2>6, AppendedSource
    <3>2. PICK i \in 1..n :
              /\ \E c \in search.sources[i] : c.id = e
              /\ \A j \in 1..i : \A c \in search.sources[j] :
                    c.id = e => LocalCandidate(search.req, c) /\ c.text = 25
      BY <2>4, <2>6, <3>1
    <3>3. i \in 1..(n + 1) /\ \A j \in 1..i : j \in 1..n
      OBVIOUS
    <3> QED BY <2>3, <3>1, <3>2, <3>3
  <2>7. ASSUME NEW E \in ListEntities, Lists(E)
        PROVE  Fits(search'.sources, search'.req, e)
    <3>1. PICK n \in Nat :
            /\ DOMAIN search.sources = 1..n /\ DOMAIN search'.sources = 1..(n + 1)
            /\ \A j \in 1..n : search'.sources[j] = search.sources[j]
            /\ search'.sources[n + 1] = ListPass(E)
      BY <2>2, <2>7, AppendedSource DEF Lists
    <3>2. E \in SUBSET Entity
      BY DEF ListEntities
    <3>3. /\ Listed(search.req, e)
          /\ ~search.req.query \/ IsExactMatch(search.req, e)
          /\ Cardinality({x \in Entity : rows[x] # None}) <= 2 * Limit
          /\ rows[e] # None
      BY <2>1 DEF MatchesExactly, Listed
    <3>4. e \in E
      BY <2>1, <3>3, AllListed
    <3>5. \E d \in ListPass(E) : d.id = e
      BY <1>3, <2>2, <3>2, <3>3, <3>4, ListPassFinds
    <3>6. \A c \in search.found : LocalCandidate(search.req, c)
      BY <1>3 DEF FoundLocal
    <3>7. ASSUME NEW d \in ListPass(E), d.id = e
          PROVE  LocalCandidate(search.req, d) /\ d.text = 25
      BY <1>3, <2>2, <3>2, <3>3, <3>4, <3>6, <3>7, ListPassIsLocal
    <3>8. \A j \in 1..n : \A c \in search.sources[j] : c.id # e
      BY <1>3, <2>1, <2>7, <3>1 DEF NotYet, Lists
    <3>9. n + 1 \in 1..(n + 1) /\ \A j \in 1..(n + 1) : j \in 1..n \/ j = n + 1
      OBVIOUS
    <3>10. \A j \in 1..(n + 1) : \A c \in search'.sources[j] :
              c.id = e => LocalCandidate(search.req, c) /\ c.text = 25
      BY <3>1, <3>7, <3>8, <3>9
    <3> QED BY <2>3, <3>1, <3>5, <3>9, <3>10
  <2>8. ASSUME NEW S \in SUBSET Candidate, Hears(S) \/ Collects(S)
        PROVE  Fits(search'.sources, search'.req, e)
    BY <1>1, <2>6, <2>8 DEF Hears, Collects
  <2>9. ~Merges
    BY <1>1 DEF Merges
  <2> HIDE DEF Fits
  <2> QED BY <1>1, <1>3, <2>5, <2>7, <2>8, <2>9, SearchMoves
<1> QED BY <1>2, <1>3

LEMMA FreshIsNat == Freshness \subseteq Nat
<1>1. Freshness \subseteq 0..10
  BY SearchAssumption, Zenon
<1> QED BY <1>1

\* An exact local match of any age scores 0.95 or more.
LEMMA ExactScore ==
    ASSUME NEW c \in Candidate, NEW req, LocalCandidate(req, c), c.text = 25,
           NEW fresh, fresh[c.id] \in Freshness
    PROVE  Clamped(fresh, c) \in Nat /\ Clamped(fresh, c) >= 95
<1>1. PICK a \in Nat : a = Raw(fresh, c) /\ a >= 95
  <2>1. PICK s \in Int : s = c.semantic /\ s >= 0
    BY DEF Candidate, LocalCandidate
  <2>2. PICK f \in Nat : f = fresh[c.id]
    BY FreshIsNat
  <2>3. ComputeFreshness(fresh, c) = f
    BY <2>2 DEF ComputeFreshness, LocalCandidate
  <2>4. Raw(fresh, c) = 3 * 25 + 3 * s + 2 * 5 + f + 10
    BY <2>1, <2>3 DEF Raw, LocalCandidate
  <2> QED BY <2>1, <2>2, <2>4
<1>2. PICK m \in Nat : m = Min({a, 100}) /\ m >= 95
  <2>1. {a, 100} \in SUBSET Nat /\ {a, 100} # {}
    OBVIOUS
  <2>2. Min({a, 100}) \in {a, 100}
    BY <2>1, LeastOf
  <2> QED BY <1>1, <2>2
<1>3. Max({0, m}) = m
  <2>1. {0, m} \in SUBSET Nat /\ {0, m} # {}
    OBVIOUS
  <2>2. IsFiniteSet({0, m})
    <3>1. PICK S \in SUBSET Nat : S = {0, m}
      BY <2>1
    <3>2. \A x \in S : x <= m
      BY <3>1
    <3>3. IsFiniteSet(S)
      BY <3>2, FS_BoundedSetOfNaturals
    <3> QED BY <3>1, <3>3
  <2>3. Max({0, m}) \in {0, m} /\ \A x \in {0, m} : x <= Max({0, m})
    BY <2>1, <2>2, LargestOf
  <2> QED BY <2>3
<1> QED BY <1>1, <1>2, <1>3 DEF Clamped

\* What a steadfast entity needs to be ranked.
LEMMA HeldSurvives ==
    ASSUME MinScore <= 95, TypeInv, Held, search # None, search.local = "done",
           NEW e \in steadfast, NEW fresh \in [ShownIds -> Freshness]
    PROVE  \E d \in Survivors(fresh) : d.id = e
<1>0. /\ search.sources \in Seq(SUBSET Candidate) /\ SearchOK /\ MinScore \in Nat
      /\ e \in Entity
  BY SearchAssumption DEF TypeInv, SearchOK, SearchState, AnswersOK
<1>1. PICK i \in DOMAIN search.sources :
            /\ \E c \in search.sources[i] : c.id = e
            /\ \A j \in 1..i : \A c \in search.sources[j] :
                  c.id = e => LocalCandidate(search.req, c) /\ c.text = 25
  BY DEF Held
<1>2. PICK n \in Nat : DOMAIN search.sources = 1..n
  BY <1>0, LenProperties
<1>3. PICK c \in search.sources[i] : c.id = e
  BY <1>1
<1>4. Wanted(search.req, c.type)
  <2>1. i \in 1..i
    BY <1>2
  <2> QED BY <1>1, <1>3, <2>1 DEF LocalCandidate
<1>5. e \in ShownIds
  <2>1. i \in DOMAIN Shown /\ c \in Shown[i]
    BY <1>3, <1>4, Zenon DEF Shown
  <2> QED BY <1>3, <2>1 DEF ShownIds
<1>6. PICK d : d = Deduplicate(Shown, e)
  OBVIOUS
<1>7. PICK k \in DOMAIN search.sources :
              /\ d \in search.sources[k] /\ d.id = e
              /\ \A j \in DOMAIN search.sources : \A x \in search.sources[j] :
                    x.id = e /\ Wanted(search.req, x.type) => k <= j
  BY <1>0, <1>5, <1>6, FirstIsPicked
<1>8. k \in 1..i
  BY <1>2, <1>3, <1>4, <1>7
<1>9. LocalCandidate(search.req, d) /\ d.text = 25
  BY <1>1, <1>7, <1>8
<1>10. d \in Candidate
  <2>1. search.sources[k] \in SUBSET Candidate
    BY <1>0, <1>7, LenProperties, ElementOfSeq
  <2> QED BY <1>7, <2>1
<1>11. Clamped(fresh, d) \in Nat /\ Clamped(fresh, d) >= 95
  BY <1>5, <1>7, <1>9, <1>10, ExactScore
<1>12. Clamped(fresh, d) >= MinScore
  BY <1>0, <1>11
<1> QED BY <1>5, <1>6, <1>7, <1>12 DEF Survivors

LEMMA ExactMatchesFoundStep ==
    ASSUME MinScore <= 95, TypeInv, Held, PeersLast, ExactMatchesFound, Next
    PROVE  ExactMatchesFound'
<1>0. answers \in Seq(Answer) /\ SearchOK /\ AnswersOK
  BY DEF TypeInv, AnswersOK
<1>1. CASE answers' = answers
  BY <1>1 DEF ExactMatchesFound
<1>2. ASSUME search # None, Respond PROVE ExactMatchesFound'
  <2>1. PICK a \in Answer :
              /\ answers' = Append(answers, a)
              /\ a.lived = lived /\ a.steadfast = steadfast
              /\ a.fresh \in [ShownIds -> Freshness]
              /\ ToSet(a.page) \subseteq ToSet(a.ranked)
              /\ ToSet(a.ranked) = {c.id : c \in Survivors(a.fresh)}
    BY <1>0, <1>2, RespondAnswers
  <2>2. search.local = "done"
    BY <1>2 DEF Respond, PeersLast
  <2>3. \A e \in steadfast : \E d \in Survivors(a.fresh) : d.id = e
    BY <1>2, <2>1, <2>2, HeldSurvives
  <2>4. a.steadfast \subseteq ToSet(a.ranked)
    BY <2>1, <2>3
  <2>5. PICK n \in Nat :
            /\ DOMAIN answers = 1..n /\ DOMAIN answers' = 1..(n + 1)
            /\ \A i \in 1..n : answers'[i] = answers[i]
            /\ answers'[n + 1] = a
    BY <1>0, <2>1, AppendedSource
  <2>6. ASSUME NEW i \in 1..(n + 1)
        PROVE  answers'[i].steadfast \subseteq ToSet(answers'[i].ranked)
    <3>1. i \in 1..n \/ i = n + 1
      OBVIOUS
    <3> QED BY <2>4, <2>5, <3>1 DEF ExactMatchesFound
  <2> QED BY <2>5, <2>6 DEF ExactMatchesFound
<1> QED BY <1>1, <1>2, AnswersChange

\* ExactMatchesFound with the places of the exact matches in a search.
ExactInv ==
    /\ TypeInv /\ SeenNow
    /\ FoundLocal /\ NotYet /\ Held /\ PeersLast
    /\ ExactMatchesFound

\* A local entity that matches exactly during all of a search is in its
\* results, with stale indexes and failing embeddings and however old its row
\* is, when min_score is at most 0.95 (engine.go, the exact-match pass). Above
\* that the freshness decides: the score of a match that nothing else supports
\* decays to 0.95 (ranking.go, computeFreshness).
THEOREM ExactMatchesAreFound ==
    ASSUME MinScore <= 95
    PROVE  Spec => []ExactMatchesFound
<1>1. Init => ExactInv
  <2>1. Init => /\ SeenNow /\ FoundLocal /\ NotYet /\ Held /\ PeersLast
                /\ ExactMatchesFound
    BY DEF Init, SeenNow, FoundLocal, NotYet, Held, PeersLast, ExactMatchesFound
  <2> QED BY <2>1, TypeInvInit DEF ExactInv
<1>2. ExactInv /\ [Next]_vars => ExactInv'
  <2>1. ASSUME ExactInv, Next PROVE ExactInv'
    <3>1. TypeInv'
      BY <2>1, TypeInvStep DEF ExactInv
    <3>2. SeenNow' /\ FoundLocal' /\ NotYet' /\ Held' /\ PeersLast'
      BY <2>1, SeenNowStep, FoundLocalStep, NotYetStep, HeldStep, PeersLastStep
         DEF ExactInv
    <3>3. ExactMatchesFound'
      BY <2>1, ExactMatchesFoundStep DEF ExactInv
    <3> QED BY <3>1, <3>2, <3>3 DEF ExactInv
  <2>2. ASSUME ExactInv, UNCHANGED vars PROVE ExactInv'
    <3>1. TypeInv'
      BY <2>2, TypeInvStep DEF ExactInv
    <3>0. UNCHANGED <<rows, gossip, search, answers, lived, steadfast>>
      BY <2>2 DEF vars
    <3>2. SeenNow'
      BY <2>2, <3>0, Zenon DEF ExactInv, SeenNow, Searchable, Visible, MatchesExactly,
                               Listed, Wanted, IsExactMatch
    <3>3. FoundLocal' /\ NotYet' /\ PeersLast' /\ ExactMatchesFound'
      BY <2>2, <3>0 DEF ExactInv, FoundLocal, NotYet, PeersLast, ExactMatchesFound,
                        LocalCandidate, Wanted
    <3>4. Held'
      <4>1. Held
        BY <2>2 DEF ExactInv
      <4> QED BY <3>0, <4>1 DEF Held, LocalCandidate, Wanted
    <3> QED BY <3>1, <3>2, <3>3, <3>4 DEF ExactInv
  <2> QED BY <2>1, <2>2
<1>3. ExactInv => ExactMatchesFound
  BY DEF ExactInv
<1> QED BY <1>1, <1>2, <1>3, PTL DEF Spec

-----------------------------------------------------------------------------
(* Pages of one list *)

\* What a search may read, as functions of the data alone: the rows rw, the
\* gossip table gs, the indexes kw and vc, whether there is a query text q and
\* which type t is asked for.
LetsThrough(rw, t, e) == rw[e] # None /\ rw[e].active
                         /\ (t = None \/ TypeOf[rw[e].content] = t)
Qualifies(rw, q, t, e) == LetsThrough(rw, t, e) /\ (~q \/ (q /\ rw[e].content \in Exact))
Entry(rw, e, text, near) ==
    [id |-> e, type |-> TypeOf[rw[e].content], text |-> text, semantic |-> near,
     trust |-> 5, dated |-> TRUE, avail |-> 10]

HitsIn(kw, q) ==
    IF ~q THEN {}
    ELSE {[id |-> e, score |-> Bm25[kw.docs[e]]] :
             e \in {x \in Entity : HasTerm(kw.docs[x]) = 1}}
NearIn(vc, q) ==
    IF ~q THEN {}
    ELSE {[id |-> e, score |-> Similarity(vc[e])] :
             e \in {x \in Entity : Similarity(vc[x]) > 0}}
ListsOf(rw) == {E \in SUBSET {e \in Entity : rw[e] # None} :
    Cardinality(E) = Min({2 * Limit, Cardinality({e \in Entity : rw[e] # None})})}
HeardIn(gs, q) ==
    LET entries == {e \in Entity : /\ gs[e] # None /\ ~gs[e].tombstoned
                                   /\ (~q \/ Bm25[gs[e].content] > 0)}
    IN  kSubset(Min({Limit, Cardinality(entries)}), entries)

TextOf(rw, q, T, e) ==
    IF ~\E h \in T : h.id = e THEN 0
    ELSE IF q /\ rw[e].content \in Exact THEN 25
    ELSE Normalised(T, CHOOSE h \in T : h.id = e)
Merged(rw, q, t, T, N) ==
    {Entry(rw, e, TextOf(rw, q, T, e), ScoreIn(N, e)) :
        e \in {x \in {h.id : h \in T \cup N} : LetsThrough(rw, t, x)}}
Passed(rw, q, t, F, E) ==
    {IF c.id \in E /\ Qualifies(rw, q, t, c.id) THEN [c EXCEPT !.text = 25] ELSE c :
        c \in F}
    \cup {Entry(rw, e, 25, 0) :
             e \in {x \in E : Qualifies(rw, q, t, x)} \ {c.id : c \in F}}
HeardOf(gs, q, t, first, E) ==
    {[id |-> e, type |-> TypeOf[gs[e].content], text |-> ScoreIn(first[e], e),
      semantic |-> IF ~q THEN 0 ELSE Cosine[gs[e].content],
      trust |-> 3, dated |-> TRUE, avail |-> 9] :
        e \in {x \in E : gs[x].active /\ (t = None \/ TypeOf[gs[x].content] = t)}}

\* The findings after the merge, the source of the local goroutine and that of
\* the gossip goroutine.
MergesOf(rw, kw, vc, q, t) ==
    {Merged(rw, q, t, T, N) : T \in Top(HitsIn(kw, q), Limit),
                              N \in Top(NearIn(vc, q), Limit)}
LocalSources(rw, kw, vc, q, t) ==
    {Passed(rw, q, t, F, E) : F \in MergesOf(rw, kw, vc, q, t), E \in ListsOf(rw)}
GossipSources(gs, kw, q, t) ==
    UNION {{HeardOf(gs, q, t, first, E) : first \in [E -> Top(HitsIn(kw, q), 1)]} :
              E \in HeardIn(gs, q)}
PeerEntry(e) == [id |-> e, type |-> None, text |-> 0, semantic |-> 0,
                 trust |-> 3, dated |-> FALSE, avail |-> 7]
PeerEntries(P) == {PeerEntry(e) : e \in P}

\* What is left of the three sources when no entity is in both tables.
Kept(fresh, t, L, G, P) ==
    {c \in L \cup G \cup PeerEntries(P \ {d.id : d \in L \cup G}) :
        (t = None \/ c.type = t) /\ Clamped(fresh, c) >= MinScore}

\* The sources of a search whose data nobody changed: one for each goroutine
\* that is done, in either order, and that of the peers last.
SourcesOf(Ls, Gs, se) ==
    /\ se.local # "done" /\ se.gossip # "done" => se.sources = << >>
    /\ se.local = "done" /\ se.gossip # "done" => \E L \in Ls : se.sources = <<L>>
    /\ se.local # "done" /\ se.gossip = "done" => \E G \in Gs : se.sources = <<G>>
    /\ se.local = "done" /\ se.gossip = "done" /\ se.federated # "done"
       => \E L \in Ls, G \in Gs : se.sources \in {<<L, G>>, <<G, L>>}
    /\ se.federated = "done"
       => /\ se.local = "done" /\ se.gossip = "done"
          /\ \E L \in Ls, G \in Gs, P \in SUBSET Entity :
                se.sources \in {<<L, G, PeerEntries(P)>>, <<G, L, PeerEntries(P)>>}

\* An undisturbed search holds what its data give.
HoldsData(se, rw, gs, kw, vc) ==
    /\ se.local \in {"vector", "merge"} => se.hits \in Top(HitsIn(kw, se.req.query), Limit)
    /\ se.local = "merge" => se.near \in Top(NearIn(vc, se.req.query), Limit)
    /\ se.local = "list" => se.found \in MergesOf(rw, kw, vc, se.req.query, se.req.type)
    /\ SourcesOf(LocalSources(rw, kw, vc, se.req.query, se.req.type),
                 GossipSources(gs, kw, se.req.query, se.req.type), se)
Undisturbed ==
    search # None /\ search.stamp # None =>
        /\ search.stamp = writes /\ work = {}
        /\ embedder = "hash" => HoldsData(search, rows, gossip, keyword, vectors)

\* What makes a set of candidates a list of entities.
Listable(K) == /\ IsFiniteSet(K) /\ K \in SUBSET Candidate
               /\ \A c, d \in K : c.id = d.id => c = d

\* An answer is a ranking of what its sources leave.
Explained(a, Ls, Gs) ==
    \E L \in Ls, G \in Gs :
        LET K == Kept(a.fresh, a.req.type, L, G, a.peers)
        IN  /\ Listable(K) /\ a.tied = Tied(a.fresh, K)
            /\ \A c \in K : a.fresh[c.id] \in Freshness
            /\ \E r \in RankWeighted(a.fresh, K) : a.ranked = [i \in DOMAIN r |-> r[i].id]

\* An answer whose data are still there is explained by them.
AnswerHolds(a, wr, wk, em, rw, gs, kw, vc) ==
    /\ PageOf(a)
    /\ a.stamp # None => a.stamp <= wr
    /\ a.stamp = wr => wk = {}
    /\ a.stamp = wr /\ em = "hash" /\ (\A e \in Entity : rw[e] = None \/ gs[e] = None)
       => Explained(a, LocalSources(rw, kw, vc, a.req.query, a.req.type),
                    GossipSources(gs, kw, a.req.query, a.req.type))
AnswersExplained ==
    \A i \in DOMAIN answers :
        AnswerHolds(answers[i], writes, work, embedder, rows, gossip, keyword, vectors)

\* The operators of the model are these functions of its variables.
LEMMA ReadsData ==
    ASSUME NEW req
    PROVE  /\ KeywordHits(req) = HitsIn(keyword, req.query)
           /\ VectorHits(req) = NearIn(vectors, req.query)
           /\ ListEntities = ListsOf(rows)
           /\ SearchGossipByKeyword(req) = HeardIn(gossip, req.query)
<1>1. KeywordHits(req) = HitsIn(keyword, req.query)
  BY Zenon DEF KeywordHits, HitsIn
<1>2. VectorHits(req) = NearIn(vectors, req.query)
  BY Zenon DEF VectorHits, NearIn
<1>3. ListEntities = ListsOf(rows)
  BY Zenon DEF ListEntities, ListsOf
<1>4. SearchGossipByKeyword(req) = HeardIn(gossip, req.query)
  <2>1. \A e : (Visible(e) /\ (~req.query \/ Bm25[gossip[e].content] > 0))
               <=> (/\ gossip[e] # None /\ ~gossip[e].tombstoned
                    /\ (~req.query \/ Bm25[gossip[e].content] > 0))
    BY Zenon DEF Visible
  <2>2. {e \in Entity : Visible(e) /\ (~req.query \/ Bm25[gossip[e].content] > 0)}
        = {e \in Entity : /\ gossip[e] # None /\ ~gossip[e].tombstoned
                          /\ (~req.query \/ Bm25[gossip[e].content] > 0)}
    BY <2>1, Zenon
  <2> QED BY <2>2, Zenon DEF SearchGossipByKeyword, HeardIn
<1> QED BY <1>1, <1>2, <1>3, <1>4

LEMMA MergeReadsData ==
    Merge = Merged(rows, search.req.query, search.req.type, search.hits, search.near)
BY Zenon DEF Merge, Merged, Local, Entry, TextOf, IsExactMatch, LetsThrough, Listed, Wanted

LEMMA ListPassReadsData ==
    ASSUME NEW E
    PROVE  ListPass(E) = Passed(rows, search.req.query, search.req.type, search.found, E)
BY Zenon DEF ListPass, Passed, Local, Entry, Qualifies, IsExactMatch, LetsThrough, Listed,
             Wanted

\* A candidate has a weighted sum.
LEMMA RawIsInt ==
    ASSUME NEW c \in Candidate, NEW fresh, fresh[c.id] \in Freshness
    PROVE  Raw(fresh, c) \in Int
<1>1. PICK a \in Nat, b \in Int, d \in Nat, g \in Nat :
         a = c.text /\ b = c.semantic /\ d = c.trust /\ g = c.avail
  BY DEF Candidate
<1>2. PICK f \in Nat : f = ComputeFreshness(fresh, c)
  BY FreshIsNat DEF ComputeFreshness
<1>3. Raw(fresh, c) = 3 * a + 3 * b + 2 * d + f + g
  BY <1>1, <1>2 DEF Raw
<1> QED BY <1>1, <1>2, <1>3

\* Candidates without ties are sorted in one way.
LEMMA OneRanking ==
    ASSUME NEW C \in SUBSET Candidate, IsFiniteSet(C),
           NEW fresh, \A c \in C : fresh[c.id] \in Freshness, ~Tied(fresh, C),
           NEW r \in RankWeighted(fresh, C), NEW s \in RankWeighted(fresh, C)
    PROVE  r = s
<1>1. PICK n \in Nat : n = Cardinality(C)
  BY FS_CardinalityType
<1>2. /\ r \in [1..n -> C] /\ \A c \in C : \E i \in 1..n : r[i] = c
      /\ s \in [1..n -> C] /\ \A c \in C : \E i \in 1..n : s[i] = c
  BY <1>1, RankedOK
<1>3. /\ \A i, j \in 1..n : i # j => r[i] # r[j]
      /\ \A i, j \in 1..n : i # j => s[i] # s[j]
      /\ \A i, j \in 1..n : i < j => Raw(fresh, r[i]) >= Raw(fresh, r[j])
      /\ \A i, j \in 1..n : i < j => Raw(fresh, s[i]) >= Raw(fresh, s[j])
  BY <1>1, Zenon DEF RankWeighted, SetToSeqs
<1> DEFINE D == {i \in 1..n : r[i] # s[i]}
<1>4. ASSUME D # {} PROVE FALSE
  <2>1. D \in SUBSET Nat
    OBVIOUS
  <2>2. PICK k \in D : \A i \in D : k <= i
    <3> HIDE DEF D
    <3> QED BY <1>4, <2>1, LeastOf
  <2>3. /\ k \in 1..n /\ r[k] # s[k] /\ r[k] \in C /\ s[k] \in C
        /\ \A i \in 1..n : i < k => r[i] = s[i]
    BY <1>2, <2>2
  <2>4. PICK i \in 1..n : s[i] = r[k]
    BY <1>2, <2>3
  <2>5. PICK j \in 1..n : r[j] = s[k]
    BY <1>2, <2>3
  <2>6. i > k
    <3>1. i # k
      BY <2>3, <2>4
    <3>2. ASSUME i < k PROVE FALSE
      <4>1. r[i] = r[k]
        BY <2>3, <2>4, <3>2
      <4> QED BY <1>3, <2>3, <3>2, <4>1
    <3> QED BY <2>3, <3>1, <3>2
  <2>7. j > k
    <3>1. j # k
      BY <2>3, <2>5
    <3>2. ASSUME j < k PROVE FALSE
      <4>1. s[j] = s[k]
        BY <2>3, <2>5, <3>2
      <4> QED BY <1>3, <2>3, <3>2, <4>1
    <3> QED BY <2>3, <3>1, <3>2
  <2>8. Raw(fresh, r[k]) >= Raw(fresh, s[k]) /\ Raw(fresh, s[k]) >= Raw(fresh, r[k])
    <3>1. Raw(fresh, r[k]) >= Raw(fresh, r[j])
      BY <1>3, <2>3, <2>7
    <3>2. Raw(fresh, s[k]) >= Raw(fresh, s[i])
      BY <1>3, <2>3, <2>6
    <3> QED BY <2>4, <2>5, <3>1, <3>2
  <2>9. PICK x \in Int, y \in Int : x = Raw(fresh, r[k]) /\ y = Raw(fresh, s[k])
    BY <2>3, RawIsInt
  <2>10. Raw(fresh, r[k]) = Raw(fresh, s[k])
    BY <2>8, <2>9
  <2> QED BY <2>3, <2>10 DEF Tied
<1>5. \A i \in 1..n : r[i] = s[i]
  BY <1>4
<1> QED BY <1>2, <1>5

\* The candidates of the local goroutine: one for an entity, of a row that the
\* filters let through.
LEMMA LocalSourceShape ==
    ASSUME NEW rw, NEW kw, NEW vc, NEW q, NEW t,
           NEW L \in LocalSources(rw, kw, vc, q, t)
    PROVE  /\ \A c \in L : LetsThrough(rw, t, c.id) /\ (t = None \/ c.type = t)
           /\ \A c, d \in L : c.id = d.id => c = d
<1>1. PICK F \in MergesOf(rw, kw, vc, q, t), E \in ListsOf(rw) : L = Passed(rw, q, t, F, E)
  BY DEF LocalSources
<1>2. PICK T, N : F = Merged(rw, q, t, T, N)
  BY <1>1 DEF MergesOf
<1> DEFINE ids == {x \in {h.id : h \in T \cup N} : LetsThrough(rw, t, x)}
           first(e) == Entry(rw, e, TextOf(rw, q, T, e), ScoreIn(N, e))
           marked(e) == IF e \in E /\ Qualifies(rw, q, t, e)
                        THEN [first(e) EXCEPT !.text = 25] ELSE first(e)
           late == {x \in E : Qualifies(rw, q, t, x)} \ ids
<1>3. \A e, x, y : /\ Entry(rw, e, x, y).id = e
                   /\ Entry(rw, e, x, y).type = TypeOf[rw[e].content]
                   /\ [Entry(rw, e, x, y) EXCEPT !.text = 25].id = e
                   /\ [Entry(rw, e, x, y) EXCEPT !.text = 25].type = TypeOf[rw[e].content]
  BY DEF Entry
<1>4. F = {first(e) : e \in ids}
  BY <1>2, Zenon DEF Merged
<1>5. \A e : first(e).id = e /\ marked(e).id = e
             /\ first(e).type = TypeOf[rw[e].content]
             /\ marked(e).type = TypeOf[rw[e].content]
  BY <1>3
<1>6. L = {IF c.id \in E /\ Qualifies(rw, q, t, c.id) THEN [c EXCEPT !.text = 25] ELSE c :
              c \in F}
          \cup {Entry(rw, e, 25, 0) :
                   e \in {x \in E : Qualifies(rw, q, t, x)} \ {c.id : c \in F}}
  BY <1>1, Zenon DEF Passed
<1>7. {c.id : c \in F} = ids
  <2> HIDE DEF first, ids
  <2> QED BY <1>4, <1>5
<1>8. ASSUME NEW c \in L
      PROVE  \/ c.id \in ids /\ c = marked(c.id)
             \/ c.id \in late /\ c = Entry(rw, c.id, 25, 0)
  <2>1. CASE \E e \in late : c = Entry(rw, e, 25, 0)
    <3>1. PICK e \in late : c = Entry(rw, e, 25, 0)
      BY <2>1
    <3> HIDE DEF ids, late, marked
    <3> QED BY <1>3, <3>1
  <2>2. CASE \E d \in F : c = IF d.id \in E /\ Qualifies(rw, q, t, d.id)
                              THEN [d EXCEPT !.text = 25] ELSE d
    <3>1. PICK e \in ids : c = IF first(e).id \in E /\ Qualifies(rw, q, t, first(e).id)
                               THEN [first(e) EXCEPT !.text = 25] ELSE first(e)
      BY <1>4, <2>2, Zenon
    <3>2. c = marked(e)
      BY <1>5, <3>1, Zenon
    <3> QED BY <1>5, <3>2, Zenon
  <2>3. \/ \E d \in F : c = IF d.id \in E /\ Qualifies(rw, q, t, d.id)
                            THEN [d EXCEPT !.text = 25] ELSE d
        \/ \E e \in late : c = Entry(rw, e, 25, 0)
    <3> HIDE DEF ids
    <3> QED BY <1>6, <1>7, Zenon
  <2> QED BY <2>1, <2>2, <2>3
<1>9. \A e \in ids \cup late : LetsThrough(rw, t, e) /\ (t = None \/ TypeOf[rw[e].content] = t)
  BY Zenon DEF Qualifies, LetsThrough
<1>10. ids \cap late = {}
  OBVIOUS
<1> HIDE DEF ids, late, first, marked
<1>11. \A c \in L : LetsThrough(rw, t, c.id) /\ (t = None \/ c.type = t)
  BY <1>3, <1>5, <1>8, <1>9
<1>12. \A c, d \in L : c.id = d.id => c = d
  BY <1>8, <1>10
<1> QED BY <1>11, <1>12

\* The same of the gossip goroutine.
LEMMA GossipSourceShape ==
    ASSUME NEW gs, NEW kw, NEW q, NEW t, NEW G \in GossipSources(gs, kw, q, t)
    PROVE  /\ \A c \in G : gs[c.id] # None /\ (t = None \/ c.type = t)
           /\ \A c, d \in G : c.id = d.id => c = d
<1>e. PICK E \in HeardIn(gs, q) :
         \E first \in [E -> Top(HitsIn(kw, q), 1)] : G = HeardOf(gs, q, t, first, E)
  BY DEF GossipSources
<1>1. PICK first \in [E -> Top(HitsIn(kw, q), 1)] : G = HeardOf(gs, q, t, first, E)
  BY <1>e
<1>2. \A e \in E : gs[e] # None
  <2> DEFINE entries == {e \in Entity : /\ gs[e] # None /\ ~gs[e].tombstoned
                                        /\ (~q \/ Bm25[gs[e].content] > 0)}
  <2>1. HeardIn(gs, q) = kSubset(Min({Limit, Cardinality(entries)}), entries)
    BY Zenon DEF HeardIn
  <2>2. \A n : kSubset(n, entries) \subseteq SUBSET {e \in Entity : gs[e] # None}
    BY DEF kSubset
  <2> HIDE DEF entries
  <2> QED BY <1>e, <2>1, <2>2
<1> DEFINE cand(e) == [id |-> e, type |-> TypeOf[gs[e].content],
                       text |-> ScoreIn(first[e], e),
                       semantic |-> IF ~q THEN 0 ELSE Cosine[gs[e].content],
                       trust |-> 3, dated |-> TRUE, avail |-> 9]
           Y == {x \in E : gs[x].active /\ (t = None \/ TypeOf[gs[x].content] = t)}
<1>3. G = {cand(e) : e \in Y}
  BY <1>1, Zenon DEF HeardOf
<1>4. \A e : cand(e).id = e /\ cand(e).type = TypeOf[gs[e].content]
  OBVIOUS
<1>5. \A e \in Y : gs[e] # None /\ (t = None \/ TypeOf[gs[e].content] = t)
  BY <1>2
<1> HIDE DEF cand, Y
<1> QED BY <1>3, <1>4, <1>5

LEMMA SurvivorsListable ==
    ASSUME SearchOK, search # None, NEW fresh
    PROVE  Listable(Survivors(fresh))
<1>1. IsFiniteSet(Survivors(fresh)) /\ Survivors(fresh) \in SUBSET Candidate
  BY SurvivorsOK
<1>2. \A c \in Survivors(fresh) : \E e \in ShownIds : c = Deduplicate(Shown, e)
  BY DEF Survivors
<1>3. \A e \in ShownIds : Deduplicate(Shown, e).id = e
  BY FirstIsPicked
<1>4. \A c \in Survivors(fresh) : c = Deduplicate(Shown, c.id)
  BY <1>2, <1>3
<1>5. \A c, d \in Survivors(fresh) : c.id = d.id => c = d
  BY <1>4
<1> QED BY <1>1, <1>5 DEF Listable

\* The candidates that survive depend on the order of the sources only where
\* an entity is in both tables: the sources of the two goroutines come before
\* that of the peers.
LEMMA SurvivorsAreKept ==
    ASSUME SearchOK, search # None,
           NEW fresh, NEW L, NEW G, NEW P \in SUBSET Entity,
           search.sources \in {<<L, G, PeerEntries(P)>>, <<G, L, PeerEntries(P)>>},
           \A c \in L \cup G : search.req.type = None \/ c.type = search.req.type,
           \A c, d \in L \cup G : c.id = d.id => c = d
    PROVE  Survivors(fresh) = Kept(fresh, search.req.type, L, G, P)
<1> DEFINE t == search.req.type
           own == {d.id : d \in L \cup G}
           R == PeerEntries(P \ own)
<1>1. /\ DOMAIN search.sources = 1..3 /\ search.sources[3] = PeerEntries(P)
      /\ \/ search.sources[1] = L /\ search.sources[2] = G
         \/ search.sources[1] = G /\ search.sources[2] = L
  OBVIOUS
<1>2. /\ \A i \in DOMAIN search.sources : i = 1 \/ i = 2 \/ i = 3
      /\ 1 \in DOMAIN search.sources /\ 2 \in DOMAIN search.sources
      /\ 3 \in DOMAIN search.sources
  BY <1>1
<1>3. \A c : Wanted(search.req, c.type) <=> (t = None \/ c.type = t)
  BY DEF Wanted
<1>4. /\ \A c \in L \cup G : \E i \in DOMAIN search.sources : i <= 2 /\ c \in search.sources[i]
      /\ \A i \in DOMAIN search.sources : i <= 2 => search.sources[i] \subseteq L \cup G
      /\ \A i \in DOMAIN search.sources : i <= 2 \/ i = 3
  <2>1. 1 <= 2 /\ 2 <= 2 /\ ~(3 <= 2)
    OBVIOUS
  <2> QED BY <1>1, <1>2, <2>1, Zenon
<1>5. /\ \A c \in PeerEntries(P) : c = PeerEntry(c.id) /\ c.id \in P
      /\ \A c \in R : c = PeerEntry(c.id) /\ c.id \in P /\ c.id \notin own
      /\ \A e \in P : PeerEntry(e) \in PeerEntries(P)
      /\ \A e \in P \ own : PeerEntry(e) \in R
  <2>1. \A e : PeerEntry(e).id = e
    BY DEF PeerEntry
  <2> HIDE DEF own
  <2> QED BY <2>1 DEF PeerEntries
<1>6. \A c \in L \cup G : t = None \/ c.type = t
  OBVIOUS
<1>7. /\ \A c \in L \cup G : c.id \in own
      /\ \A e \in own : \E c \in L \cup G : c.id = e
  OBVIOUS
<1>8. PICK Src : Src = search.sources
  OBVIOUS
<1> HIDE DEF own, t, R
<1>9. ASSUME NEW i \in DOMAIN Src, NEW c \in Src[i], t = None \/ c.type = t
      PROVE  c.id \in ShownIds
  <2>1. i \in DOMAIN Shown /\ c \in Shown[i]
    BY <1>3, <1>8, <1>9, Zenon DEF Shown
  <2> QED BY <2>1 DEF ShownIds
<1>10. ASSUME NEW e \in ShownIds
       PROVE  \E i \in DOMAIN Src :
              /\ Deduplicate(Shown, e) \in Src[i]
              /\ t = None \/ Deduplicate(Shown, e).type = t
              /\ Deduplicate(Shown, e).id = e
              /\ \A j \in DOMAIN Src : \A c \in Src[j] :
                    c.id = e /\ (t = None \/ c.type = t) => i <= j
  <2>1. PICK i \in DOMAIN search.sources :
              /\ Deduplicate(Shown, e) \in search.sources[i]
              /\ Wanted(search.req, Deduplicate(Shown, e).type)
              /\ Deduplicate(Shown, e).id = e
              /\ \A j \in DOMAIN search.sources : \A c \in search.sources[j] :
                    c.id = e /\ Wanted(search.req, c.type) => i <= j
    BY FirstIsPicked
  <2> QED BY <1>3, <1>8, <2>1
\* What Deduplicate keeps of an entity.
<1>11. ASSUME NEW e \in ShownIds
       PROVE  /\ Deduplicate(Shown, e) \in L \cup G \cup R
              /\ t = None \/ Deduplicate(Shown, e).type = t
              /\ Deduplicate(Shown, e).id = e
  <2>1. PICK i \in DOMAIN Src :
              /\ Deduplicate(Shown, e) \in Src[i]
              /\ t = None \/ Deduplicate(Shown, e).type = t
              /\ Deduplicate(Shown, e).id = e
              /\ \A j \in DOMAIN Src : \A c \in Src[j] :
                    c.id = e /\ (t = None \/ c.type = t) => i <= j
    BY <1>10
  <2>2. CASE i <= 2
    BY <1>4, <1>8, <2>1, <2>2
  <2>3. CASE i = 3
    <3>1. e \notin own
      <4>1. SUFFICES ASSUME e \in own PROVE FALSE
        OBVIOUS
      <4>2. PICK c \in L \cup G : c.id = e
        BY <1>7, <4>1
      <4>3. PICK j \in DOMAIN Src : j <= 2 /\ c \in Src[j]
        BY <1>4, <1>8
      <4>4. i <= j
        BY <1>6, <2>1, <4>2, <4>3
      <4>5. j \in 1..3
        BY <1>1, <1>8, <4>3
      <4> QED BY <2>3, <4>3, <4>4, <4>5
    <3>2. Deduplicate(Shown, e) \in PeerEntries(P)
      BY <1>1, <1>8, <2>1, <2>3
    <3>3. e \in P /\ Deduplicate(Shown, e) = PeerEntry(e)
      BY <1>5, <2>1, <3>2
    <3> QED BY <1>5, <2>1, <3>1, <3>3
  <2> QED BY <1>4, <1>8, <2>2, <2>3
<1>12. \A c, d \in L \cup G \cup R : c.id = d.id => c = d
  <2>1. \A c, d \in L \cup G : c.id = d.id => c = d
    OBVIOUS
  <2> QED BY <1>5, <1>7, <2>1
<1>13. ASSUME NEW c \in L \cup G \cup R, t = None \/ c.type = t
       PROVE  c.id \in ShownIds /\ c = Deduplicate(Shown, c.id)
  <2>1. \E i \in DOMAIN Src : c \in Src[i]
    <3>1. CASE c \in L \cup G
      BY <1>4, <1>8, <3>1
    <3>2. CASE c \in R
      BY <1>1, <1>2, <1>5, <1>8, <3>2
    <3> QED BY <3>1, <3>2
  <2>2. c.id \in ShownIds
    BY <1>9, <1>13, <2>1
  <2> QED BY <1>11, <1>12, <2>2
<1>14. Kept(fresh, search.req.type, L, G, P)
       = {c \in L \cup G \cup R :
            (t = None \/ c.type = t) /\ Clamped(fresh, c) >= MinScore}
  BY Zenon DEF Kept, R, own, t
<1> QED BY <1>11, <1>13, <1>14 DEF Survivors

LEMMA AppendedTuples ==
    ASSUME NEW x, NEW y, NEW z
    PROVE  /\ Append(<< >>, x) = <<x>> /\ Append(<<x>>, y) = <<x, y>>
           /\ Append(<<x, y>>, z) = <<x, y, z>>
<1> DEFINE T == {x, y, z}
<1>1. << >> \in Seq(T) /\ <<x>> \in Seq(T) /\ <<x, y>> \in Seq(T) /\ <<x, y, z>> \in Seq(T)
      /\ x \in T /\ y \in T /\ z \in T
  OBVIOUS
<1> HIDE DEF T
<1>2. Append(<< >>, x) = <<x>>
  BY <1>1, AppendProperties, SeqEqual
<1>3. Append(<<x>>, y) = <<x, y>>
  <2>1. Append(<<x>>, y) \in Seq(T) /\ Len(Append(<<x>>, y)) = 2
        /\ Append(<<x>>, y)[1] = x /\ Append(<<x>>, y)[2] = y
    BY <1>1, AppendProperties
  <2>2. PICK s \in Seq(T) : s = Append(<<x>>, y)
    BY <2>1
  <2>3. PICK r \in Seq(T) : r = <<x, y>>
    BY <1>1
  <2>4. Len(s) = 2 /\ Len(r) = 2 /\ s[1] = r[1] /\ s[2] = r[2]
    BY <2>1, <2>2, <2>3
  <2>5. \A i \in 1..2 : i = 1 \/ i = 2
    OBVIOUS
  <2>6. Len(s) = Len(r) /\ \A i \in 1..Len(s) : s[i] = r[i]
    BY <2>4, <2>5
  <2>7. s = r
    BY <2>6, SeqEqual
  <2> QED BY <2>2, <2>3, <2>7
<1>4. Append(<<x, y>>, z) = <<x, y, z>>
  <2>1. Append(<<x, y>>, z) \in Seq(T) /\ Len(Append(<<x, y>>, z)) = 3
        /\ Append(<<x, y>>, z)[1] = x /\ Append(<<x, y>>, z)[2] = y
        /\ Append(<<x, y>>, z)[3] = z
    BY <1>1, AppendProperties
  <2>2. PICK s \in Seq(T) : s = Append(<<x, y>>, z)
    BY <2>1
  <2>3. PICK r \in Seq(T) : r = <<x, y, z>>
    BY <1>1
  <2>4. Len(s) = 3 /\ Len(r) = 3 /\ s[1] = r[1] /\ s[2] = r[2] /\ s[3] = r[3]
    BY <2>1, <2>2, <2>3
  <2>5. \A i \in 1..3 : i = 1 \/ i = 2 \/ i = 3
    OBVIOUS
  <2>6. Len(s) = Len(r) /\ \A i \in 1..Len(s) : s[i] = r[i]
    BY <2>4, <2>5
  <2>7. s = r
    BY <2>6, SeqEqual
  <2> QED BY <2>2, <2>3, <2>7
<1> QED BY <1>2, <1>3, <1>4

\* A goroutine that is not done yet leaves the sources as they are.
LEMMA SourcesStay ==
    ASSUME NEW Ls, NEW Gs, NEW se, NEW so, SourcesOf(Ls, Gs, se),
           so.local = "done" <=> se.local = "done", so.gossip = se.gossip,
           so.federated = se.federated, so.sources = se.sources
    PROVE  SourcesOf(Ls, Gs, so)
BY DEF SourcesOf

\* With the hash embedder the gossip goroutine adds what the data give.
LEMMA HeardFromData ==
    ASSUME embedder = "hash", SearchGossip
    PROVE  \E G \in GossipSources(gossip, keyword, search.req.query, search.req.type) :
              search' = [search EXCEPT !.sources = Append(@, G), !.gossip = "done"]
<1> DEFINE q == search.req.query
           t == search.req.type
           Said(first, fails, E) ==
              {[id |-> e, type |-> TypeOf[gossip[e].content],
                text |-> ScoreIn(first[e], e),
                semantic |-> IF fails[e] \/ ~q THEN 0 ELSE Cosine[gossip[e].content],
                trust |-> 3, dated |-> TRUE, avail |-> 9] : e \in
                   {x \in E : /\ gossip[x].active
                              /\ Wanted(search.req, TypeOf[gossip[x].content])}}
<1>1. PICK E \in SearchGossipByKeyword(search.req) :
         \E first \in [E -> Top(KeywordHits(search.req), 1)], fails \in [E -> Fails] :
            search' = [search EXCEPT !.sources = Append(@, Said(first, fails, E)),
                                     !.gossip = "done"]
  BY Zenon DEF SearchGossip
<1>2. PICK first \in [E -> Top(KeywordHits(search.req), 1)], fails \in [E -> Fails] :
         search' = [search EXCEPT !.sources = Append(@, Said(first, fails, E)),
                                  !.gossip = "done"]
  BY <1>1, Zenon
<1>3. Said(first, fails, E) = HeardOf(gossip, q, t, first, E)
  <2>1. \A e \in E : fails[e] = FALSE
    BY <1>2 DEF Fails
  <2>2. \A e \in E : (IF fails[e] \/ ~q THEN 0 ELSE Cosine[gossip[e].content])
               = (IF ~q THEN 0 ELSE Cosine[gossip[e].content])
    BY <2>1
  <2>3. \A e : Wanted(search.req, TypeOf[gossip[e].content])
               <=> (t = None \/ TypeOf[gossip[e].content] = t)
    BY DEF Wanted
  <2> QED BY <2>2, <2>3 DEF HeardOf
<1> HIDE DEF Said
<1>5. PICK G : G = HeardOf(gossip, q, t, first, E)
  OBVIOUS
<1>6. search' = [search EXCEPT !.sources = Append(@, G), !.gossip = "done"]
  BY <1>2, <1>3, <1>5, Zenon
<1>7. G \in GossipSources(gossip, keyword, q, t)
  BY <1>1, <1>2, <1>5, ReadsData DEF GossipSources
<1> QED BY <1>6, <1>7, Zenon

\* The source of the peers.
LEMMA CollectedFromPeers ==
    ASSUME Federate
    PROVE  \E P \in SUBSET Entity :
              search' = [search EXCEPT !.sources = Append(@, PeerEntries(P)),
                                       !.federated = "done"]
<1>1. PICK E \in SUBSET {e \in Entity : Remote[e] # None} :
         search' = [search EXCEPT
              !.sources = Append(@, {[id |-> e, type |-> None, text |-> 0,
                  semantic |-> 0, trust |-> 3, dated |-> FALSE, avail |-> 7] :
                     e \in {x \in E : Wanted(search.req, TypeOf[Remote[x]])}}),
              !.federated = "done"]
  BY Zenon DEF Federate
<1>2. PICK P : P = {x \in E : Wanted(search.req, TypeOf[Remote[x]])}
  OBVIOUS
<1>3. P \in SUBSET Entity
  BY <1>2
<1>4. search' = [search EXCEPT !.sources = Append(@, PeerEntries(P)), !.federated = "done"]
  BY <1>1, <1>2, Zenon DEF PeerEntries, PeerEntry
<1> QED BY <1>3, <1>4, Zenon

LEMMA UndisturbedStep ==
    ASSUME TypeInv, Undisturbed, Next
    PROVE  Undisturbed'
<1>1. SUFFICES ASSUME search' # None, search'.stamp # None
               PROVE  /\ search'.stamp = writes' /\ work' = {}
                      /\ embedder' = "hash"
                         => HoldsData(search', rows', gossip', keyword', vectors')
  BY DEF Undisturbed
<1>2. ~Disturb /\ ~Restart /\ ~Respond
  <2>1. ~Disturb
    <3>1. search # None => search \in SearchState
      BY DEF TypeInv, SearchOK
    <3> QED BY <1>1, <3>1 DEF Disturb, SearchState
  <2>2. ~Restart /\ ~Respond
    BY <1>1, Zenon DEF Restart, Respond
  <2> QED BY <2>1, <2>2
<1>3. CASE BeginSearch
  <2>1. PICK req : search' = [local |-> "keyword", gossip |-> "read",
                  federated |-> "ask", req |-> req, hits |-> {}, near |-> {},
                  found |-> {}, sources |-> << >>,
                  stamp |-> IF work = {} THEN writes ELSE None]
    BY <1>3, Zenon DEF BeginSearch
  <2>2. search'.stamp = writes /\ work = {} /\ work' = work /\ writes' = writes
    <3>1. search'.stamp = IF work = {} THEN writes ELSE None
      BY <2>1
    <3>2. work' = work /\ writes' = writes
      BY <1>3, Zenon DEF BeginSearch
    <3> QED BY <1>1, <3>1, <3>2
  <2>3. /\ search'.local = "keyword" /\ search'.gossip = "read"
        /\ search'.federated = "ask" /\ search'.sources = << >>
    BY <2>1
  <2>4. \A Ls, Gs : SourcesOf(Ls, Gs, search')
    BY <2>3 DEF SourcesOf
  <2> QED BY <2>2, <2>3, <2>4 DEF HoldsData
<1>4. ASSUME search # None, SearchStep
      PROVE  /\ search'.stamp = writes' /\ work' = {}
             /\ embedder' = "hash"
                => HoldsData(search', rows', gossip', keyword', vectors')
  <2>1. /\ rows' = rows /\ gossip' = gossip /\ keyword' = keyword /\ vectors' = vectors
        /\ work' = work /\ writes' = writes /\ embedder' = embedder
    <3>1. Advance
      BY <1>2, <1>4, StepAdvances
    <3> QED BY <3>1 DEF Advance, tables, indexes, Next
  <2>2. search \in SearchState
    BY <1>4 DEF TypeInv, SearchOK
  <2>3. PICK q, t : q = search.req.query /\ t = search.req.type
    OBVIOUS
  <2>4. PICK Ls, Gs : /\ Ls = LocalSources(rows, keyword, vectors, q, t)
                      /\ Gs = GossipSources(gossip, keyword, q, t)
    OBVIOUS
  <2>5. ASSUME search.stamp # None, embedder = "hash"
        PROVE  /\ search.local \in {"vector", "merge"}
                     => search.hits \in Top(HitsIn(keyword, q), Limit)
               /\ search.local = "merge" => search.near \in Top(NearIn(vectors, q), Limit)
               /\ search.local = "list" => search.found \in MergesOf(rows, keyword, vectors, q, t)
               /\ SourcesOf(Ls, Gs, search)
    BY <1>4, <2>3, <2>4, <2>5 DEF Undisturbed, HoldsData
  <2>6. SUFFICES /\ search'.req = search.req /\ search'.stamp = search.stamp
                 /\ search.stamp # None /\ embedder = "hash" =>
                      /\ search'.local \in {"vector", "merge"}
                            => search'.hits \in Top(HitsIn(keyword, q), Limit)
                      /\ search'.local = "merge"
                            => search'.near \in Top(NearIn(vectors, q), Limit)
                      /\ search'.local = "list"
                            => search'.found \in MergesOf(rows, keyword, vectors, q, t)
                      /\ SourcesOf(Ls, Gs, search')
    BY <1>1, <1>4, <2>1, <2>3, <2>4 DEF Undisturbed, HoldsData
  <2>7. CASE SearchKeyword
    <3>1. PICK T \in Top(KeywordHits(search.req), Limit) :
             search' = [search EXCEPT !.hits = T, !.local = "vector"]
      BY <2>7, Zenon DEF SearchKeyword
    <3>2. T \in Top(HitsIn(keyword, q), Limit)
      BY <2>3, <3>1, ReadsData
    <3>3. search.local = "keyword"
      BY <2>7 DEF SearchKeyword
    <3>4. /\ search'.req = search.req /\ search'.stamp = search.stamp
          /\ search'.local = "vector" /\ search'.hits = T
          /\ search'.gossip = search.gossip /\ search'.federated = search.federated
          /\ search'.sources = search.sources
      BY <2>2, <3>1 DEF SearchState
    <3> QED BY <2>5, <3>2, <3>3, <3>4, SourcesStay
  <2>8. CASE SearchVector
    <3>1. PICK fails \in Fails :
             \E T \in Top(IF fails THEN {} ELSE VectorHits(search.req), Limit) :
                search' = [search EXCEPT !.near = T, !.local = "merge"]
      BY <2>8, Zenon DEF SearchVector
    <3>2. PICK T \in Top(IF fails THEN {} ELSE VectorHits(search.req), Limit) :
             search' = [search EXCEPT !.near = T, !.local = "merge"]
      BY <3>1, Zenon
    <3>3. embedder = "hash" => T \in Top(NearIn(vectors, q), Limit)
      <4>1. embedder = "hash" => fails = FALSE
        BY <3>1 DEF Fails
      <4> QED BY <2>3, <3>2, <4>1, ReadsData
    <3>4. search.local = "vector"
      BY <2>8 DEF SearchVector
    <3>5. /\ search'.req = search.req /\ search'.stamp = search.stamp
          /\ search'.local = "merge" /\ search'.near = T /\ search'.hits = search.hits
          /\ search'.gossip = search.gossip /\ search'.federated = search.federated
          /\ search'.sources = search.sources
      BY <2>2, <3>2 DEF SearchState
    <3> QED BY <2>5, <3>3, <3>4, <3>5, SourcesStay
  <2>9. CASE MergeHits
    <3>1. PICK M : M = Merge
      OBVIOUS
    <3>2. search.local = "merge" /\ search' = [search EXCEPT !.found = M, !.local = "list"]
      BY <2>9, <3>1 DEF MergeHits
    <3>3. /\ search'.req = search.req /\ search'.stamp = search.stamp
          /\ search'.local = "list" /\ search'.found = M
          /\ search'.gossip = search.gossip /\ search'.federated = search.federated
          /\ search'.sources = search.sources
      BY <2>2, <3>2 DEF SearchState
    <3>4. search.stamp # None /\ embedder = "hash"
             => M \in MergesOf(rows, keyword, vectors, q, t)
      BY <2>3, <2>5, <3>1, <3>2, MergeReadsData DEF MergesOf
    <3> QED BY <2>5, <3>2, <3>3, <3>4, SourcesStay
  <2>10. CASE FinishLocal
    <3>1. PICK E \in ListEntities :
             search' = [search EXCEPT !.sources = Append(@, ListPass(E)),
                                   !.found = {}, !.hits = {}, !.near = {},
                                   !.local = "done"]
      BY <2>10, Zenon DEF FinishLocal
    <3>2. PICK L : L = ListPass(E)
      OBVIOUS
    <3>3. search.local = "list"
      BY <2>10 DEF FinishLocal
    <3>4. search' = [search EXCEPT !.sources = Append(@, L),
                                   !.found = {}, !.hits = {}, !.near = {},
                                   !.local = "done"]
      BY <3>1, <3>2
    <3>5. /\ search'.req = search.req /\ search'.stamp = search.stamp
          /\ search'.local = "done" /\ search'.sources = Append(search.sources, L)
          /\ search'.gossip = search.gossip /\ search'.federated = search.federated
      BY <2>2, <3>4 DEF SearchState
    <3>6. search.stamp # None /\ embedder = "hash" => L \in Ls
      BY <2>3, <2>4, <2>5, <3>1, <3>2, <3>3, ListPassReadsData, ReadsData DEF LocalSources
    <3>7. ASSUME L \in Ls, SourcesOf(Ls, Gs, search) PROVE SourcesOf(Ls, Gs, search')
      <4>1. search.federated # "done" /\ search'.federated # "done"
        BY <3>3, <3>5, <3>7 DEF SourcesOf
      <4>2. CASE search.gossip # "done"
        <5>1. search.sources = << >>
          BY <3>3, <3>7, <4>2 DEF SourcesOf
        <5>2. search'.sources = <<L>>
          BY <3>5, <5>1, AppendedTuples, Zenon
        <5> QED BY <3>5, <3>7, <4>1, <4>2, <5>2 DEF SourcesOf
      <4>3. CASE search.gossip = "done"
        <5>1. PICK G \in Gs : search.sources = <<G>>
          BY <3>3, <3>7, <4>3 DEF SourcesOf
        <5>2. search'.sources = <<G, L>>
          BY <3>5, <5>1, AppendedTuples, Zenon
        <5>3. \E X \in Ls, Y \in Gs : search'.sources \in {<<X, Y>>, <<Y, X>>}
          BY <3>7, <5>2
        <5> QED BY <3>5, <4>1, <4>3, <5>3, Zenon DEF SourcesOf
      <4> QED BY <4>2, <4>3
    <3> QED BY <2>5, <3>5, <3>6, <3>7
  <2>11. CASE SearchGossip
    <3>1. PICK S : search' = [search EXCEPT !.sources = Append(@, S), !.gossip = "done"]
      BY <2>11, Zenon DEF SearchGossip
    <3>2. search.gossip = "read"
      BY <2>11 DEF SearchGossip
    <3>3. /\ search'.req = search.req /\ search'.stamp = search.stamp
          /\ search'.local = search.local /\ search'.sources = Append(search.sources, S)
          /\ search'.gossip = "done" /\ search'.federated = search.federated
          /\ search'.hits = search.hits /\ search'.near = search.near
          /\ search'.found = search.found
      BY <2>2, <3>1 DEF SearchState
    <3>4. embedder = "hash" => \E G \in Gs : search'.sources = Append(search.sources, G)
      <4>1. SUFFICES ASSUME embedder = "hash"
                     PROVE  \E G \in Gs : search'.sources = Append(search.sources, G)
        OBVIOUS
      <4>2. PICK G \in Gs :
               search' = [search EXCEPT !.sources = Append(@, G), !.gossip = "done"]
        BY <2>3, <2>4, <2>11, <4>1, HeardFromData, Zenon
      <4>3. search'.sources = Append(search.sources, G)
        BY <2>2, <4>2 DEF SearchState
      <4> QED BY <4>2, <4>3
    <3>5. ASSUME NEW G \in Gs, search'.sources = Append(search.sources, G),
                 SourcesOf(Ls, Gs, search)
          PROVE  SourcesOf(Ls, Gs, search')
      <4>1. search.federated # "done" /\ search'.federated # "done"
        BY <3>2, <3>3, <3>5 DEF SourcesOf
      <4>2. CASE search.local # "done"
        <5>1. search.sources = << >>
          BY <3>2, <3>5, <4>2 DEF SourcesOf
        <5>2. search'.sources = <<G>>
          BY <3>5, <5>1, AppendedTuples, Zenon
        <5> QED BY <3>3, <3>5, <4>1, <4>2, <5>2 DEF SourcesOf
      <4>3. CASE search.local = "done"
        <5>1. PICK L \in Ls : search.sources = <<L>>
          BY <3>2, <3>5, <4>3 DEF SourcesOf
        <5>2. search'.sources = <<L, G>>
          BY <3>5, <5>1, AppendedTuples, Zenon
        <5>3. \E X \in Ls, Y \in Gs : search'.sources \in {<<X, Y>>, <<Y, X>>}
          BY <3>5, <5>2
        <5> QED BY <3>3, <4>1, <4>3, <5>3, Zenon DEF SourcesOf
      <4> QED BY <4>2, <4>3
    <3> QED BY <2>5, <3>3, <3>4, <3>5
  <2>12. CASE Federate
    <3>1. PICK P \in SUBSET Entity :
              search' = [search EXCEPT !.sources = Append(@, PeerEntries(P)),
                                       !.federated = "done"]
      BY <2>12, CollectedFromPeers, Zenon
    <3>2. search.local = "done" /\ search.gossip = "done" /\ search.federated = "ask"
      BY <2>12 DEF Federate
    <3>3. /\ search'.req = search.req /\ search'.stamp = search.stamp
          /\ search'.local = search.local /\ search'.gossip = search.gossip
          /\ search'.sources = Append(search.sources, PeerEntries(P))
          /\ search'.federated = "done"
      BY <2>2, <3>1 DEF SearchState
    <3>4. ASSUME SourcesOf(Ls, Gs, search) PROVE SourcesOf(Ls, Gs, search')
      <4>1. PICK L \in Ls, G \in Gs : search.sources \in {<<L, G>>, <<G, L>>}
        BY <3>2, <3>4 DEF SourcesOf
      <4>2. search'.sources \in {<<L, G, PeerEntries(P)>>, <<G, L, PeerEntries(P)>>}
        <5>1. search.sources = <<L, G>> \/ search.sources = <<G, L>>
          BY <4>1
        <5>2. \/ search'.sources = <<L, G, PeerEntries(P)>>
              \/ search'.sources = <<G, L, PeerEntries(P)>>
          BY <3>3, <5>1, AppendedTuples, Zenon
        <5> QED BY <5>2
      <4> QED BY <3>1, <3>2, <3>3, <4>2 DEF SourcesOf
    <3> QED BY <2>5, <3>2, <3>3, <3>4
  <2> QED BY <1>2, <1>4, <2>7, <2>8, <2>9, <2>10, <2>11, <2>12 DEF SearchStep
<1> QED BY <1>2, <1>3, <1>4 DEF Next

\* The data of a search change with a write or with an index update that a
\* write still owes.
LEMMA DataChange ==
    ASSUME Next
    PROVE  /\ embedder' = embedder
           /\ \/ writes' = writes + 1
              \/ writes' = writes /\ work # {}
              \/ UNCHANGED <<rows, gossip, keyword, vectors, work, writes>>
<1>0. \A owed : Write(owed) => writes' = writes + 1
  BY DEF Write
<1>1. ASSUME NEW e, Handler(e) \/ HandleAnnouncement(e) PROVE writes' = writes + 1
  BY <1>0, <1>1 DEF Handler, RegisterEntity, UpdateEntity, DeleteEntity, SetStatus,
                    HandleAnnouncement, ApplyGossip, TombstoneGossip
<1>2. ASSUME NEW w \in work, IndexKeyword(w) \/ IndexVector(w)
      PROVE  writes' = writes /\ work # {}
  BY <1>2 DEF IndexKeyword, IndexVector
<1>3. Restart => writes' = writes + 1
  BY DEF Restart
<1>4. BeginSearch => UNCHANGED <<rows, gossip, keyword, vectors, work, writes>>
  BY DEF BeginSearch, tables, indexes
<1>5. SearchStep => UNCHANGED <<rows, gossip, keyword, vectors, work, writes>>
  BY SearchStepKeeps DEF tables, indexes
<1> QED BY <1>1, <1>2, <1>3, <1>4, <1>5 DEF Next

\* An answer that held goes on to hold: either its data are still there or its
\* stamp is behind.
LEMMA AnswerGoesOn ==
    ASSUME TypeInv, Next, NEW a \in Answer,
           AnswerHolds(a, writes, work, embedder, rows, gossip, keyword, vectors)
    PROVE  AnswerHolds(a, writes', work', embedder', rows', gossip', keyword', vectors')
<1>1. writes \in Nat /\ (a.stamp = None \/ a.stamp \in Nat) /\ None \notin Nat
  BY SearchAssumption DEF TypeInv, IndexOK, Answer, Opt
<1>2. /\ PageOf(a)
      /\ a.stamp # None => a.stamp <= writes
      /\ a.stamp = writes => work = {}
  BY DEF AnswerHolds
<1>3. ASSUME writes' = writes + 1
      PROVE  a.stamp # writes' /\ (a.stamp # None => a.stamp <= writes')
  BY <1>1, <1>2, <1>3
<1>4. ASSUME writes' = writes, work # {}
      PROVE  a.stamp # writes' /\ (a.stamp # None => a.stamp <= writes')
  BY <1>2, <1>4
<1>5. CASE a.stamp # writes' /\ (a.stamp # None => a.stamp <= writes')
  BY <1>2, <1>5 DEF AnswerHolds
<1>6. CASE UNCHANGED <<rows, gossip, keyword, vectors, work, writes>> /\ embedder' = embedder
  BY <1>6
<1> QED BY <1>3, <1>4, <1>5, <1>6, DataChange

\* The answer of an undisturbed search is explained by the data.
LEMMA RespondHolds ==
    ASSUME TypeInv, Undisturbed, search # None, Respond, NEW a \in Answer,
           a.req = search.req, a.stamp = search.stamp,
           a.fresh \in [ShownIds -> Freshness],
           a.peers = {c.id : c \in Last(search.sources)},
           a.tied = Tied(a.fresh, Survivors(a.fresh)), PageOf(a),
           \E r \in RankWeighted(a.fresh, Survivors(a.fresh)) : a.ranked = [i \in DOMAIN r |-> r[i].id]
    PROVE  AnswerHolds(a, writes, work, embedder, rows, gossip, keyword, vectors)
<1>1. writes \in Nat /\ None \notin Nat /\ SearchOK
  BY SearchAssumption DEF TypeInv, IndexOK
<1>2. a.stamp # None => a.stamp = writes /\ work = {}
  BY DEF Undisturbed
<1>3. /\ a.stamp # None => a.stamp <= writes
      /\ a.stamp = writes => work = {}
  BY <1>1, <1>2
<1>4. PICK q, t : q = search.req.query /\ t = search.req.type
  OBVIOUS
<1>5. PICK Ls, Gs : /\ Ls = LocalSources(rows, keyword, vectors, q, t)
                    /\ Gs = GossipSources(gossip, keyword, q, t)
  OBVIOUS
<1>6. ASSUME a.stamp = writes, embedder = "hash",
             \A e \in Entity : rows[e] = None \/ gossip[e] = None
      PROVE  Explained(a, Ls, Gs)
  <2>1. SourcesOf(Ls, Gs, search)
    <3>1. search.stamp # None
      BY <1>1, <1>6
    <3> QED BY <1>4, <1>5, <1>6, <3>1 DEF Undisturbed, HoldsData
  <2>2. search.federated = "done"
    BY Zenon DEF Respond
  <2>3. PICK L \in Ls, G \in Gs, P \in SUBSET Entity :
           search.sources \in {<<L, G, PeerEntries(P)>>, <<G, L, PeerEntries(P)>>}
    BY <2>1, <2>2 DEF SourcesOf
  <2>4. /\ \A c \in L : LetsThrough(rows, t, c.id) /\ (t = None \/ c.type = t)
        /\ \A c, d \in L : c.id = d.id => c = d
    BY <1>5, LocalSourceShape
  <2>5. /\ \A c \in G : gossip[c.id] # None /\ (t = None \/ c.type = t)
        /\ \A c, d \in G : c.id = d.id => c = d
    BY <1>5, GossipSourceShape
  <2>6. \A c \in L \cup G : c.id \in Entity
    <3>1. \A S \in {L, G} : \E i \in DOMAIN search.sources : search.sources[i] = S
      BY <2>3
    <3>2. \A i \in DOMAIN search.sources : search.sources[i] \in SUBSET Candidate
      <4>1. search.sources \in Seq(SUBSET Candidate)
        BY <1>1 DEF SearchOK, SearchState
      <4> QED BY <4>1, LenProperties, ElementOfSeq
    <3> QED BY <3>1, <3>2 DEF Candidate
  <2>7. /\ \A c \in L \cup G : t = None \/ c.type = t
        /\ \A c, d \in L \cup G : c.id = d.id => c = d
    <3>1. \A c \in L : rows[c.id] # None
      BY <2>4 DEF LetsThrough
    <3> QED BY <1>6, <2>4, <2>5, <2>6, <3>1
  <2>8. Survivors(a.fresh) = Kept(a.fresh, t, L, G, P)
    BY <1>1, <1>4, <2>3, <2>7, SurvivorsAreKept
  <2>9. a.peers = P
    <3>1. Last(search.sources) = PeerEntries(P)
      <4>1. PICK R : R = PeerEntries(P)
        OBVIOUS
      <4>2. Last(<<L, G, R>>) = R /\ Last(<<G, L, R>>) = R
        BY DEF Last
      <4>3. search.sources = <<L, G, R>> \/ search.sources = <<G, L, R>>
        BY <2>3, <4>1
      <4> QED BY <4>1, <4>2, <4>3, Zenon
    <3>2. \A e : PeerEntry(e).id = e
      BY DEF PeerEntry
    <3> QED BY <3>1, <3>2 DEF PeerEntries
  <2>10. Listable(Survivors(a.fresh))
    BY <1>1, SurvivorsListable
  <2>11. Kept(a.fresh, a.req.type, L, G, a.peers) = Survivors(a.fresh)
    BY <1>4, <2>8, <2>9, Zenon
  <2>12. PICK K : K = Kept(a.fresh, a.req.type, L, G, a.peers)
    OBVIOUS
  <2>c. \A c \in K : a.fresh[c.id] \in Freshness
    <3>1. \A c \in Survivors(a.fresh) : c.id \in ShownIds
      BY <1>1, FirstIsPicked DEF Survivors
    <3> QED BY <2>11, <2>12, <3>1
  <2>13. /\ Listable(K) /\ a.tied = Tied(a.fresh, K)
         /\ \E r \in RankWeighted(a.fresh, K) : a.ranked = [i \in DOMAIN r |-> r[i].id]
    BY <2>10, <2>11, <2>12, Zenon
  <2> QED BY <2>3, <2>c, <2>12, <2>13, Zenon DEF Explained
<1> QED BY <1>3, <1>4, <1>5, <1>6 DEF AnswerHolds

LEMMA AnswersExplainedStep ==
    ASSUME TypeInv, Undisturbed, AnswersExplained, Next
    PROVE  AnswersExplained'
<1> DEFINE Now(a) == AnswerHolds(a, writes, work, embedder, rows, gossip, keyword, vectors)
           Then(a) == AnswerHolds(a, writes', work', embedder', rows', gossip',
                                  keyword', vectors')
<1>1. SUFFICES \A i \in DOMAIN answers' : Then(answers'[i])
  BY DEF AnswersExplained
<1>2. answers \in Seq(Answer) /\ SearchOK /\ AnswersOK
  BY DEF TypeInv, AnswersOK
<1>3. \A i \in DOMAIN answers : answers[i] \in Answer /\ Now(answers[i])
  BY <1>2, LenProperties, ElementOfSeq DEF AnswersExplained
<1>4. \A a \in Answer : Now(a) => Then(a)
  BY AnswerGoesOn
<1> HIDE DEF Now, Then
<1>5. CASE answers' = answers
  BY <1>3, <1>4, <1>5
<1>6. ASSUME search # None, Respond PROVE \A i \in DOMAIN answers' : Then(answers'[i])
  <2>1. PICK a \in Answer :
              /\ answers' = Append(answers, a)
              /\ a.req = search.req /\ a.stamp = search.stamp
              /\ a.fresh \in [ShownIds -> Freshness]
              /\ a.peers = {c.id : c \in Last(search.sources)}
              /\ a.tied = Tied(a.fresh, Survivors(a.fresh)) /\ PageOf(a)
              /\ \E r \in RankWeighted(a.fresh, Survivors(a.fresh)) :
                    a.ranked = [i \in DOMAIN r |-> r[i].id]
    BY <1>2, <1>6, RespondAnswers, Zenon
  <2>2. Now(a)
    BY <1>6, <2>1, RespondHolds, Zenon DEF Now
  <2>3. PICK n \in Nat :
            /\ DOMAIN answers = 1..n /\ DOMAIN answers' = 1..(n + 1)
            /\ \A i \in 1..n : answers'[i] = answers[i]
            /\ answers'[n + 1] = a
    <3>1. answers' = Append(answers, a)
      BY <2>1
    <3> QED BY <1>2, <3>1, AppendedSource
  <2>4. \A i \in 1..(n + 1) : i \in 1..n \/ i = n + 1
    OBVIOUS
  <2> QED BY <1>3, <1>4, <2>2, <2>3, <2>4
<1> QED BY <1>5, <1>6, AnswersChange

\* What the part of a list from k to m holds.
LEMMA PartOfList ==
    ASSUME NEW S, NEW s \in Seq(S), NEW n \in Nat, n = Len(s),
           NEW k \in Nat, NEW m \in Nat, k >= 1, m <= n
    PROVE  /\ ToSet(SubSeq(s, k, m)) = {s[i] : i \in k..m}
           /\ SubSeq(s, k, m) = << >> <=> m < k
<1>1. \A i \in k..m : i \in 1..n
  OBVIOUS
<1>2. \A i \in 1..n : s[i] \in S
  BY ElementOfSeq
<1>3. PICK p : p = SubSeq(s, k, m)
  OBVIOUS
<1>4. PICK l \in Nat : l = IF k <= m THEN m - k + 1 ELSE 0
  <2>1. k <= m => m - k + 1 \in Nat
    OBVIOUS
  <2> QED BY <2>1
<1>5. p \in Seq(S) /\ Len(p) = l /\ \A i \in 1..l : p[i] = s[k + i - 1]
  <2>1. \A i \in k..m : s[i] \in S
    BY <1>1, <1>2
  <2> QED BY <1>3, <1>4, <2>1, SubSeqProperties
<1>6. DOMAIN p = 1..l
  BY <1>5, LenProperties
<1>7. ASSUME NEW i \in k..m PROVE \E j \in 1..l : p[j] = s[i]
  <2>1. i - k + 1 \in 1..l /\ k + (i - k + 1) - 1 = i
    BY <1>4, <1>7
  <2> QED BY <1>5, <2>1
<1>8. ASSUME NEW j \in 1..l PROVE \E i \in k..m : p[j] = s[i]
  <2>1. k + j - 1 \in k..m
    BY <1>4, <1>8
  <2> QED BY <1>5, <2>1
<1>9. ToSet(p) = {s[i] : i \in k..m}
  BY <1>6, <1>7, <1>8 DEF ToSet
<1>10. p = << >> <=> m < k
  <2>1. p = << >> <=> l = 0
    BY <1>5, EmptySeq
  <2>2. l = 0 <=> m < k
    BY <1>4
  <2> QED BY <2>1, <2>2
<1> QED BY <1>3, <1>9, <1>10

\* Choices that are not there make the sources of two searches the same.
LEMMA OneSource ==
    ASSUME NEW q, NEW t, NEW req, q = req.query, Determined(req),
           NEW L \in LocalSources(rows, keyword, vectors, q, t),
           NEW M \in LocalSources(rows, keyword, vectors, q, t),
           NEW G \in GossipSources(gossip, keyword, q, t),
           NEW H \in GossipSources(gossip, keyword, q, t)
    PROVE  L = M /\ G = H
<1>1. /\ \A x, y \in Top(HitsIn(keyword, q), Limit) : x = y
      /\ \A x, y \in Top(HitsIn(keyword, q), 1) : x = y
      /\ \A x, y \in Top(NearIn(vectors, q), Limit) : x = y
      /\ \A x, y \in ListsOf(rows) : x = y
      /\ \A x, y \in HeardIn(gossip, q) : x = y
  BY ReadsData, Zenon DEF Determined, OneChoice
<1>2. \A x, y \in MergesOf(rows, keyword, vectors, q, t) : x = y
  BY <1>1 DEF MergesOf
<1>3. L = M
  BY <1>1, <1>2 DEF LocalSources
<1>4. G = H
  BY <1>1 DEF GossipSources
<1> QED BY <1>3, <1>4

LEMMA PagesExplained ==
    ASSUME TypeInv, AnswersExplained
    PROVE  PagesOfOneList
<1>1. SUFFICES ASSUME NEW i \in DOMAIN answers, NEW j \in DOMAIN answers,
                      NEW a, NEW b, a = answers[i], b = answers[j],
                      b.req = [a.req EXCEPT !.offset = @ + PageSize],
                      a.stamp = writes, b.stamp = writes,
                      embedder = "hash", a.peers = b.peers, a.fresh = b.fresh, ~a.tied,
                      Determined(a.req)
               PROVE  /\ a.ranked = b.ranked
                      /\ ToSet(a.page) \cap ToSet(b.page) = {}
                      /\ a.more <=> b.page # << >>
                      /\ a.req.offset = 0 /\ ~b.more
                         => ToSet(a.page) \cup ToSet(b.page) = ToSet(a.ranked)
  BY Zenon DEF PagesOfOneList
<1>2. a \in Answer /\ b \in Answer
  BY <1>1, LenProperties, ElementOfSeq DEF TypeInv, AnswersOK
<1>3. PICK q, t : q = a.req.query /\ t = a.req.type
  OBVIOUS
<1>4. PICK off \in Nat : off = a.req.offset
  BY <1>2 DEF Answer, Request
<1>5. PICK z \in Nat : z = PageSize /\ z > 0
  BY SearchAssumption
<1>6. b.req.query = q /\ b.req.type = t /\ b.req.offset = off + z
  BY <1>1, <1>2, <1>3, <1>4, <1>5 DEF Answer, Request
<1>7. /\ PageOf(a) /\ PageOf(b)
      /\ Explained(a, LocalSources(rows, keyword, vectors, q, t),
                   GossipSources(gossip, keyword, q, t))
      /\ Explained(b, LocalSources(rows, keyword, vectors, q, t),
                   GossipSources(gossip, keyword, q, t))
  <2>1. \A e \in Entity : rows[e] = None \/ gossip[e] = None
    BY <1>1 DEF Determined
  <2>2. /\ AnswerHolds(a, writes, work, embedder, rows, gossip, keyword, vectors)
        /\ AnswerHolds(b, writes, work, embedder, rows, gossip, keyword, vectors)
    BY <1>1, Zenon DEF AnswersExplained
  <2> QED BY <1>1, <1>3, <1>6, <2>1, <2>2, Zenon DEF AnswerHolds
<1>8. PICK K : /\ Listable(K) /\ a.tied = Tied(a.fresh, K)
               /\ \A c \in K : a.fresh[c.id] \in Freshness
               /\ \E r \in RankWeighted(a.fresh, K) : a.ranked = [k \in DOMAIN r |-> r[k].id]
               /\ \E r \in RankWeighted(a.fresh, K) : b.ranked = [k \in DOMAIN r |-> r[k].id]
  <2>1. PICK L \in LocalSources(rows, keyword, vectors, q, t),
             G \in GossipSources(gossip, keyword, q, t) :
           /\ Listable(Kept(a.fresh, t, L, G, a.peers))
           /\ a.tied = Tied(a.fresh, Kept(a.fresh, t, L, G, a.peers))
           /\ \A c \in Kept(a.fresh, t, L, G, a.peers) : a.fresh[c.id] \in Freshness
           /\ \E r \in RankWeighted(a.fresh, Kept(a.fresh, t, L, G, a.peers)) :
                 a.ranked = [k \in DOMAIN r |-> r[k].id]
    BY <1>3, <1>7, Zenon DEF Explained
  <2>2. PICK M \in LocalSources(rows, keyword, vectors, q, t),
             H \in GossipSources(gossip, keyword, q, t) :
           \E r \in RankWeighted(b.fresh, Kept(b.fresh, t, M, H, b.peers)) :
                 b.ranked = [k \in DOMAIN r |-> r[k].id]
    BY <1>6, <1>7, Zenon DEF Explained
  <2>3. L = M /\ G = H
    <3>1. PICK req : req = a.req
      OBVIOUS
    <3>2. q = req.query /\ Determined(req)
      BY <1>1, <1>3, <3>1
    <3> QED BY <3>2, OneSource
  <2>4. PICK K : K = Kept(a.fresh, t, L, G, a.peers)
    OBVIOUS
  <2>5. K = Kept(b.fresh, t, M, H, b.peers) /\ b.fresh = a.fresh
    BY <1>1, <2>3, <2>4, Zenon
  <2>6. /\ Listable(K) /\ a.tied = Tied(a.fresh, K)
        /\ \A c \in K : a.fresh[c.id] \in Freshness
        /\ \E r \in RankWeighted(a.fresh, K) : a.ranked = [k \in DOMAIN r |-> r[k].id]
        /\ \E r \in RankWeighted(a.fresh, K) : b.ranked = [k \in DOMAIN r |-> r[k].id]
    BY <2>1, <2>2, <2>4, <2>5, Zenon
  <2> QED BY <2>6, Zenon
<1>9. PICK r \in RankWeighted(a.fresh, K) : a.ranked = [k \in DOMAIN r |-> r[k].id]
  BY <1>8
<1>10. a.ranked = b.ranked
  <2>1. PICK u \in RankWeighted(a.fresh, K) : b.ranked = [k \in DOMAIN u |-> u[k].id]
    BY <1>8
  <2>2. u = r
    BY <1>1, <1>8, <1>9, <2>1, OneRanking DEF Listable
  <2> QED BY <1>9, <2>1, <2>2
<1>11. PICK s \in Seq(Entity) : s = a.ranked
  BY <1>2 DEF Answer
<1>12. PICK n \in Nat : n = Len(s)
  BY <1>11, LenProperties
<1>13. \A k, l \in 1..n : k # l => s[k] # s[l]
  <2>1. PICK c \in Nat : c = Cardinality(K)
    BY <1>8, FS_CardinalityType DEF Listable
  <2>2. /\ r \in [1..c -> K]
        /\ \A k, l \in 1..c : k # l => r[k] # r[l]
    BY <1>9, <2>1, Zenon DEF RankWeighted, SetToSeqs
  <2>3. s = [k \in 1..c |-> r[k].id]
    BY <1>9, <1>11, <2>2
  <2>4. DOMAIN s = 1..n
    BY <1>11, <1>12, LenProperties
  <2>5. 1..n = 1..c
    BY <2>3, <2>4
  <2>6. \A k, l \in 1..c : k # l => r[k].id # r[l].id
    BY <1>8, <2>2 DEF Listable
  <2> QED BY <2>3, <2>5, <2>6
<1>14. PICK m \in Nat : m = Min({off + z, n})
  <2>1. PICK x \in Nat : x = off + z
    OBVIOUS
  <2> QED BY <2>1, MinOfTwo
<1>15. PICK o \in Nat : o = Min({off + z + z, n})
  <2>1. PICK x \in Nat : x = off + z + z
    OBVIOUS
  <2> QED BY <2>1, MinOfTwo
<1>16. /\ a.page = SubSeq(s, off + 1, m) /\ b.page = SubSeq(s, off + z + 1, o)
       /\ a.more = (n - off > z) /\ b.more = (n - (off + z) > z)
  BY <1>4, <1>5, <1>6, <1>7, <1>10, <1>11, <1>12, <1>14, <1>15 DEF PageOf
<1>m. (m = off + z \/ m = n) /\ m <= off + z /\ m <= n
  <2>1. PICK x \in Nat : x = off + z
    OBVIOUS
  <2>2. {x, n} \in SUBSET Nat /\ {x, n} # {}
    OBVIOUS
  <2>3. Min({x, n}) \in {x, n} /\ \A y \in {x, n} : Min({x, n}) <= y
    BY <2>2, LeastOf
  <2>4. (m = x \/ m = n) /\ m <= x /\ m <= n
    BY <1>14, <2>1, <2>3
  <2> QED BY <2>1, <2>4
<1>o. (o = off + z + z \/ o = n) /\ o <= off + z + z /\ o <= n
  <2>1. PICK x \in Nat : x = off + z + z
    OBVIOUS
  <2>2. {x, n} \in SUBSET Nat /\ {x, n} # {}
    OBVIOUS
  <2>3. Min({x, n}) \in {x, n} /\ \A y \in {x, n} : Min({x, n}) <= y
    BY <2>2, LeastOf
  <2>4. (o = x \/ o = n) /\ o <= x /\ o <= n
    BY <1>15, <2>1, <2>3
  <2> QED BY <2>1, <2>4
<1>17. /\ ToSet(a.page) = {s[k] : k \in (off + 1)..m}
       /\ ToSet(b.page) = {s[k] : k \in (off + z + 1)..o}
       /\ b.page = << >> <=> o < off + z + 1
  <2>1. PICK k \in Nat : k = off + 1
    OBVIOUS
  <2>2. PICK l \in Nat : l = off + z + 1
    OBVIOUS
  <2>3. k >= 1 /\ l >= 1 /\ m <= n /\ o <= n
    BY <1>m, <1>o, <2>1, <2>2
  <2>4. ToSet(SubSeq(s, k, m)) = {s[y] : y \in k..m}
    BY <1>12, <2>3, PartOfList
  <2>5. /\ ToSet(SubSeq(s, l, o)) = {s[y] : y \in l..o}
        /\ SubSeq(s, l, o) = << >> <=> o < l
    BY <1>12, <2>3, PartOfList
  <2> QED BY <1>16, <2>1, <2>2, <2>4, <2>5
<1>z. z > 0
  BY <1>5
<1>18. ToSet(a.page) \cap ToSet(b.page) = {}
  <2>1. \A k \in (off + 1)..m : k \in 1..n /\ k < off + z + 1
    BY <1>m
  <2>2. \A l \in (off + z + 1)..o : l \in 1..n /\ l >= off + z + 1
    BY <1>o
  <2>3. \A k \in (off + 1)..m, l \in (off + z + 1)..o : s[k] # s[l]
    <3>1. \A k \in (off + 1)..m, l \in (off + z + 1)..o : k \in 1..n /\ l \in 1..n /\ k # l
      BY <2>1, <2>2
    <3> QED BY <1>13, <3>1
  <2> QED BY <1>17, <2>3
<1>19. a.more <=> b.page # << >>
  <2>1. (n - off > z) <=> ~(o < off + z + 1)
    BY <1>o, <1>z
  <2> QED BY <1>16, <1>17, <2>1
<1>20. ASSUME off = 0, ~b.more PROVE ToSet(a.page) \cup ToSet(b.page) = ToSet(s)
  <2>0. n <= off + z + z
    <3>1. ~(n - (off + z) > z)
      BY <1>16, <1>20
    <3> QED BY <3>1
  <2>1. o = n
    BY <1>o, <2>0
  <2>2. \A k \in 1..n : k \in (off + 1)..m \/ k \in (off + z + 1)..o
    BY <1>m, <1>20, <2>1
  <2>3. \A k \in (off + 1)..m : k \in 1..n
    BY <1>m
  <2>4. \A k \in (off + z + 1)..o : k \in 1..n
    BY <1>o
  <2>5. ToSet(s) = {s[k] : k \in 1..n}
    BY <1>12, LenProperties DEF ToSet
  <2> QED BY <1>17, <2>2, <2>3, <2>4, <2>5
<1> QED BY <1>4, <1>10, <1>11, <1>18, <1>19, <1>20

\* PagesOfOneList with what an undisturbed search holds and what explains the
\* answers.
PagesInv == TypeInv /\ Undisturbed /\ AnswersExplained

\* Two searches for successive pages of one request over unchanged data are
\* answered from one list, whatever the sizes, limits and scores are and in
\* whichever order the goroutines come, unless the order of a map or a table
\* decides what is found or how equal scores are sorted, or an entry got less
\* fresh between the two: no entity is on both
\* pages or lost between them, and has_more is right (engine.go, Search;
\* ranking.go, RankWeighted, Deduplicate).
THEOREM PagesAreOfOneList == Spec => []PagesOfOneList
<1>1. Init => PagesInv
  <2>1. Init => Undisturbed /\ AnswersExplained
    BY DEF Init, Undisturbed, AnswersExplained
  <2> QED BY <2>1, TypeInvInit DEF PagesInv
<1>2. PagesInv /\ [Next]_vars => PagesInv'
  <2>1. ASSUME PagesInv, Next PROVE PagesInv'
    BY <2>1, TypeInvStep, UndisturbedStep, AnswersExplainedStep DEF PagesInv
  <2>2. ASSUME PagesInv, UNCHANGED vars PROVE PagesInv'
    <3>1. TypeInv'
      BY <2>2, TypeInvStep DEF PagesInv
    <3>2. Undisturbed' /\ AnswersExplained'
      BY <2>2 DEF PagesInv, vars, Undisturbed, AnswersExplained
    <3> QED BY <3>1, <3>2 DEF PagesInv
  <2> QED BY <2>1, <2>2
<1>3. PagesInv => PagesOfOneList
  BY PagesExplained DEF PagesInv
<1> QED BY <1>1, <1>2, <1>3, PTL DEF Spec

=============================================================================
