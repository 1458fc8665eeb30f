------------------------------- MODULE Search -------------------------------
(***************************************************************************)
(* The search engine of a registry (internal/search), the ranker           *)
(* (internal/ranking) and the writers that keep the indexes.               *)
(*                                                                         *)
(* A request or an announcement writes the store first, then the keyword   *)
(* index, then the vector index; other requests come between. A search     *)
(* reads the indexes first and the store afterwards, with the gossip table *)
(* read by a goroutine of its own, so it sees the four at different times. *)
(*                                                                         *)
(* There is one query text. What a row says is abstracted to a Content:    *)
(* how it scores for that text and which entity type it has. Scores are    *)
(* tenths (text, similarity, trust, freshness, availability) and           *)
(* hundredths (the weighted sum). The other filters of a request (category,*)
(* tags, developer) are applied at the same places as the entity type.     *)
(***************************************************************************)
EXTENDS Integers, Sequences, FiniteSets, FiniteSetsExt, SequencesExt

CONSTANTS
    Entity,
    Owned,        \* the entities that register here
    Foreign,      \* the entities that peers announce; one may be both
    Content,      \* what a row may say
    Exact,        \* the contents with a name, category or tag equal to the query
    Bm25,         \* Bm25[c]: the keyword score, 0 when no term matches
    Cosine,       \* Cosine[c]: the similarity to the query, -10 to 10
    TypeOf,       \* TypeOf[c]: the entity type
    Requests,     \* the requests that clients make
    Remote,       \* Remote[e]: the content in the answers of peers, or None
    Limit,        \* internalLimit: how many hits an index returns
    PageSize,     \* max_results
    MinScore,     \* search.min_score, in hundredths
    Freshness,    \* the values of the decay by the age of an entry
    Drafts,       \* the contents that writers bring
    MaxWrites,    \* bound: writes and restarts of a run
    MaxOps,       \* bound: writes, restarts and searches of a run
    Zero,         \* the zero vector of an embedder that failed
    None          \* no row, no document, no filter

EntityType == {TypeOf[c] : c \in Content}
Opt(S) == S \cup {None}

\* A search request as far as the engine uses it here. handleSearch refuses
\* one without any filter.
Request == {r \in [query : BOOLEAN, type : Opt(EntityType), offset : Nat,
                   federated : BOOLEAN] : r.query \/ r.type # None}

ASSUME SearchAssumption ==
    /\ Owned \cup Foreign \subseteq Entity
    /\ Exact \subseteq Content /\ Drafts \subseteq Content
    /\ Bm25 \in [Content -> Nat] /\ Cosine \in [Content -> -10..10]
    /\ Remote \in [Entity -> Opt(Content)]
    /\ None \notin Content \cup EntityType \cup Nat /\ Zero \notin Opt(Content)
    /\ IsFiniteSet(Entity)
    /\ Requests \subseteq Request
    /\ {Limit, PageSize} \subseteq Nat \ {0}
    /\ Freshness # {} /\ Freshness \subseteq 0..10
    /\ {MinScore, MaxWrites, MaxOps} \subseteq Nat

VARIABLES
    embedder,  \* which embedder the node was configured with
    rows,      \* the entities table
    gossip,    \* the gossip_entities table
    keyword,   \* the keyword index: docs, docCount and the df of the query's term
    vectors,   \* the vector index: the content that was embedded
    work,      \* index updates that handlers still owe
    writes,    \* writes so far
    search,    \* the search that runs
    answers,   \* the answers so far
    lived,     \* history: entities searchable at some moment of the search
    steadfast  \* history: entities with an exact match during all of the search

tables == <<rows, gossip>>
indexes == <<keyword, vectors>>
vars == <<embedder, rows, gossip, keyword, vectors, work, writes, search, answers,
          lived, steadfast>>

Row == [content : Content, active : BOOLEAN]
GossipRow == [content : Content, active : BOOLEAN, tombstoned : BOOLEAN]
KeywordIndex == [docs : [Entity -> Opt(Content)], docCount : Nat, df : Nat]
\* What IndexAgent, IndexGossipEntry and RemoveAgent (doc = None) have to do.
Work == [id : Nat, entity : Entity, doc : Opt(Content),
         next : {"keyword", "vector"}]
Hit == [id : Entity, score : Nat]
Candidate == [id : Entity, type : Opt(EntityType), text : Nat, semantic : Int,
              trust : Nat, dated : BOOLEAN, avail : Nat]
SearchState == [local : {"keyword", "vector", "merge", "list", "done"},
                gossip : {"read", "done"}, federated : {"ask", "done"},
                req : Request, hits : SUBSET Hit, near : SUBSET Hit,
                found : SUBSET Candidate, sources : Seq(SUBSET Candidate),
                stamp : Opt(Nat)]
\* ranked is what is paged through: the survivors of every filter, in order;
\* fresh is how fresh the ranker found the entities at its time; tied says
\* whether two of them have the same weighted sum; peers is what the peers
\* answered. The last two are the history of its search.
Answer == [req : Request, ranked : Seq(Entity),
           fresh : UNION {[E -> Freshness] : E \in SUBSET Entity}, tied : BOOLEAN,
           page : Seq(Entity), more : BOOLEAN, peers : SUBSET Entity,
           stamp : Opt(Nat), lived : SUBSET Entity, steadfast : SUBSET Entity]

\* Every table, index, search and answer keeps its type.
TypeOK ==
    /\ embedder \in {"hash", "http"}
    /\ rows \in [Entity -> Opt(Row)]
    /\ gossip \in [Entity -> Opt(GossipRow)]
    /\ keyword \in KeywordIndex
    /\ vectors \in [Entity -> Opt(Content) \cup {Zero}]
    /\ work \in SUBSET Work
    /\ writes \in 0..MaxWrites
    /\ search = None \/ search \in SearchState
    /\ answers \in Seq(Answer)
    /\ lived \in SUBSET Entity /\ steadfast \in SUBSET Entity
-----------------------------------------------------------------------------
(* The indexes *)

HasTerm(doc) == IF doc # None /\ Bm25[doc] > 0 THEN 1 ELSE 0
Counted(doc) == IF doc # None THEN 1 ELSE 0
\* df[t] is deleted from the map when it reaches zero.
Less(df, n) == IF df > n THEN df - n ELSE 0

IndexWithoutRemove(idx, e, doc) ==
    [docs |-> [idx.docs EXCEPT ![e] = doc],
     docCount |-> idx.docCount + 1,
     df |-> idx.df + HasTerm(doc)]
\* The old document of the entity leaves the counts first.
IndexDocument(idx, e, doc) ==
    [docs |-> [idx.docs EXCEPT ![e] = doc],
     docCount |-> idx.docCount - Counted(idx.docs[e]) + 1,
     df |-> Less(idx.df, HasTerm(idx.docs[e])) + HasTerm(doc)]

RemoveDocument(idx, e) ==
    [docs |-> [idx.docs EXCEPT ![e] = None],
     docCount |-> idx.docCount - Counted(idx.docs[e]),
     df |-> Less(idx.df, HasTerm(idx.docs[e]))]

\* An embedder behind HTTP that fails answers with the zero vector, which is
\* near nothing. The hash embedder does not fail.
Fails == IF embedder = "http" THEN BOOLEAN ELSE {FALSE}
Embed(c) == {IF fails THEN Zero ELSE c : fails \in Fails}
Similarity(v) == IF v \in Content THEN Cosine[v] ELSE 0

\* The index after a start: the local rows, and no gossip entry.
Rebuilt(table) ==
    LET docs == [e \in Entity |->
                   IF table[e] = None THEN None ELSE table[e].content]
    IN  [docs |-> docs,
         docCount |-> Cardinality({e \in Entity : docs[e] # None}),
         df |-> Cardinality({e \in Entity : HasTerm(docs[e]) = 1})]

Init ==
    /\ embedder \in {"hash", "http"}
    /\ rows \in [Entity -> Opt([content : Content, active : {TRUE}])]
    /\ gossip \in [Entity -> Opt([content : Content, active : {TRUE},
                                  tombstoned : {FALSE}])]
    /\ keyword = Rebuilt(rows)
    /\ vectors = keyword.docs
    /\ work = {} /\ writes = 0
    /\ search = None /\ answers = << >>
    /\ lived = {} /\ steadfast = {}
-----------------------------------------------------------------------------
(* The writers: the store first, the indexes owed *)

\* A search counts twice.
MayStart(n) ==
    writes + 2 * (Len(answers) + IF search = None THEN 0 ELSE 1) + n <= MaxOps

Write(owed) ==
    /\ MayStart(1) /\ writes < MaxWrites
    /\ writes' = writes + 1
    /\ work' = work \cup owed
    /\ UNCHANGED <<indexes, answers>>

IndexAgent(e, c) == {[id |-> writes, entity |-> e, doc |-> c, next |-> "keyword"]}
RemoveAgent(e) == {[id |-> writes, entity |-> e, doc |-> None, next |-> "keyword"]}

RegisterEntity(e) == \E c \in Drafts :
    /\ rows[e] = None
    /\ rows' = [rows EXCEPT ![e] = [content |-> c, active |-> TRUE]]
    /\ UNCHANGED gossip
    /\ Write(IndexAgent(e, c))

UpdateEntity(e) == \E c \in Drafts :
    /\ rows[e] # None
    /\ rows' = [rows EXCEPT ![e].content = c]
    /\ UNCHANGED gossip
    /\ Write(IndexAgent(e, c))

DeleteEntity(e) ==
    /\ rows[e] # None
    /\ rows' = [rows EXCEPT ![e] = None]
    /\ UNCHANGED gossip
    /\ Write(RemoveAgent(e))

\* A heartbeat, or the sweep of the liveness monitor.
SetStatus(e) ==
    /\ rows[e] # None
    /\ rows' = [rows EXCEPT ![e].active = ~@]
    /\ UNCHANGED gossip
    /\ Write({})

\* A register or update announcement of a peer.
ApplyGossip(e) == \E c \in Drafts, s \in BOOLEAN :
    /\ gossip' = [gossip EXCEPT ![e] = [content |-> c, active |-> s,
                                        tombstoned |-> FALSE]]
    /\ UNCHANGED rows
    /\ Write(IndexAgent(e, c))

\* A deregister announcement: the indexes keep the document.
TombstoneGossip(e) ==
    /\ gossip[e] # None /\ ~gossip[e].tombstoned
    /\ gossip' = [gossip EXCEPT ![e].tombstoned = TRUE]
    /\ UNCHANGED rows
    /\ Write({})

IndexKeyword(w) ==
    /\ w.next = "keyword"
    /\ keyword' = IF w.doc = None THEN RemoveDocument(keyword, w.entity)
                  ELSE IndexDocument(keyword, w.entity, w.doc)
    /\ work' = (work \ {w}) \cup {[w EXCEPT !.next = "vector"]}
    /\ UNCHANGED <<tables, vectors, writes, answers>>

IndexVector(w) ==
    /\ w.next = "vector"
    /\ \E v \in IF w.doc = None THEN {None} ELSE Embed(w.doc) :
          vectors' = [vectors EXCEPT ![w.entity] = v]
    /\ work' = work \ {w}
    /\ UNCHANGED <<tables, keyword, writes, answers>>

\* The process ends and is started again; the search in it gets no answer.
Restart ==
    /\ MayStart(1) /\ writes < MaxWrites /\ writes' = writes + 1
    /\ keyword' = Rebuilt(rows) /\ vectors' = keyword'.docs
    /\ work' = {} /\ search' = None
    /\ UNCHANGED <<tables, answers>>
-----------------------------------------------------------------------------
(* One search *)

Wanted(req, type) == req.type = None \/ type = req.type

\* The row of an entity as the filters of searchLocal let it through.
Listed(req, e) == rows[e] # None /\ rows[e].active
                  /\ Wanted(req, TypeOf[rows[e].content])

\* sort.Slice by score, cut at n: documents of equal score in any order.
Top(hits, n) ==
    {T \in SUBSET hits :
        /\ Cardinality(T) = Min({n, Cardinality(hits)})
        /\ \A t \in T, h \in hits \ T : t.score >= h.score}

\* Without a query there is no term to score.
KeywordHits(req) ==
    IF ~req.query THEN {}
    ELSE {[id |-> e, score |-> Bm25[keyword.docs[e]]] :
             e \in {x \in Entity : HasTerm(keyword.docs[x]) = 1}}

VectorHitsUnfiltered(req) ==
    IF ~req.query THEN {}
    ELSE {[id |-> e, score |-> Similarity(vectors[e])] :
             e \in {x \in Entity : vectors[x] # None}}
\* Only positive similarities.
VectorHits(req) ==
    IF ~req.query THEN {}
    ELSE {[id |-> e, score |-> Similarity(vectors[e])] :
             e \in {x \in Entity : Similarity(vectors[x]) > 0}}

ScoreIn(hits, e) == IF \E h \in hits : h.id = e
                    THEN (CHOOSE h \in hits : h.id = e).score ELSE 0

\* A client pages through the results of its request.
BeginSearch == \E req \in Requests :
    /\ search = None /\ MayStart(2)
    /\ IF answers = << >> THEN req.offset = 0
       ELSE req = [Last(answers).req EXCEPT !.offset = @ + PageSize]
    /\ search' = [local |-> "keyword", gossip |-> "read",
                  federated |-> "ask", req |-> req, hits |-> {}, near |-> {},
                  found |-> {}, sources |-> << >>,
                  stamp |-> IF work = {} THEN writes ELSE None]
    /\ UNCHANGED <<tables, indexes, work, writes, answers>>

Advance == UNCHANGED <<tables, indexes, work, writes, answers>>

SearchKeyword ==
    /\ search.local = "keyword"
    /\ \E T \in Top(KeywordHits(search.req), Limit) :
          search' = [search EXCEPT !.hits = T, !.local = "vector"]
    /\ Advance

SearchVector ==
    /\ search.local = "vector"
    /\ \E fails \in Fails :
       \E T \in Top(IF fails THEN {} ELSE VectorHits(search.req), Limit) :
          search' = [search EXCEPT !.near = T, !.local = "merge"]
    /\ Advance

\* A candidate made of a row has the row's date, which the ranker reads later.
Local(e, text, semantic) ==
    [id |-> e, type |-> TypeOf[rows[e].content], text |-> text,
     semantic |-> semantic, trust |-> 5, dated |-> TRUE, avail |-> 10]

IsExactMatch(req, e) == req.query /\ rows[e].content \in Exact

\* A keyword hit has its score normalised to 10 for the best hit, or 25 when
\* it matches exactly. Hits without a row, or with one that is filtered, go.
Normalised(hits, h) == (10 * h.score) \div Max({k.score : k \in hits})
MergeUnchecked ==
    LET ids == {h.id : h \in search.hits \cup search.near}
    IN  {[id |-> e, type |-> None, text |-> 10, semantic |-> ScoreIn(search.near, e),
          trust |-> 5, dated |-> TRUE, avail |-> 10] : e \in ids}
Merge ==
    LET req == search.req
        ids == {h.id : h \in search.hits \cup search.near}
        text(e) == IF ~\E h \in search.hits : h.id = e THEN 0
                   ELSE IF IsExactMatch(req, e) THEN 25
                   ELSE Normalised(search.hits,
                                   CHOOSE h \in search.hits : h.id = e)
    IN  {Local(e, text(e), ScoreIn(search.near, e)) :
            e \in {x \in ids : Listed(req, x)}}

MergeHits ==
    /\ search.local = "merge"
    /\ search' = [search EXCEPT !.found = Merge, !.local = "list"]
    /\ Advance

\* ListEntities(limit*2): the rows updated last.
ListEntities == {E \in SUBSET {e \in Entity : rows[e] # None} :
    Cardinality(E) = Min({2 * Limit, Cardinality({e \in Entity : rows[e] # None})})}

\* The exact-match pass over the rows of the store. Without a query every row
\* that passes the filters qualifies.
ListPassSkipped(E) == search.found
ListPass(E) ==
    LET req == search.req
        qualifies(e) == Listed(req, e) /\ (~req.query \/ IsExactMatch(req, e))
        known == {c.id : c \in search.found}
    IN  {IF c.id \in E /\ qualifies(c.id) THEN [c EXCEPT !.text = 25] ELSE c :
            c \in search.found}
        \cup {Local(e, 25, 0) : e \in {x \in E : qualifies(x)} \ known}

FinishLocal ==
    /\ search.local = "list"
    /\ \E E \in ListEntities :
          search' = [search EXCEPT !.sources = Append(@, ListPass(E)),
                                   !.found = {}, !.hits = {}, !.near = {},
                                   !.local = "done"]
    /\ Advance

Visible(e) == gossip[e] # None /\ ~gossip[e].tombstoned

\* Rows that hold the query text and have no tombstone, cut at the limit.
SearchGossipByKeyword(req) ==
    LET matches(e) == ~req.query \/ Bm25[gossip[e].content] > 0
        entries == {e \in Entity : Visible(e) /\ matches(e)}
    IN  kSubset(Min({Limit, Cardinality(entries)}), entries)

\* A gossip entry has a text score only when it is the first keyword hit, and
\* that score is not normalised. The keyword index and the embedder are asked
\* again for every entry.
SearchGossip ==
    /\ search.gossip = "read"
    /\ \E E \in SearchGossipByKeyword(search.req) :
       \E first \in [E -> Top(KeywordHits(search.req), 1)], fails \in [E -> Fails] :
         LET req == search.req
             candidate(e) ==
                [id |-> e, type |-> TypeOf[gossip[e].content],
                 text |-> ScoreIn(first[e], e),
                 semantic |-> IF fails[e] \/ ~req.query THEN 0
                              ELSE Cosine[gossip[e].content],
                 trust |-> 3, dated |-> TRUE, avail |-> 9]
         IN   search' = [search EXCEPT
                !.sources = Append(@, {candidate(e) : e \in
                    {x \in E : /\ gossip[x].active
                               /\ Wanted(req, TypeOf[gossip[x].content])}}),
                !.gossip = "done"]
    /\ Advance

\* Peers that answer in time; the candidates made of their results have neither
\* a type nor a date.
Federate ==
    /\ search.local = "done" /\ search.gossip = "done"
    /\ search.federated = "ask"
    /\ \E E \in SUBSET {e \in Entity : Remote[e] # None} :
         /\ ~search.req.federated => E = {}
         /\ search' = [search EXCEPT
              !.sources = Append(@, {[id |-> e, type |-> None, text |-> 0,
                  semantic |-> 0, trust |-> 3, dated |-> FALSE, avail |-> 7] :
                     e \in {x \in E : Wanted(search.req, TypeOf[Remote[x]])}}),
              !.federated = "done"]
    /\ Advance
-----------------------------------------------------------------------------
(* Ranking *)

\* computeFreshness: a decay from 1 towards 0 with the time since the entry was
\* updated or received, read off the clock at every request; a half without a
\* date. fresh says what it gives for each entity at the time of the request.
ComputeFreshness(fresh, c) == IF c.dated THEN fresh[c.id] ELSE 5

\* The weights 0.30, 0.30, 0.20, 0.10 and 0.10, in hundredths.
Raw(fresh, c) == 3 * c.text + 3 * c.semantic + 2 * c.trust
                 + ComputeFreshness(fresh, c) + c.avail
Clamped(fresh, c) == Max({0, Min({Raw(fresh, c), 100})})

\* Deduplicate keeps the first candidate of an entity in order of arrival.
Deduplicate(sources, e) ==
    LET i == Min({j \in DOMAIN sources : \E c \in sources[j] : c.id = e})
    IN  CHOOSE c \in sources[i] : c.id = e

\* Two candidates that RankWeighted finds no order for.
Tied(fresh, C) == \E c, d \in C : c # d /\ Raw(fresh, c) = Raw(fresh, d)

\* RankWeighted sorts by the raw sum and clamps afterwards. Candidates come out
\* of a Go map: those with equal sums in any order.
SortedByClamped(fresh, C) ==
    {s \in SetToSeqs(C) : \A i, j \in 1..Cardinality(C) :
                             i < j => Clamped(fresh, s[i]) >= Clamped(fresh, s[j])}
RankWeighted(fresh, C) ==
    {s \in SetToSeqs(C) : \A i, j \in 1..Cardinality(C) :
                             i < j => Raw(fresh, s[i]) >= Raw(fresh, s[j])}

\* The entity-type filter, the deduplication, the rank at some time after the
\* candidates were made, the score threshold and the page.
Respond ==
    /\ search.federated = "done"
    /\ LET req == search.req
           typed == [i \in DOMAIN search.sources |->
                       {c \in search.sources[i] : Wanted(req, c.type)}]
           ids == {c.id : c \in UNION {typed[i] : i \in DOMAIN typed}}
           kept(fresh) == {c \in {Deduplicate(typed, e) : e \in ids} :
                              Clamped(fresh, c) >= MinScore}
           off == req.offset
       IN \E fresh \in [ids -> Freshness] : \E ranked \in RankWeighted(fresh, kept(fresh)) :
          LET s == [i \in DOMAIN ranked |-> ranked[i].id]
          IN answers' = Append(answers,
              [req |-> req, ranked |-> s, fresh |-> fresh, tied |-> Tied(fresh, kept(fresh)),
               page |-> SubSeq(s, off + 1, Min({off + PageSize, Len(s)})),
               more |-> Len(s) - off > PageSize,
               peers |-> {c.id : c \in Last(search.sources)},
               stamp |-> search.stamp,
               lived |-> lived, steadfast |-> steadfast])
    /\ search' = None
    /\ UNCHANGED <<tables, indexes, work, writes>>

SearchStep == SearchKeyword \/ SearchVector \/ MergeHits \/ FinishLocal
              \/ SearchGossip \/ Federate \/ Respond
-----------------------------------------------------------------------------
(* What a search could have seen while it ran *)

Searchable(e) == \/ rows[e] # None /\ rows[e].active
                 \/ Visible(e) /\ gossip[e].active
                 \/ Remote[e] # None

\* Entities that the exact-match pass must find, whatever the indexes hold.
MatchesExactly(req, e) ==
    /\ Listed(req, e)
    /\ ~req.query \/ IsExactMatch(req, e)
    /\ ~Visible(e)
    /\ Cardinality({x \in Entity : rows[x] # None}) <= 2 * Limit

Witness ==
    IF search' = None THEN lived' = {} /\ steadfast' = {}
    ELSE LET now == {e \in Entity : Searchable(e)}'
             exact == {e \in Entity : MatchesExactly(search.req, e)}'
         IN /\ lived' = (IF search = None THEN {} ELSE lived) \cup now
            /\ steadfast' = (IF search = None THEN Entity ELSE steadfast)
                            \cap exact

Handler(e) == RegisterEntity(e) \/ UpdateEntity(e) \/ DeleteEntity(e)
              \/ SetStatus(e)
HandleAnnouncement(e) == ApplyGossip(e) \/ TombstoneGossip(e)

\* The stamp of a search that no write disturbed tells which data it read.
Disturb == search' = IF search = None THEN None
                     ELSE [search EXCEPT !.stamp = None]

Next ==
    /\ \/ (\E e \in Owned : Handler(e)) /\ Disturb
       \/ (\E e \in Foreign : HandleAnnouncement(e)) /\ Disturb
       \/ (\E w \in work : IndexKeyword(w) \/ IndexVector(w)) /\ Disturb
       \/ Restart
       \/ BeginSearch
       \/ search # None /\ SearchStep
    /\ Witness
    /\ UNCHANGED embedder

Spec == Init /\ [][Next]_vars
-----------------------------------------------------------------------------
(* Properties *)

\* The counts that BM25 divides by agree with the documents of the index, after
\* any interleaving of registrations, updates, removals, gossip and restarts
\* (keyword.go, keyword_v2.go: IndexDocument, RemoveDocument). With df above
\* docCount the logarithm of the inverse frequency is not a number.
IndexCounts ==
    /\ keyword.docCount = Cardinality({e \in Entity : keyword.docs[e] # None})
    /\ keyword.df = Cardinality({e \in Entity : HasTerm(keyword.docs[e]) = 1})

\* The indexes keep documents of entities that were deleted, went inactive or
\* were tombstoned. Every result was searchable at some moment of the search
\* (engine.go, searchLocal and searchGossip).
ResultsWereLive ==
    \A i \in DOMAIN answers : ToSet(answers[i].page) \subseteq answers[i].lived

\* A local entity that matches exactly during all of a search is found, with
\* stale indexes, failing embeddings, and documents that fill the limit of
\* both indexes; and its score passes the threshold, however old its row is
\* (engine.go, the exact-match pass; ranking.go, computeFreshness). The rows
\* fit in the pass and no gossip row has the same ID.
ExactMatchesFound ==
    \A i \in DOMAIN answers : answers[i].steadfast \subseteq ToSet(answers[i].ranked)

OneChoice(S) == \A x, y \in S : x = y

\* For this request the engine leaves nothing to the order in which a Go map or
\* a table is read: neither the hits that an index returns, nor the rows that
\* the limits of the store let through, nor the source that an entity is kept
\* from.
Determined(req) ==
    /\ OneChoice(Top(KeywordHits(req), Limit))
    /\ OneChoice(Top(KeywordHits(req), 1))
    /\ OneChoice(Top(VectorHits(req), Limit))
    /\ OneChoice(ListEntities) /\ OneChoice(SearchGossipByKeyword(req))
    /\ \A e \in Entity : rows[e] = None \/ gossip[e] = None

\* Two requests for successive pages over unchanged data are answered from one
\* list, whichever goroutine of each search came first: no entity is on both
\* pages or missing between them, and the first says that there is more exactly
\* when there is (ranking.go, RankWeighted sorts before it clamps; engine.go,
\* offset and has_more). It takes scores without ties, the same answers of the
\* peers and an embedder that does not fail; and so little time between the
\* requests that no entry got older by a grain of its freshness: with more, the
\* decay itself moves entries past each other or below min_score.
PagesOfOneList ==
    \A i, j \in DOMAIN answers :
        LET a == answers[i]
            b == answers[j]
        IN  /\ b.req = [a.req EXCEPT !.offset = @ + PageSize]
            /\ a.stamp = writes /\ b.stamp = writes
            /\ embedder = "hash" /\ a.peers = b.peers
            /\ a.fresh = b.fresh /\ ~a.tied
            /\ Determined(a.req)
            => /\ a.ranked = b.ranked
               /\ ToSet(a.page) \cap ToSet(b.page) = {}
               /\ a.more <=> b.page # << >>
               /\ a.req.offset = 0 /\ ~b.more
                  => ToSet(a.page) \cup ToSet(b.page) = ToSet(a.ranked)

\* "Deduplicate removes duplicate candidates by entity_id, keeping the highest
\* scored" (ranking.go:169). Compared are the kept candidate at its freshest
\* with the other at its oldest: where it fails, it fails at every time.
DuplicateOfHighestScoreKept ==
    search # None => \A i \in DOMAIN search.sources :
        \A c \in search.sources[i] :
            Raw([e \in Entity |-> 10], Deduplicate(search.sources, c.id))
               >= Raw([e \in Entity |-> 0], c)
=============================================================================
