SPECIFICATION MCSpec
CONSTANTS
    e1 = e1
    e2 = e2
    e3 = e3
    plain = plain
    term = term
    name = name
    tag = tag
    Entity = {e1, e2, e3}
    Owned = {e1, e2}
    Foreign = {e2, e3}
    Content = {plain, term, name, tag}
    Exact = {name, tag}
    Bm25 <- MCBm25
    Cosine <- MCCosine
    TypeOf <- MCTypeOf
    Requests <- MCRequests
    Remote <- MCRemote
    Limit = 2
    PageSize = 1
    MinScore = 16
    Freshness = {0, 7}
    Drafts = {plain, name}
    MaxWrites = 2
    MaxOps = 4
    Zero = Zero
    None = None
INVARIANTS
    TypeOK
    IndexCounts
    ResultsWereLive
    ExactMatchesFound
    PagesOfOneList
CHECK_DEADLOCK FALSE
