SPECIFICATION Spec
CONSTANTS
    Contact = {1, 2, 3, 4}
    Loop = {1, 2, 3, 4, 5}
    PeerOf <- LoopPeers
    K = 2
    Nobody = Nobody
    Holder = {n1, n2}
    ExpireAfter = 2
    Key = {k1, k2}
    Fetch = {f1, f2}
    MaxSize = 1
    TTL = 1
    NoKey = NoKey
    Ip = {i1}
    Rate = 2
    Minute = 2
    Handler = {h1, h2}
    Stream = {s1, s2}
    Buffer = 1
INVARIANTS
    NodeTypeOK
    PlacesHaveLinks
    IndexMatchesList
    CardsAreRecent
    MinuteBounded
    NeverSendsOnClosed
PROPERTIES
    RecordsLapse
