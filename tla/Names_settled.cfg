SPECIFICATION SettledSpec
CONSTANTS
    d1 = d1
    h1 = h1
    e1 = e1
    v1 = v1
    Dev = {d1, d2}
    Handle = {h1}
    EntityName = {n1}
    Entity = {e1, e2}
    Version = {v1, v2}
    Text = {t1, t2}
    Link = {l1}
    Client = {c1, c2}
    MaxRequests = 3
    MaxSecond = 1
    MaxFaults = 1
    None = None
INVARIANTS
    TypeOK
    PeersResolveAlike
    PeersKnowDevelopers
    VersionsKept
    VerifiedHasHandle
PROPERTIES
    NamesAreOwned
SYMMETRY Symmetry
CHECK_DEADLOCK FALSE
