SPECIFICATION FairSpec
CONSTANTS
    a = a
    b = b
    c = c
    Registry = {a, b, c}
    Dials <- Bootstrap
    Stoppers = {a}
    MaxLinks = 2
    MaxPeers = 1
    NoLink = NoLink
INVARIANTS
    TypeOK
    EntriesHaveLoops
    OrphansComeFromDuplicates
    PeersBounded
PROPERTIES
    StopCompletes
CHECK_DEADLOCK FALSE
