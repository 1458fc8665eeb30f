SPECIFICATION FairSpec
CONSTANTS
    a = a
    b = b
    s1 = s1
    s2 = s2
    s3 = s3
    q1 = q1
    b1 = b1
    b2 = b2
    Node = {a, b}
    Search = {s1, s2, s3}
    Dht = {q1}
    Beat = {b1, b2}
    At <- MCAt
    Scenarios <- MCScenarios
    None = None
INVARIANTS
    TypeOK
    LinkBreaksForCause
    AnswersMatch
PROPERTIES
    LocksReleased
CHECK_DEADLOCK FALSE
