SPECIFICATION Spec
CONSTANTS
    a = a
    b = b
    c = c
    e1 = e1
    Registry = {a, b, c}
    Entity = {e1}
    Homes <- HomesAC
    Mesh <- Line
    MaxVersion = 1
    MaxHops = 2
    DedupWindow = 0
    MaxTime = 1
    MaxOps = 4
    MaxFaults = 1
    Sequential = TRUE
    Paced = FALSE
    Reregisters = FALSE
    NoRow = NoRow
    Idle = Idle
INVARIANTS
    TypeOK
    TombstonesHaveCause
    HomeIsSearchable
PROPERTIES
    RowsAreFaithful

CHECK_DEADLOCK FALSE
