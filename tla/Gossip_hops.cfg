SPECIFICATION FairSpec
CONSTANTS
    a = a
    b = b
    c = c
    e1 = e1
    Registry = {a, b, c}
    Entity = {e1}
    Homes <- HomeA
    Mesh <- Line
    MaxVersion = 2
    MaxHops = 2
    DedupWindow = 1
    MaxTime = 3
    MaxOps = 3
    MaxFaults = 0
    Sequential = TRUE
    Paced = TRUE
    Reregisters = FALSE
    NoRow = NoRow
    Idle = Idle
PROPERTIES
    RegistrationsReachMesh
CHECK_DEADLOCK FALSE
