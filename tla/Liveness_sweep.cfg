SPECIFICATION LiveSpec
CONSTANTS
    a = a
    b = b
    e1 = e1
    Registry = {a}
    Entity = {e1}
    Homes <- HomeA
    Mesh <- Solo
    MaxVersion = 1
    MaxHops = 2
    DedupWindow = 5
    MaxTime = 5
    MaxOps = 4
    MaxFaults = 1
    Sequential = TRUE
    Paced = FALSE
    Reregisters = TRUE
    NoRow = NoRow
    Idle = Idle
    Monitored = {a}
    Threshold = 1
    SweepInterval = 1
    Never = Never
INVARIANTS
    LiveTypeOK
    FreshIsActive
    OverdueIsInactive
CHECK_DEADLOCK FALSE
