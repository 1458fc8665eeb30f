SPECIFICATION FairSpec
CONSTANTS
    N = 5
    Self = 3
    K = 3
    Alpha = 2
    Topologies <- SmallTopologies
    Holders <- FewHolders
INVARIANTS TypeOK ClosestKept ClosestAsked MissIsHonest
PROPERTIES OperationReturns
CHECK_DEADLOCK FALSE
