CONSTANTS
    Ids = {1, 2, 3}
    Capacity = 2
    FeedTimeout = 1
    MaxUpdates = 3
SPECIFICATION Spec
INVARIANTS ReplicaInv 
PROPERTIES ImplementsReplica TailNoticed
CHECK_DEADLOCK FALSE
