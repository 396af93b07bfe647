CONSTANTS
    Prices = {1, 2, 3}
    Quantities = {1, 2}
    IsBid = TRUE
    Capacity = 2
    QueueCapacity = 2
    MaxUpdates = 3
SPECIFICATION Spec
INVARIANTS GapOnlyAfterLoss
PROPERTIES ImplementsReplica CatchesUp
CHECK_DEADLOCK FALSE
