CONSTANTS
    Prices = {p1}
    PriceInvalid = none
    OrderQty = 2
    MaxOrderSize = 2
    MaxPosition = 3
    QtyInvalid = 99
    SimexConstraints = FALSE
    SingleOrderVenue = FALSE
    MaxOrders = 3
    RequestCapacity = 3
    ResponseCapacity = 5
    EventCapacity = 4
    MaxTimeouts = 1
SPECIFICATION Spec
INVARIANTS FillsReconcile AccountWithinLimit NothingRestsUnseen LiveWasTaken RevivedOnlyIfExecuted
PROPERTY SlotsResolve
CHECK_DEADLOCK FALSE
