CONSTANTS
    Prices = {p1}
    PriceInvalid = none
    OrderQty = 1
    MaxOrderSize = 1
    MaxPosition = 1
    QtyInvalid = 99
    SimexConstraints = TRUE
    SingleOrderVenue = TRUE
    MaxOrders = 2
SPECIFICATION Spec
INVARIANTS ExecutionsReconcile ExposureStaysOne CallbacksNeverFail StopLeavesNothing
PROPERTIES ImplementsParticipant ShutdownSettles
CHECK_DEADLOCK FALSE
