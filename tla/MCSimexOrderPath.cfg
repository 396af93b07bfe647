CONSTANTS
    Prices = {p1}
    PriceInvalid = none
    OrderQty = 2
    MaxOrderSize = 2
    MaxPosition = 4
    QtyInvalid = 99
    SimexConstraints = TRUE
    SingleOrderVenue = FALSE
    MaxOrders = 5
    RequestCapacity = 4
    ResponseCapacity = 8
    BufferCapacity = 4
SPECIFICATION Spec
INVARIANTS PositionsReconcile NeverTerminates CancelsAccountedFor
PROPERTIES SlotsResolve ImplementsParticipant NewOrdersForwarded
CHECK_DEADLOCK FALSE
