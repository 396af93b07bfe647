CONSTANTS
    Prices = {p1}
    PriceInvalid = none
    OrderQty = 2
    MaxOrderSize = 2
    MaxPosition = 3
    QtyInvalid = 99
    SimexConstraints = FALSE
    SingleOrderVenue = FALSE
    MaxOrders = 1
    RequestCapacity = 3
    ResponseCapacity = 5
    EventCapacity = 4
    MaxTimeouts = 1
SPECIFICATION Spec
PROPERTY ExpiredOrdersEnd
CHECK_DEADLOCK FALSE
