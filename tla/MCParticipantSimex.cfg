CONSTANTS
    Prices = {p1, p2}
    PriceInvalid = none
    OrderQty = 2
    MaxOrderSize = 2
    MaxPosition = 3
    QtyInvalid = 99
    SimexConstraints = TRUE
    SingleOrderVenue = FALSE
    MaxOrders = 4
SPECIFICATION Spec
INVARIANTS ExposureWithinLimit HoldingsAgree NoDisagreement
PROPERTIES NoReversal
