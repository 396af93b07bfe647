CONSTANTS
    Prices = {1, 2, 3, 4, 5}
    Descending = TRUE
    Depth = 3
    MaxQty = 2
    MaxOrders = 6
SPECIFICATION LevelsSpec
INVARIANT LevelsAreBest
CHECK_DEADLOCK FALSE
