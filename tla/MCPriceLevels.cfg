CONSTANTS
    Capacity = 3
    Prices = {1, 2, 3, 4, 5}
    Quantities = {1, 2}
    IsBid = FALSE
    Home <- SpreadHome
    SlotCount = 5
    MaxTombstones = 1
SPECIFICATION LevelsSpec
INVARIANTS SearchesAreRight NeverInUseTwice FullCapacityUsable
PROPERTIES ImplementsBook
CHECK_DEADLOCK FALSE
