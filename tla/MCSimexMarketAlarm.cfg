CONSTANTS
    Ids = {1, 2}
    Capacity = 4
    FeedTimeout = 2
    MaxUpdates = 3
SPECIFICATION PunctualSpec
INVARIANT AlarmIsJustified
CHECK_DEADLOCK FALSE
