CONSTANTS
    Values = {m1, m2, m3}
    Empty = none
    Capacity = 3
SPECIFICATION RingSpec
INVARIANTS NoSlotRace NeverAborts
PROPERTY ImplementsFifo
