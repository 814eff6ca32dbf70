SPECIFICATION FairSpec

CONSTANTS
    Rooms = {r1}
    Orders = {o1}
    UtcOffset = 3
    Hours = {9}
    MaxStops = 0

PROPERTY NeverBeforeEleven

\* The clock stops at its bound; then nothing is left to do.
CHECK_DEADLOCK FALSE
