SPECIFICATION FairSpec

CONSTANTS
    Rooms = {r1, r2}
    Orders = {o1, o2}
    UtcOffset = 3
    Hours = {13, 32}
    MaxStops = 1

INVARIANT
    StatusFitsOrder

PROPERTIES
    OthersStayTillEleven
    OverdueIsSwept

\* The clock stops at its bound; then nothing is left to do.
CHECK_DEADLOCK FALSE
