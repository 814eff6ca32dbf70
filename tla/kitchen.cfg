SPECIFICATION KSpec

CONSTANTS
    Orders = {o1}
    Lines = {l1}
    Tickets = {t1, t2}
    Items = {}
    Rooms = {}
    Customers = {}
    Workers = {w1, w2}
    Cooks = {c1, c2}
    Ops = {"create", "add", "remove", "status", "send", "checkout"}
    Prices = {1}
    Quantities = {1}
    Discounts = {0}
    Payments = {1}
    Statuses = {"dispatched"}
    MaxTotal = 1
    MaxPaid = 1
    Interruptions = TRUE
    StaleScreens = FALSE
    OneEditorPerLine = FALSE
    StaleBoards = TRUE
    Cost <- UnitCosts

SYMMETRY Symmetry

INVARIANTS
    DispatchShows
    ShownWasDispatched

PROPERTY CookingMovesForward

\* Every bill may be closed and every key used: then no client has anything to ask.
CHECK_DEADLOCK FALSE
