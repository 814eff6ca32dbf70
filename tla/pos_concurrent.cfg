SPECIFICATION Spec

CONSTANTS
    Orders = {o1}
    Lines = {l1}
    Tickets = {t1}
    Items = {i1}
    Rooms = {}
    Customers = {c1}
    Workers = {w1, w2}
    Ops = {"create", "add", "remove", "quantity", "status", "send", "attach", "void", "checkout", "payTab"}
    Prices = {2}
    Quantities = {0, 1}
    Discounts = {0}
    Payments = {0, 2}
    Statuses = {"dispatched", "paid", "new"}
    MaxTotal = 2
    MaxPaid = 2
    Interruptions = TRUE
    StaleScreens = TRUE
    OneEditorPerLine = FALSE
    Cost <- UnitCosts

SYMMETRY Symmetry

INVARIANTS
    DebtIsVisible
    BookedMeansClosed

\* Every bill may be closed and every key used: then no client has anything to ask.
CHECK_DEADLOCK FALSE
