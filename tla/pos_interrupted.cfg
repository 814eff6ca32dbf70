SPECIFICATION Spec

CONSTANTS
    Orders = {o1}
    Lines = {l1}
    Tickets = {}
    Items = {i1}
    Rooms = {}
    Customers = {c1}
    Workers = {w1}
    Ops = {"create", "add", "remove", "quantity", "lineDiscount", "discount", "status", "attach", "void", "checkout", "payTab"}
    Prices = {2}
    Quantities = {0, 1, 2}
    Discounts = {0, 1}
    Payments = {0, 1, 3}
    Statuses = {"dispatched", "paid"}
    MaxTotal = 4
    MaxPaid = 4
    Interruptions = TRUE
    StaleScreens = FALSE
    OneEditorPerLine = FALSE
    Cost <- UnitCosts

INVARIANTS
    NeverUndercollected
    NoSaleBookedTwice

\* Every bill may be closed and every key used: then no client has anything to ask.
CHECK_DEADLOCK FALSE
