SPECIFICATION FSpec

CONSTANTS
    Orders = {o1, o2}
    Lines = {l1, l2, l3}
    Tickets = {}
    Items = {}
    Rooms = {}
    Customers = {}
    Workers = {w1}
    Ops = {"create", "add", "remove", "lineDiscount"}
    Prices = {2}
    Quantities = {1}
    Discounts = {0, 1}
    Payments = {4}
    Statuses = {}
    MaxTotal = 6
    MaxPaid = 4
    Interruptions = TRUE
    StaleScreens = FALSE
    OneEditorPerLine = FALSE
    Tables = {b1, b2}
    Hosts = {h1}
    OneAtATime = TRUE
    MergeWithSelf = FALSE
    Cost <- UnitCosts

SYMMETRY Symmetry

INVARIANTS
    MergedBillInStep
    NoLineLeftBehind

\* Every bill may be closed and every key used: then no client has anything to ask.
CHECK_DEADLOCK FALSE
