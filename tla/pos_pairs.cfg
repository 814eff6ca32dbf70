SPECIFICATION FairSpec

CONSTANTS
    Orders = {o1}
    Lines = {l1, l2}
    Tickets = {}
    Items = {i1}
    Rooms = {}
    Customers = {}
    Workers = {w1, w2}
    Ops = {"create", "add", "remove", "quantity", "lineDiscount", "void", "checkout"}
    Prices = {2}
    Quantities = {0, 1, 2}
    Discounts = {0, 1}
    Payments = {0, 2}
    Statuses = {}
    MaxTotal = 4
    MaxPaid = 2
    Interruptions = FALSE
    StaleScreens = FALSE
    OneEditorPerLine = TRUE
    Cost <- UnitCosts

INVARIANT BillInStep

PROPERTY MoneyClosesBill

\* Every bill may be closed and every key used: then no client has anything to ask.
CHECK_DEADLOCK FALSE
