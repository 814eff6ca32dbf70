SPECIFICATION Spec

CONSTANTS
    Orders = {o1}
    Lines = {l1, l2}
    Tickets = {t1, t2}
    Items = {i1}
    Rooms = {i1}
    Customers = {c1}
    Workers = {w1}
    Ops = {"create", "add", "remove", "quantity", "lineDiscount", "discount", "send", "attach", "void", "checkout", "payTab"}
    Prices = {2}
    Quantities = {0, 1, 2}
    Discounts = {0, 1}
    Payments = {0, 1, 2, 4}
    Statuses = {}
    MaxTotal = 8
    MaxPaid = 8
    Interruptions = FALSE
    StaleScreens = FALSE
    OneEditorPerLine = FALSE
    Cost <- UnitCosts

SYMMETRY Symmetry

INVARIANTS
    TypeOK
    BillInStep
    BooksMatchBill

\* Every bill may be closed and every key used: then no client has anything to ask.
CHECK_DEADLOCK FALSE
