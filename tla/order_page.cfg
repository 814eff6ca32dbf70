SPECIFICATION Spec

CONSTANTS
    Products = {"tea", "cake"}
    InRegister = {"tea"}
    Price <- SmallPrices
    Cost <- SmallCosts
    Discounts <- Typed
    Amounts = {1}
    MaxLines = 1
    MaxQuantity = 2
    MaxPayments = 2
    MaxInFlight = 2
    MaxRequests = 2
    MaxLost = 1

INVARIANTS
    QuietPageIsFresh
    ClosedOnce
    FreshCheckoutIsAccepted
    ShownChangeIsGiven

PROPERTIES
    BillKept
    WaitingEnds

\* The bill may be settled and every request used; then the screen only moves about.
CHECK_DEADLOCK FALSE
