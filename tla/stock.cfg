SPECIFICATION Spec

CONSTANTS
    Items = {"samosa", "beef", "tea"}
    Ingredients = {"beef"}
    Tracked = {"samosa", "beef"}
    Dates = {1, 2}
    Openings <- SmallOpenings
    Amounts = {1}
    Visits <- SmallVisits

INVARIANTS
    LedgerExplainsStock
    KitchenKeepsUnits
    OrderStatusIsTrue
    QuietCopiesAreFresh
    RestockedOnce
    CountsAreKept
    RecipeIsOwn

PROPERTIES
    BatchesFollowStock
    WaitingEnds

\* Once the requests of the visit are used and nothing is under way, a screen may have no button left.
CHECK_DEADLOCK FALSE
