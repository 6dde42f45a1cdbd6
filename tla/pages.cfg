SPECIFICATION MCSpec
CONSTANTS
    Pages = {"coupons", "promotions", "prices", "reports", "members", "branches", "products"}
    Rows = {1, 2}
    v1 = v1
    v2 = v2
    Values = {v1, v2}
    Products = {p1}
    MaxClicks <- Clicked
    MaxMishaps = 1
    Null = Null
    Gone = Gone
INVARIANTS
    ToldIsShown
    SavesOwnRow
    SavedOverSeen
CHECK_DEADLOCK FALSE
