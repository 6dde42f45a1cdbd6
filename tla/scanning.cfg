SPECIFICATION Spec
CONSTANTS
    a = a
    b = b
    l1 = l1
    l2 = l2
    None = None
    Codes = {a, b}
    Lists = {l1, l2}
    Prices = {1, 2}
    Ids = {"id1", "id2"}
    RecentLimit = 2
    MaxStack = 3
    Starts <- MCStarts
INVARIANTS
    CreatedOnce
    SaidAdded
    NoRescanOfCreated
PROPERTY
    SavedOverShown
CHECK_DEADLOCK FALSE
