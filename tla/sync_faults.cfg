SPECIFICATION Spec
CONSTANTS
    Products = {milk}
    Preloaded <- OnlyMilk
    Stock = 1
    UserOps = {"increment", "decrement", "check", "delete"}
    RemoteOps = {"check", "delete", "archive"}
    Pulls = {"items", "lists"}
    PullCalls = {p1, p2}
    Faults = {"crash", "lose"}
    LossyKinds <- Kinds
    MaxRows = 3
    MaxItems = 1
    MaxActions = 2
    MaxEdits = 2
    MaxRemote = 1
    MaxFaults = 1
    Milk = milk
    Null = Null
SYMMETRY PullSymmetry
INVARIANTS TypeOK EditsAreQueued
PROPERTIES QuietPullMirrors
CHECK_DEADLOCK FALSE
