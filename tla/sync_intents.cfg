SPECIFICATION FairSpec
CONSTANTS
    Products = {milk}
    Preloaded <- NoProducts
    Stock = 5
    UserOps = {"list", "add_new", "increment", "decrement", "check"}
    RemoteOps = {"increment", "delete"}
    Pulls = {"items"}
    PullCalls = {p1}
    Faults = {"drop", "lose"}
    LossyKinds <- AllButQuantity
    MaxRows = 2
    MaxItems = 2
    MaxActions = 4
    MaxEdits = 4
    MaxRemote = 1
    MaxFaults = 1
    Milk = milk
    Null = Null
INVARIANTS IntentsLand CausalReplay
PROPERTIES QueueDrains
CHECK_DEADLOCK FALSE
