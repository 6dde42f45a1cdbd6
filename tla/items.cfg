SPECIFICATION MCSpec
CONSTANTS
    Requests = {1, 2, 3, 4}
    Kinds <- Mix
    Users = {ana, bea}
    Owner = ana
    Products = {milk}
    Branches = {centro, norte}
    Here = centro
    There = norte
    Prices = {5, 7}
    Availabilities = {TRUE}
    Quantities = {1}
    ClientRequestIds = {k1}
    MaxItems = 2
    MaxListingVersion <- Moves
    Null = Null
INVARIANTS TypeOK SnapshotIffChecked CapturedPriceWasListed NoTwoWinners
PROPERTIES CommittedInstanceIsRow SnapshotFrozen
CHECK_DEADLOCK FALSE
