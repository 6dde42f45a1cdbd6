SPECIFICATION Spec
CONSTANTS
    Requests = {1, 2, 3}
    Scenarios <- MCScenarios
    Products = {milk, leche, bread}
    milk = milk
    leche = leche
    bread = bread
    ListingIds = {1, 2, 3, 4}
    EntryIds = {1, 2, 3, 4, 5}
    MergeIds = {1, 2, 3}
    Prices = {5, 6, 7}
    Null = Null
    Gone = Gone
INVARIANTS HistoryChains LedgerMatches
PROPERTIES PricesKept VerdictsStand MergeKeepsScan
CHECK_DEADLOCK FALSE
