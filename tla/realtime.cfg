SPECIFICATION ChannelSpec
CONSTANTS
    Sockets = {s1, s2, s3}
    RowIds = {1, 2, 3, 4}
    Pulls = {p1, p2}
    Budgets <- MCBudgets
    None = None
INVARIANTS QuietMirrors
PROPERTIES Resubscribes
CHECK_DEADLOCK FALSE
