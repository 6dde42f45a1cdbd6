SPECIFICATION Spec
CONSTANTS
    Instances = {i1, i2}
    a1 = a1
    a2 = a2
    Alerts = {a2}
    b1 = b1
    b2 = b2
    Branches = {b1, b2}
    Watched <- MCWatched
    Prices = {1, 2}
    Targets = {2, 3}
    Faults = {"error", "crash", "redis", "overrun"}
    MaxChanges = 2
    MaxEdits = 1
    MaxFaults = 1
    NoOne = NoOne
PROPERTIES OneNotificationPerCrossing KeepsContract BelowIsNoticed AboveRearms
CHECK_DEADLOCK FALSE
