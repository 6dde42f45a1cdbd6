SPECIFICATION Spec
CONSTANTS
    Me = me
    Requests = {me, r1}
    MaxRequests = 1
    MaxLogins = 0
    MaxExpiries = 1
    MaxFaults = 0
PROPERTIES LiveSessionKept
CHECK_DEADLOCK FALSE
