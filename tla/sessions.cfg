SPECIFICATION Spec
CONSTANTS
    Me = me
    Requests = {me, r1, r2}
    MaxRequests = 2
    MaxLogins = 1
    MaxExpiries = 1
    MaxFaults = 1
INVARIANTS KeptIsAlive 
PROPERTIES RequestsEnd
CHECK_DEADLOCK FALSE
