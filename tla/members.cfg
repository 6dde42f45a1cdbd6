SPECIFICATION Spec
CONSTANTS
    Requests = {1, 2, 3, 4, 5}
    Kinds <- Belonging
    Users = {ana, bea, caro}
    Owner = ana
    Strangers = {caro}
    MaxInvitations = 2
    Null = Null
INVARIANTS TypeOK OneOwner AcceptedHasJoined NothingOutlivesTheList
CHECK_DEADLOCK FALSE
