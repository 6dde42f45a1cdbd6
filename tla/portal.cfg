SPECIFICATION Spec
CONSTANTS
    Requests = {1, 2, 3}
    Scenarios <- MCScenarios
    Users = {owner, helper, guest}
    owner = owner
    helper = helper
    guest = guest
    Branches = {north, south}
    north = north
    south = south
    Products = {milk}
    milk = milk
    Codes = {save, extra}
    save = save
    extra = extra
    MemberIds = {1, 2, 3, 4}
    CampaignIds = {1, 2, 3}
    ReportIds = {1, 2, 3, 4, 5}
    CampaignContents <- MCContents
    Scopes <- MCScopes
    Null = Null
    Gone = Gone
INVARIANTS AdminRemains TrailIsTrue
PROPERTIES PublishedIsFrozen InScope
CHECK_DEADLOCK FALSE
