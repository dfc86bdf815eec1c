SPECIFICATION Spec
CONSTANTS
    c1 = c1
    c2 = c2
    ItemCount = 2
    Clients <- TwoClients
    MaxRequests = 4
    MaxCrashes = 1
INVARIANT
    JobTellsItems
PROPERTY
    FollowsDeliveryFlow
CHECK_DEADLOCK FALSE
