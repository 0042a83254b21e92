CONSTANTS
    o1 = o1
    p1 = p1
    d1 = d1
    d2 = d2
    Orders <- MCOrders
    Aggregates <- MCOrders
    Plans = {p1}
    Types = {"OrderCreated", "OrderShipped"}
    Data = {"plain"}
    MaxInt = 3
    NoRow = NoRow
    Requests <- MCRequests
    Procs = {d1}
    Slots = 1
    BatchSize = 2
    MaxAttempts = 2
    Lease = 5
    RequestTimeout = 1
    Bookkeeping = 1
    FailureThreshold = 2
    SuccessThreshold = 2
    MaxRows = 2
    MaxFaults = 1
SPECIFICATION GatewaySpec
INVARIANTS
    GatewayTypeOK
    HearsThePlan
PROPERTIES
    EveryNotificationEnds
