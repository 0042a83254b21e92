CONSTANTS
    o1 = o1
    o2 = o2
    o3 = o3
    s1 = s1
    s2 = s2
    Aggregates = {o1}
    Procs = {s1}
    Slots = 1
    BatchSize = 2
    MaxAttempts = 2
    Lease = 5
    RequestTimeout = 2
    Bookkeeping = 1
    FailureThreshold = 2
    SuccessThreshold = 2
    MaxRows = 1
    MaxFaults = 0
SPECIFICATION LiveSpec
PROPERTIES
    EveryNotificationEnds
