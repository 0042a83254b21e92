CONSTANTS
    o1 = o1
    o2 = o2
    o3 = o3
    s1 = s1
    s2 = s2
    Aggregates = {o1, o2}
    Procs = {s1, s2}
    Slots = 1
    BatchSize = 2
    MaxAttempts = 2
    Lease = 5
    RequestTimeout = 2
    Bookkeeping = 1
    FailureThreshold = 1
    SuccessThreshold = 1
    MaxRows = 2
    MaxFaults = 1
SYMMETRY Symmetry
SPECIFICATION Spec
INVARIANTS
    DispatcherTypeOK
    LeaseCovers
    OneSenderAtATime
PROPERTIES
    DeliveredInOrder
    DoneIsFinal
    OutcomesAreEarned
