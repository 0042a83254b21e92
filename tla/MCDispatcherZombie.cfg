CONSTANTS
    o1 = o1
    o2 = o2
    o3 = o3
    s1 = s1
    s2 = s2
    Aggregates = {o1, o2}
    Procs = {s1, s2}
    Slots = 1
    BatchSize = 2
    MaxAttempts = 2
    Lease = 3
    RequestTimeout = 1
    Bookkeeping = 1
    FailureThreshold = 3
    SuccessThreshold = 2
    MaxRows = 2
    MaxFaults = 0
SYMMETRY Symmetry
SPECIFICATION Spec
PROPERTIES
    DeadStaysDead
