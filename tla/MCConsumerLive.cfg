CONSTANTS
    o1 = o1
    p1 = p1
    p2 = p2
    w1 = w1
    w2 = w2
    Orders <- MCOrders
    Plans <- MCPlans
    Types <- MCTypes
    Data <- MCData
    MaxInt = 3
    NoRow = NoRow
    Workers = {w1, w2}
    Unparsable = Unparsable
    Invalid = Invalid
    Inputs <- MixedInputs
    MaxLog = 2
    MaxFaults = 1
SPECIFICATION LiveSpec
INVARIANTS
    NothingLost
PROPERTIES
    EveryEncodableSettled
    NothingWaitsForever
