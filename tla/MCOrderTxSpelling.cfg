CONSTANTS
    o1 = o1
    p1 = p1
    p2 = p2
    t1 = t1
    t2 = t2
    lower = lower
    upper = upper
    Orders <- MCOrders
    Plans <- MCPlans
    Types <- MCTypes
    Data <- MCData
    MaxInt = 3
    NoRow = NoRow
    Txns = {t1, t2}
    Texts = {lower, upper}
    Requests <- RaceRequests
SYMMETRY Symmetry
SPECIFICATION TxSpec
INVARIANTS
    LogTellsOrder
