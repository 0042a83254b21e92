CONSTANTS
    o1 = o1
    p1 = p1
    p2 = p2
    t1 = t1
    t2 = t2
    lower = lower
    upper = upper
    Orders <- MCOrders
    Plans <- MCPlans
    Types <- MCTypes
    Data <- MCData
    MaxInt = 4
    NoRow = NoRow
    Txns = {t1, t2}
    Texts = {lower}
    Requests <- MCRequests
SYMMETRY Symmetry
SPECIFICATION TxSpec
INVARIANTS
    TypeOK
    LogTellsOrder
    NoStalledSuccessor
    TxTypeOK
    ReadStaysTrue
    RowLocksHold
PROPERTIES
    TransactionsAreAtomic
    KeepsLedger
