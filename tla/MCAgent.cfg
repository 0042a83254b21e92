CONSTANTS
    o1 = o1
    p1 = p1
    p2 = p2
    w1 = w1
    w2 = w2
    Orders <- MCOrders
    Plans <- MCPlans
    Types = {"OrderCreated", "PaymentProcessed", "OrderCompleted"}
    Data = {"plain"}
    MaxInt = 4
    NoRow = NoRow
    Workers = {w1, w2}
    Unparsable = Unparsable
    Invalid = Invalid
    Inputs <- AgentEvents
    MaxLog = 6
    MaxFaults = 1
    Order = o1
    Runs <- MCRuns
    Steps <- MCSteps
SYMMETRY WorkerSymmetry
SPECIFICATION AgentSpec
INVARIANTS
    AgentTypeOK
    NothingBuffered
    ReportAgrees
