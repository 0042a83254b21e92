CONSTANTS
    e1 = e1
    e2 = e2
    h1 = h1
    Unset = Unset
    Empty = Empty
    Bad = Bad
    Uint32Size = 8
    Entries = {e1, e2}
    Clients = {h1}
    PoolSize = 1
    Environs <- MCEnvirons
    DotEnvs <- MCDotEnvs
SPECIFICATION LiveSpec
INVARIANTS
    ServerTypeOK
    ClosedAfterUse
PROPERTIES
    
    ShutdownEnds
