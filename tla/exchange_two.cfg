SPECIFICATION Spec
CONSTANTS
    r1 = r1
    r2 = r2
    r3 = r3
    h1 = h1
    h2 = h2
    h3 = h3
    None = None
    Requests <- TwoRequests
    Handlers <- TwoHandlers
    ReqChunks = 1
    RespChunks = 1
    MaxPending = 2
    ErrorCodes <- OneCode
    MaxRedeliver = 1
    MaxCrash = 1
    Faults <- EveryFault
SYMMETRY Symmetry
INVARIANTS TypeOK AtMostOnce Correlated RefusedHasNoEffect NoLateArrival MetricsAccount
PROPERTY ImplementsService
