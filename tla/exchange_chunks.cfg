SPECIFICATION FairSpec
CONSTANTS
    r1 = r1
    r2 = r2
    r3 = r3
    h1 = h1
    h2 = h2
    h3 = h3
    None = None
    Requests <- OneRequest
    Handlers <- TwoHandlers
    ReqChunks = 2
    RespChunks = 2
    MaxPending = 1
    ErrorCodes <- TwoCodes
    MaxRedeliver = 2
    MaxCrash = 1
    Faults <- EveryFault
INVARIANTS AtMostOnce Correlated
PROPERTIES EveryRequestEnds EveryHandlerEnds
