SPECIFICATION DeliveringSpec
CONSTANTS
    r1 = r1
    r2 = r2
    r3 = r3
    h1 = h1
    h2 = h2
    h3 = h3
    None = None
    Requests <- ThreeRequests
    Handlers <- ThreeHandlers
    ReqChunks = 1
    RespChunks = 2
    MaxPending = 2
    ErrorCodes <- OneCode
    MaxRedeliver = 0
    MaxCrash = 0
    Faults <- JustStop
PROPERTIES LosslessAnswers LimitExact ShutdownEnds
