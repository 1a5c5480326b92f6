SPECIFICATION Spec
CONSTANTS
    r1 = r1
    r2 = r2
    r3 = r3
    e1 = e1
    e2 = e2
    None = None
    Requests <- TwoRequests
    Executions <- TwoExecutions
    Kinds <- FewKinds
    Origins <- Unusable
    Redirects <- NoRedirects
    ProxyPolicy <- SomeProxyPolicy
    ExitPolicy <- SomeExitPolicy
    CacheWithAuthorization = FALSE
    CacheWithCookies = FALSE
    CachePrivate = FALSE
    MaxEntries = 1
    MaxBytes = 2
    MaxEntryBytes = 2
    DefaultTTLSeconds = 1
    DefaultMaxBytes = 4
    Second = 1
    DurationValues = 8
    MaxNow = 2
INVARIANT HeuristicOnlyWithoutHeaders
