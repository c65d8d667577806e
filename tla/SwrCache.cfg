CONSTANTS
    p1 = p1
    p2 = p2
    q1 = q1
    q2 = q2
    b1 = b1
    b2 = b2
    b3 = b3
    NoEntry = NoEntry
    Procs <- MCProcs
    Requests <- MCRequests
    Refreshes <- MCRefreshes
    ProcOf <- MCProcOf
    Swr = TRUE
    TTL = 1
    StaleTTL = 3
    LockTTL = 2
    MaxFetch = 2
    MaxWrites = 1
SPECIFICATION Spec
INVARIANTS
    BoundedStaleness
    
    NoRefreshAfterShutdown
