CONSTANTS
    t1 = t1
    t2 = t2
    t3 = t3
    c1 = c1
    c2 = c2
    k1 = k1
    k2 = k2
    NoConn = NoConn
    Nobody = Nobody
    Tasks <- MCTasks
    Conns <- MCConns
    Keys <- MCKeys
    MaxDeaths = 1
SPECIFICATION FairSpec
INVARIANTS
    PooledHoldNothing
    UncommittedIsRolledBack
PROPERTIES
    ImplementsMutex
    WaiterIsServed
