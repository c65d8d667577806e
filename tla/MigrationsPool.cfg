CONSTANTS
    r1 = r1
    r2 = r2
    e1 = e1
    c1 = c1
    c2 = c2
    NoRow = NoRow
    NoChecksum = NoChecksum
    NoRunner = NoRunner
    Runners <- MCRunners
    Engines <- MCEngines
    EngineOf <- MCEngineOf
    PoolSize = 2
    Versions <- MCVersions
    Contents <- MCContents
    Directories <- MCDirectories
    InitialLedgers <- MCInitialLedgers
    MaxCalls = 1
    MaxLosses = 0
SPECIFICATION FairSpec
CHECK_DEADLOCK FALSE
PROPERTIES
    EveryCallReturns
