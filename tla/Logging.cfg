CONSTANTS
    Threads = {t1, t2}
    Fields = {f}
    Reuse = FALSE
    NoId = NoId
    Off = Off
    Stop = Stop
    MaxDepth = 2
    MaxIds = 2
    MaxRecords = 2
    MaxSetups = 2
CONSTRAINT NestOrLog
SPECIFICATION FairSpec
INVARIANTS
    ContextFollowsScopes
    WrittenAsMeant
    DrainedInOrder
PROPERTY SetupReturns
CHECK_DEADLOCK FALSE
