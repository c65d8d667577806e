CONSTANTS
    b1 = b1
    b2 = b2
    b3 = b3
    b4 = b4
    k1 = k1
    f1 = f1
    f2 = f2
    f3 = f3
    Nothing = Nothing
    Blocks <- MCBlocks
    Kept <- MCKept
    Fresh <- MCFresh
SPECIFICATION ScopeSpec
CHECK_DEADLOCK FALSE
PROPERTIES
    EndsItsOwn
