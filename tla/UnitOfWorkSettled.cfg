CONSTANTS
    o1 = o1
    o2 = o2
    c1 = c1
    r1 = r1
    Orm <- MCOrm
    Core <- MCCore
    Raw <- MCRaw
    MaxDepth = 1
SPECIFICATION Spec
CHECK_DEADLOCK FALSE
INVARIANTS
    UncommittedRaises
