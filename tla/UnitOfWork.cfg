CONSTANTS
    o1 = o1
    o2 = o2
    c1 = c1
    r1 = r1
    Orm <- MCOrm
    Core <- MCCore
    Raw <- MCRaw
    MaxDepth = 2
SPECIFICATION Spec
CHECK_DEADLOCK FALSE
INVARIANTS
    AllOrNothing
    ContainedFailuresCommit
    FlatSessionsRaise
PROPERTIES
    OuterWritesSurvive
