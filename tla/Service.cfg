CONSTANTS
    Requests = {r1}
    Probes = {p1, p2}
    Order <- CreatedOrder
    Callers = {c1, c2}
    NoHandle = NoHandle
    MaxHandles = 3
CONSTRAINT AllOnOrNoHandle
SPECIFICATION FairSpec
INVARIANTS
    OneResponse
    ErrorsEnveloped
    EnvelopesTraced
    ReadyIsTrue
    HandlesAccountedFor
PROPERTY RequestsEnd
CHECK_DEADLOCK FALSE
