CONSTANTS
    x1 = x1
    x2 = x2
    x3 = x3
    w1 = w1
    w2 = w2
    a = a
    b = b
    Rows <- MCRows
    Writers <- MCWriters
    Relations <- MCRelations
    Schemas <- MCSchemas
    MaxEdges = 1
    MaxOps = 2
SYMMETRY Alike
SPECIFICATION Spec
CHECK_DEADLOCK FALSE
INVARIANTS
    CardinalityHolds
    ReferencesHold
PROPERTIES
    OnDeleteHonoured
