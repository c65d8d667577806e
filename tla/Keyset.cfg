CONSTANTS
    Null = Null
    Text = Text
    Absent = Absent
    Ids <- MCIds
    Values <- MCValues
    N = 2
    Queries <- MCQueries
SPECIFICATION ScrollSpec
CHECK_DEADLOCK FALSE
INVARIANTS
    NothingTwice
    NothingSkipped
