CONSTANTS
    w1 = w1
    w2 = w2
    r1 = r1
    a = a
    Skipped = Skipped
    NoOne = NoOne
    Workers <- MCWorkers
    Runs <- MCRuns
    Outputs <- MCOutputs
    Plan <- MCPlan
    MaxAttempts = 2
    MaxFaults = 1
    MaxSignals = 1
SPECIFICATION FairSpec
INVARIANTS
    OneBodyAtATime
    ReportsWhatItDid
    AttemptsWithinLimit
    SignalsKept
    StrandedBetweenRows
PROPERTIES
    ImplementsJournal
    FinalStands
    RunsEnd
