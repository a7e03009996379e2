SPECIFICATION MCSpec
CONSTANTS
    None = None
    Clusters = {c1, c2}
    Plain = {delete}
    Guarded = {}
    Interactive = {}
    Agent = {agentWrite}
    MaxEpoch = 1
    SwapFailsAfter = TRUE
    TeardownRaises = FALSE
    Workers = {w1}
    Ports = {n1}
    Contexts = {c1}
    MaxChildren = 2
    MaxTeardowns = 1
    MaxTrackers = 1
    MaxStarts = 2
    MaxPolls = 2
    MaxSwitches = 1
INVARIANTS
    ReadsStayHome
PROPERTIES
    NothingHangs
    NothingLingers
    FinalStays
    TrackersSettle
CHECK_DEADLOCK FALSE
