SPECIFICATION Spec
CONSTANTS
    MaxProposals = 1
    MaxRuns = 2
    MaxEpoch = 1
    StopsInTime = TRUE
    ReadsDrain = TRUE
    Exits = TRUE
INVARIANTS
    NoneStranded
CHECK_DEADLOCK FALSE
