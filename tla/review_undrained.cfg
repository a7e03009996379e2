SPECIFICATION Spec
CONSTANTS
    MaxProposals = 2
    MaxRuns = 2
    MaxEpoch = 1
    StopsInTime = TRUE
    ReadsDrain = FALSE
    Exits = FALSE
PROPERTIES
    ClaimedInItsRun
