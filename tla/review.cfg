SPECIFICATION FairSpec
CONSTANTS
    MaxProposals = 2
    MaxRuns = 2
    MaxEpoch = 1
    StopsInTime = FALSE
    ReadsDrain = FALSE
    Exits = TRUE
INVARIANTS
    PendingIsCurrent
    OutcomeMatchesCluster
PROPERTIES
    LandsInItsSession
    ImplementsLifecycle
    ProposalsSettle
CHECK_DEADLOCK FALSE
