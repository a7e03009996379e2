SPECIFICATION Spec
CONSTANTS
    None = None
    Clusters = {c1, c2}
    Plain = {}
    Guarded = {scale}
    Interactive = {debug}
    Agent = {agentWrite}
    MaxEpoch = 2
    SwapFailsAfter = FALSE
    TeardownRaises = TRUE
SYMMETRY ClusterSymmetry
INVARIANTS
    LandsWhereApproved
    AuditedAsItsCluster
    CommittedAlone
    CoherentAtRest
PROPERTIES
    ClusterHeldByWrites
    ImplementsApprovedWrite
    StartedIsClosed
