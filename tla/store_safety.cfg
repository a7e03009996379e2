SPECIFICATION Spec
CONSTANTS
    Sessions = {s1, s2, s3}
    Nobody = Nobody
    Ttl = 1
    Retention = 1
    MaxPerSession = 1
    MaxTotal = 2
    MaxTerminal = 1
    MaxSubmits = 3
    MaxClock = 2
    Lag = 1
SYMMETRY Symmetry
INVARIANTS
    CapsHold
PROPERTIES
    ClaimIsLive
    ImplementsLifecycle
    ExpiryIsReportedOnce
    KeepsTheNewest
