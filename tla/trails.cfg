SPECIFICATION MCSpec
CONSTANTS
    None = None
    Sessions = {s1, s2}
    WritesEach = 1
    Contexts = {c1, c2}
    Capacity = 1
    Backups = 2
    MaxCrashes = 1
    Forwards = {f1}
    MaxAgain = 1
    MaxSwitches = 1
SYMMETRY SessionSymmetry
INVARIANTS
    OnRecord
    
    
PROPERTIES
    ImplementsTrail
CHECK_DEADLOCK FALSE
