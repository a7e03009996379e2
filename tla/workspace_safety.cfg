SPECIFICATION Spec
CONSTANTS
    Views = {"replicasets", "pods"}
    MaxRetries = 1
    MaxDepth = 1
INVARIANTS
    PanesAreFed
    BreadcrumbAgrees
    NewerWins
    
