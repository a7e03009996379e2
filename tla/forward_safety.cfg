SPECIFICATION MCSpec
CONSTANTS
    Workers = {w1, w2}
    Ports = {n1}
    Contexts = {c1, c2}
    MaxGeneration = 3
    MaxChildren = 2
    MaxTeardowns = 2
SYMMETRY WorkerSymmetry
INVARIANTS
    NoOrphan
    OnCurrentContext
    ListIsTrue
    VerdictIsTrue
