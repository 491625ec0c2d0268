SPECIFICATION Spec
CONSTANTS
    Videos = {v1, v2}
    Supports = {s1}
    Workers = {w1, w2}
    None = None
    PublicKey = TRUE
    MaxRuns = 2
SYMMETRY Symmetry
INVARIANTS NoVideoLeftBehind
