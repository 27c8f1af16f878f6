SPECIFICATION Spec
CONSTANTS
    Producers = {p1, p2}
    Closers = {c1, c2}
    Worker = worker
    Events = {e1, e2, e3}
    MaxSize = 1
    Policy = "block"
    OnDrop = FALSE
    DropReads = TRUE
    Sentinel = sentinel
    None = none
SYMMETRY Symmetry
INVARIANT CleanCloseDrains
INVARIANT ResultTruthful
