SPECIFICATION Spec
CONSTANTS
    Producers = {p1}
    Closers = {}
    Worker = worker
    Events = {e1, e2}
    MaxSize = 1
    Policy = "drop_oldest"
    OnDrop = TRUE
    DropReads = TRUE
    Sentinel = sentinel
    None = none
INVARIANT ResultTruthful
