SPECIFICATION Spec
CONSTANTS
    Producers = {p1}
    Closers = {c1}
    Worker = worker
    Events = {e1, e2}
    MaxSize = 1
    Policy = "drop_newest"
    OnDrop = TRUE
    DropReads = TRUE
    Sentinel = sentinel
    None = none
INVARIANT NothingAbandoned
