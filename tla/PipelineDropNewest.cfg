SPECIFICATION PipelineSpec
CONSTANTS
    Producers = {p1, p2}
    Closers = {c1}
    Worker = worker
    Events = {e1, e2, e3, e4}
    MaxSize = 1
    Policy = "drop_newest"
    OnDrop = TRUE
    DropReads = FALSE
    Sentinel = sentinel
    None = none
    MaxFaults = 1
SYMMETRY Symmetry
INVARIANT FlushDurable
INVARIANT LedgerExact
INVARIANT NotBothStoredAndLost
INVARIANT TablesBalance
INVARIANT CleanResetStoresAll
INVARIANT CrashLossBounded
