SPECIFICATION FairSpec
CONSTANTS
    Producers = {p1, p2}
    Closers = {c1}
    Worker = worker
    Events = {e1, e2, e3}
    MaxSize = 2
    Policy = "drop_oldest"
    OnDrop = TRUE
    DropReads = TRUE
    Sentinel = sentinel
    None = none
INVARIANT SentinelLast
INVARIANT NewestKept
INVARIANT LossReportsTrue
PROPERTY ImplementsLossyFifo
PROPERTY PutReturns
PROPERTY CloseReturns
PROPERTY WorkerEnds
PROPERTY AcceptedSettles
