SPECIFICATION FairSpec
CONSTANTS
    NTasks = 2
    MaxCommits = 2
    Applies <- EarlyAndLate
    Faulty <- Everything

INVARIANT NoLeakWithoutFault
INVARIANT HonestResult
INVARIANT WholeUnlessStoringFails
PROPERTY Terminates
