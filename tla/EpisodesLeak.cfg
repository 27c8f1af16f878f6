SPECIFICATION Spec
CONSTANTS
    NTasks = 1
    MaxCommits = 0
    Applies <- EarlyAndLate
    Faulty <- AddOnly

INVARIANT WorktreesRemoved
