SPECIFICATION Spec
CONSTANTS
    a = a
    b = b
    p = p
    q = q
    Stores <- TwoRoots
    Bodies <- TwoBodies
    BadTables <- CandidateTable
    MaxEvents = 1
    MaxLosses = 1
    MaxCandidates = 2
    MaxRows = 4
SYMMETRY Symmetry
INVARIANT CandidateKept
INVARIANT RestoreComplete
INVARIANT LossesNotUndercounted
