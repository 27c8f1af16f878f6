SPECIFICATION FilesSpec
CONSTANTS
    Bodies = {b1, b2}
    Lockers = {l1, l2}
    Builder = builder
    MaxEdits = 2
    Writers = {w1, w2, w3}
    NoBody = nobody
    Absent = absent
    Torn = torn
SYMMETRY Symmetry
CHECK_DEADLOCK FALSE
INVARIANT TamperEvident
INVARIANT LineageFound
INVARIANT BlobReadable
