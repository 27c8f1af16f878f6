SPECIFICATION Spec
CONSTANTS
    p = p
    q = q
    bad = bad
    Patches = {p, q, bad}
    Sound = {p, q}
    Contains <- HasToken
    TaskLists <- Files
    Approvals <- ApprovalFiles
    MaxIds = 2
    MaxEdits = 1
    MaxResults = 2
    MaxApprovals = 1
    MaxPassed = 1
    MaxTime = 1
    NoHash = nohash
INVARIANT PassEarned
INVARIANT SameVerdict
INVARIANT GateTruthful
