SPECIFICATION AskSpec
CONSTANTS
    absent = absent
    success = success
    cost = cost
    Maximize <- Successes
    Minimize <- Costs
    Values <- Small
    Absent = absent
    MaxRows = 3
    MaxDepth = 2
    MaxItems = 5
    Listings <- SomeListings
    Graphs <- SomeGraphs
    Layers <- SomeLayers
    Candidates <- SomeCandidates
INVARIANT FrontierMutual
INVARIANT FrontierCovers
INVARIANT CorrelationStable
INVARIANT CanonicalTotal
INVARIANT ConfigFailClosed
INVARIANT Revalidates
