SPECIFICATION MCCalmSpec
CONSTANTS
    b1 = b1
    b2 = b2
    w1 = w1
    w2 = w2
    MatchBatch = MatchBatch
    SamePair <- Rematch
    Score <- RisingScore
    Matches = {1, 2}
    Batches = {b1, b2}
    Workers = {w1, w2}
    TopLabel = 2
    MaxPosts = 1
    Budget = 1
    Estimate = 1
    Costs = {1}
    Statuses = {0, 400, 404, 429, 503}
SYMMETRY WorkerSymmetry
CHECK_DEADLOCK FALSE
INVARIANTS
    WithinBudget
