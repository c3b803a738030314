SPECIFICATION MCSpec
CONSTANTS
    b1 = b1
    b2 = b2
    w1 = w1
    w2 = w2
    MatchBatch = MatchBatch
    SamePair <- Rematch
    Score <- RisingScore
    Matches = {1, 2}
    Batches = {b1, b2}
    Workers = {w1, w2}
    TopLabel = 2
    MaxPosts = 2
    Budget = 3
    Estimate = 2
    Costs = {1, 2}
    Statuses = {0, 400, 404, 429, 503}
VIEW SeenWhenCalm
SYMMETRY WorkerSymmetry
CHECK_DEADLOCK FALSE
INVARIANTS
    ReportsFollowScreens
    WithinBudgetWhenCalm
PROPERTIES
    LabelIsFinal
