SPECIFICATION QuietSpec
CONSTANTS
    j1 = j1
    j2 = j2
    k1 = k1
    k2 = k2
    k3 = k3
    w1 = w1
    w2 = w2
    Original = Original
    NoTask = NoTask
    Passes <- AllPass
    Users = {1, 2}
    Jobs = {j1, j2}
    Edits = {}
    Cycles = {k1, k2, k3}
    Modes = {"incremental"}
    Workers = {w1, w2}
    TopN = 2
    DailyCap = 4
    DirtyCap = 1
    MaxPosts = 2
    MaxClock = 7
SYMMETRY Symmetry
CHECK_DEADLOCK FALSE
INVARIANTS
    NothingSkipped
    ExtractionIsAsked
