SPECIFICATION Spec
CONSTANTS
    j1 = j1
    k1 = k1
    k2 = k2
    k3 = k3
    w1 = w1
    Original = Original
    NoTask = NoTask
    Passes <- AllPass
    Users = {1}
    Jobs = {j1}
    Edits = {}
    Cycles = {k1, k2, k3}
    Modes = {"incremental", "dirty"}
    Workers = {w1}
    TopN = 1
    DailyCap = 1
    DirtyCap = 1
    MaxPosts = 1
    MaxClock = 5
SYMMETRY Symmetry
CHECK_DEADLOCK FALSE
INVARIANTS
    WithinDailyCap
