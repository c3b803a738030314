SPECIFICATION QuietCrashSpec
CONSTANTS
    e1 = e1
    j1 = j1
    k1 = k1
    k2 = k2
    k3 = k3
    w1 = w1
    w2 = w2
    Original = Original
    NoTask = NoTask
    Passes <- AllPass
    Users = {1, 2}
    Jobs = {j1}
    Edits = {e1}
    Cycles = {k1, k2, k3}
    Workers = {w1, w2}
    Modes = {"incremental", "dirty"}
    TopN = 1
    DailyCap = 1
    DirtyCap = 1
    MaxPosts = 1
    MaxClock = 5

SYMMETRY Symmetry
CHECK_DEADLOCK FALSE
INVARIANTS
    FlagDownMeansMatched
    WithinDailyCap
    ScreensNameMatches
PROPERTIES
    EditAlwaysMarks
    StampsAreFinal
