SPECIFICATION MCFairSpec
CONSTANTS
    k1 = k1
    k2 = k2
    All = All
    Companies = {k1, k2}
    MaxRuns = 2
CHECK_DEADLOCK FALSE
INVARIANTS
    FetchCoversAll
    MatchBatchAloneWhenCalm
PROPERTIES
    RunningEnds
