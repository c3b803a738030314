SPECIFICATION MCSpec
CONSTANTS
    m1 = m1
    u1 = u1
    c1 = c1
    c2 = c2
    w1 = w1
    w2 = w2
    Free = Free
    Matches = {m1}
    Users = {u1}
    Clicks = {c1, c2}
    Workers = {w1, w2}
    OwnerOf <- OneOwner
    Target <- AllOnM1
    InitialQuota <- QuotaOne
    MaxPosts = 2
    MaxFaults = 2
SYMMETRY WorkerSymmetry
CHECK_DEADLOCK FALSE
INVARIANTS
    TypeOK
    FollowOnAfterCommit
    VerdictHasEvidence
    SecondAttemptHasCause
    QuotaLedger
    ChargeIsDispatched
    NeverDroppedWithoutCrash
