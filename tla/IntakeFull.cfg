SPECIFICATION MCFlushSpec
CONSTANTS
    f1 = f1
    f2 = f2
    u1 = u1
    u2 = u2
    p1 = p1
    p2 = p2
    Fetches = {f1, f2}
    Urls = {u1, u2}
    Processes = {p1}
    QueueInProcess = TRUE
    MaxAttempts = 2
    MaxVersion = 2
SYMMETRY FetchSymmetry
CHECK_DEADLOCK FALSE
INVARIANTS
    ListedIsCovered
    ExtractionDescribesText
PROPERTIES
    TextNeverRegresses
