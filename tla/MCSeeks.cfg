SPECIFICATION SeeksSpec
CONSTANTS
    t1 = t1
    t2 = t2
    s1 = s1
    s2 = s2
    None = None
    NoKey = NoKey
    TopicName <- OneName
    SubRequest <- FadingOrderedSub
    SubRequests <- FadingOrderedRequests
    NextDelay <- SlowBackoff
    Masks = {{"ttl", "retry"}}
    TopicIds = {t1}
    SubIds = {s1}
    SnapNames = {n1}
    Keys = {a}
    Attrs = {x}
    Delays = {}
    MinAge = 1
    MaxDelete = 2
    MaxBatch = 1
    MaxAttempts = 2
    MaxId = 2
    MaxNow = 4
INVARIANTS NeverOversleeps OrderingNeverWedges PromiseKept
PROPERTIES SeekRestoresSnapshot DeliversAtLeastOnce
CHECK_DEADLOCK FALSE
