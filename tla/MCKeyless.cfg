SPECIFICATION OrderSpec
CONSTANTS
    t1 = t1
    t2 = t2
    s1 = s1
    s2 = s2
    None = None
    NoKey = NoKey
    TopicName <- OneName
    SubRequest <- OrderedSub
    SubRequests <- OnlyOrdered
    NextDelay <- MCNextDelay
    Masks = {}
    TopicIds = {t1}
    SubIds = {s1}
    SnapNames = {}
    Keys = {a, NoKey}
    Attrs = {x}
    Delays = {0}
    MinAge = 1
    MaxDelete = 2
    MaxBatch = 1
    MaxAttempts = 2
    MaxId = 3
    MaxNow = 5
PROPERTY OrderRespected
CHECK_DEADLOCK FALSE
