SPECIFICATION TopicsAndSnapshotsSpec
CONSTANTS
    t1 = t1
    t2 = t2
    s1 = s1
    s2 = s2
    None = None
    NoKey = NoKey
    TopicName <- TwoNames
    SubRequest <- PlainSub
    SubRequests <- OnlyPlain
    NextDelay <- MCNextDelay
    Masks = {}
    TopicIds = {t1, t2}
    SubIds = {s1}
    SnapNames = {n1}
    Keys = {NoKey}
    Attrs = {x}
    Delays = {}
    MinAge = 1
    MaxDelete = 2
    MaxBatch = 1
    MaxAttempts = 1
    MaxId = 1
    MaxNow = 4
PROPERTY UnneededTopicPruned
CHECK_DEADLOCK FALSE
