SPECIFICATION ResponsesSpec
CONSTANTS
    t1 = t1
    t2 = t2
    s1 = s1
    s2 = s2
    None = None
    NoKey = NoKey
    TopicName <- TwoNames
    SubRequest <- BriefSub
    SubRequests <- BriefRequests
    NextDelay <- LongBackoff
    Masks = {{"ordered", "deadLetter"}}
    TopicIds = {t1, t2}
    SubIds = {s1, s2}
    SnapNames = {}
    Keys = {a}
    Attrs = {x}
    Delays = {0, 2}
    MinAge = 1
    MaxDelete = 2
    MaxBatch = 1
    MaxAttempts = 1
    MaxId = 2
    MaxNow = 3
INVARIANTS WaitTypeOK PromiseKept NeverOversleeps
PROPERTY DelayHonoured
CHECK_DEADLOCK FALSE
