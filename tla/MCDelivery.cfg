SPECIFICATION DeliverySpec
CONSTANTS
    t1 = t1
    t2 = t2
    s1 = s1
    s2 = s2
    None = None
    NoKey = NoKey
    TopicName <- TwoNames
    SubRequest <- DeadLetterSub
    SubRequests <- DeadLetterRequests
    NextDelay <- MCNextDelay
    Masks = {}
    TopicIds = {t1, t2}
    SubIds = {s1, s2}
    SnapNames = {}
    Keys = {a}
    Attrs = {x}
    Delays = {}
    MinAge = 1
    MaxDelete = 2
    MaxBatch = 2
    MaxAttempts = 2
    MaxId = 4
    MaxNow = 4
INVARIANTS TypeOK CompletedWasHanded PromiseKept AttemptsWithinLimit
    DeadLetterNeverBlocked
PROPERTIES OrderRespected DeliversAtLeastOnce
CHECK_DEADLOCK FALSE
