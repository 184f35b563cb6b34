SPECIFICATION SmokeSpec
CONSTANTS
    None = None
    NoKey = NoKey
    TopicName <- SmokeName
    SubRequest <- SmokeRequest
    SubRequests <- SmokeRequests
    NextDelay <- SmokeBackoff
    Masks = {}
    TopicIds = {t1}
    SubIds = {s1}
    SmokeTopic = t1
    SmokeSub = s1
    SnapNames = {}
    Keys = {NoKey}
    Attrs = {x}
    Delays = {}
    MinAge = 1
    MaxDelete = 1
    MaxBatch = 1
    MaxAttempts = 2
    MaxId = 1
    MaxNow = 80
    MsgTimeout = 22
    MaxSleep = 20
    Grace = 2
    Latency = 3
    ErrorLatency = 1
INVARIANTS SmokeTypeOK AckedBeforeDeleted ReceivedOnce ExpectedError
PROPERTY HandlersFinish
CHECK_DEADLOCK FALSE
