SPECIFICATION StreamSpec
CONSTANTS
    d1 = d1
    d2 = d2
    D = {d1, d2}
    Load <- EveryKind
    Window <- RoomToSpare
    MaxPull = 1
    MaxWindow = 2
    NackPenalty = 10
    QueueCap = 1
    MaxUpsets = 1
INVARIANTS StreamTypeOK WithinWindow HeldIsPending
PROPERTIES EverythingIsSent StreamEnds
CHECK_DEADLOCK FALSE
