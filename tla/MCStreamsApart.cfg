SPECIFICATION StreamSpec
CONSTANTS
    d1 = d1
    d2 = d2
    D = {d1, d2}
    Load <- AnsweringApart
    Window <- NoRoom
    MaxPull = 1
    MaxWindow = 2
    NackPenalty = 10
    QueueCap = 1
    MaxUpsets = 1
PROPERTY EverythingIsSent
CHECK_DEADLOCK FALSE
