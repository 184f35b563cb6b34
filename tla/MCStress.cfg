SPECIFICATION StressSpec
CONSTANTS
    Faults = {f1}
    Calls <- MCCalls
    Count <- MCCount
    Matching <- MCMatching
    NumMessages = 2
    MaxReceived = 3
INVARIANTS StressTypeOK ReportIsComplete
PROPERTIES StressEnds StrikesAsConfigured SpentIsPruned
CHECK_DEADLOCK FALSE
