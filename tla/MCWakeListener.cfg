SPECIFICATION FairWakeSpec
CONSTANTS
    p1 = p1  p2 = p2  s1 = s1  s2 = s2
    w1 = w1  w2 = w2  r1 = r1
    Nobody = Nobody
    Procs = {p1, p2}
    Subs = {s1}
    Pullers = {w1, w2}
    PullsFrom <- OneSub
    Writers = {r1}
    ProcOf <- ApartProcs
    Databases = {"postgres"}
    Cap = 1
    Stoppable = {}
    Commits <- TwoPublishes
    MaxFaults <- OneDrop
CHECK_DEADLOCK FALSE
INVARIANT NoLostWakeup
PROPERTY SleeperWakes
