SPECIFICATION WakeSpec
CONSTANTS
    p1 = p1  p2 = p2  s1 = s1  s2 = s2
    w1 = w1  w2 = w2  r1 = r1
    Nobody = Nobody
    Procs = {p1}
    Subs = {s1, s2}
    Pullers = {w1, w2}
    PullsFrom <- OneSub
    Writers = {r1}
    ProcOf <- TogetherProcs
    Databases = {"postgres", "sqlite"}
    Cap = 1
    Stoppable = {p1}
    Commits <- OneOfEach
    MaxFaults <- AllFaults
SYMMETRY PullSymmetry
CHECK_DEADLOCK FALSE
INVARIANTS WakeTypeOK NoDoubleClose
