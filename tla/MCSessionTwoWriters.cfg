SPECIFICATION Spec
CONSTANTS
    p1 = p1
    p2 = p2
    t1 = t1
    t2 = t2
    t3 = t3
    Proc = {p1, p2}
    NoProc = NoProc
    Task = {t1, t2, t3}
    Of <- MCOf
    Listening = {p1}
    MaxLocks = 3
    MaxCrashes = 1
    MaxSignals = 0
    MaxAges = 0
    MaxForced = 0
    MaxSweeps = 0
INVARIANT AlwaysSingleWriter
