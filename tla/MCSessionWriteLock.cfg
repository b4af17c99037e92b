SPECIFICATION Spec
CONSTANTS
    p1 = p1
    p2 = p2
    t1 = t1
    t2 = t2
    t3 = t3
    Proc = {p1, p2}
    NoProc = NoProc
    Task = {t1, t2, t3}
    Of <- MCOf
    Listening = {p1}
    MaxLocks = 3
    MaxCrashes = 1
    MaxSignals = 1
    MaxAges = 1
    MaxForced = 1
    MaxSweeps = 1
INVARIANTS
    SingleWriter
PROPERTIES
    StolenOnlyBy
SYMMETRY MCSymmetry
