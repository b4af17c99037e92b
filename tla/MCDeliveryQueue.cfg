SPECIFICATION Spec
CONSTANTS
    d1 = d1
    d2 = d2
    Delivery <- Two
    BestEffort <- First
    WithOnError <- First
    Parts = 1
    MaxRetries = 2
    MaxStarts = 1
    r1 = r1
    r2 = r2
    Recovery = {r1, r2}
SYMMETRY MCSymmetry
CHECK_DEADLOCK FALSE
INVARIANT NotLost
PROPERTY AckedIsFinal
PROPERTY GivesUp
