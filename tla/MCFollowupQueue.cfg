SPECIFICATION FairSpec
CONSTANTS
    m1 = m1
    m2 = m2
    m3 = m3
    Message <- ThreeMessages
    RouteOf <- TwoRoutes
    Unroutable = unroutable
    Settings <- KeepQueued
    q1 = q1
    q2 = q2
    Object <- Objects
    None = none
    MaxClears = 0
INVARIANT NoneLost
PROPERTY InOrder
PROPERTY Answered
PROPERTY DrainsRest
