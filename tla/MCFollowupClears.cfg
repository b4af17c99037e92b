SPECIFICATION Spec
CONSTANTS
    m1 = m1
    m2 = m2
    m3 = m3
    Message <- ThreeMessages
    RouteOf <- TwoRoutes
    Unroutable = unroutable
    Settings <- Evicting
    q1 = q1
    q2 = q2
    Object <- Objects
    None = none
    MaxClears = 1
PROPERTY NeverAskedAgain
PROPERTY LostOnlyBy
SYMMETRY ObjectSymmetry
