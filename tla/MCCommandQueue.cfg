\* Safety: every interleaving of four calls, one clear/reset/reconfigure
\* sequence, one waiter.  The calls are finite, so the system comes to rest.
SPECIFICATION QueueSpec
CONSTANTS
    main = main
    nested = nested
    t1 = t1
    t2 = t2
    t3 = t3
    t4 = t4
    Lane <- MCLane
    Task <- MCTask
    LaneOf <- MCLaneOf
    MaxConcurrent = 2
    MaxGeneration = 1
SYMMETRY MCSymmetry
INVARIANTS
    LaneAccounting
    NoIdleSlot
    DrainedIsTrue
PROPERTIES
    NoOvertaking
    SettledIsFinal
CHECK_DEADLOCK FALSE
