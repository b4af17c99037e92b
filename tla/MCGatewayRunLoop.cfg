SPECIFICATION FairGatewaySpec
CONSTANTS
    s1 = s1
    r1 = r1
    r2 = r2
    Lane <- MCLane
    Task <- MCTask
    LaneOf <- MCLaneOf
    MaxConcurrent = 1
    MaxGeneration = 2
    MaxRestarts = 2
    Session <- MCSession
    Run <- MCRun
    Cron <- MCCron
    SessionOf <- MCSessionOf
    LaneParam <- MCLaneParam
    sessionLane <- MCSessionLane
    Main <- MCMain
    CronLane <- MCCronLane
    Subagent <- MCSubagent
    Nested <- MCNested
    sessionEntry <- MCSessionEntry
    globalEntry <- MCGlobalEntry
    cronEntry <- MCCronEntry
INVARIANTS
    DrainLeavesNoRun
    LockHandedOver
    OneTurnPerLifecycle
PROPERTIES
    DrainWindowCloses
    AcceptedRunSettles
    ResetBetweenServers
CHECK_DEADLOCK FALSE
