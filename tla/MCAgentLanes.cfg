SPECIFICATION FairLaneSpec
CONSTANTS
    s1 = s1
    r1 = r1
    r2 = r2
    cr = cr
    Lane <- MCLane
    Task <- MCTask
    LaneOf <- MCLaneOf
    MaxConcurrent = 2
    MaxGeneration = 0
    Session <- MCSession
    Run <- MCRun
    Cron <- MCCron
    SessionOf <- MCSessionOf
    LaneParam <- MCLaneParam
    sessionLane <- MCSessionLane
    Main <- MCMain
    CronLane <- MCCronLane
    Subagent <- MCSubagent
    Nested <- MCNested
    sessionEntry <- MCSessionEntry
    globalEntry <- MCGlobalEntry
    cronEntry <- MCCronEntry
INVARIANTS
    SessionExclusion
PROPERTIES
    ServesSessionsInTurn
    RunSettles
CHECK_DEADLOCK FALSE
