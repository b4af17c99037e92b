SPECIFICATION Spec
CONSTANTS
    j1 = j1
    j2 = j2
    Job = {j1, j2}
    Manual = {"m"}
    Schedules <- MCSchedules
    Period = 2
    At = 2
    Outcome = {"ok", "transient"}
    DeleteAfterRun = {}
    Backoff = 1
    MinRefireGap = 2
    MaxRetries = 1
    Concurrency = 1
    MaxMissed = 1
    Stagger = 1
    MaxTime = 3
    MaxCalls = 2
    Foreign <- MCForeign
INVARIANTS
    Exclusion
    MarkClaimed
    SchedulerAlive
PROPERTIES
    NoSlotSkipped
    OneShotOnce
