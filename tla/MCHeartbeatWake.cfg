SPECIFICATION FairSpec
CONSTANTS
    t1 = t1
    t2 = t2
    Target <- MCTarget
    Priority <- MCPriority
    Coalesce <- MCCoalesce
    Requests <- MCRequests
    Default = 1
    Retry = 2
    MaxHandlers = 2
    MaxCallbacks = 2
INVARIANTS
    WakeArmed
    WakeKept
    OneBatch
PROPERTIES
    CooldownKept
    WakeDelivered
