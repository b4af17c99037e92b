SPECIFICATION FairSpec
CONSTANTS
    n1 = n1
    c1 = c1
    c2 = c2
    a1 = a1
    i1 = i1
    i2 = i2
    none = none
    Node <- MCNode
    Conn <- MCConn
    NodeOf <- MCNodeOf
    Invoke <- MCInvoke
    TargetOf <- MCTargetOf
    Approval <- MCApproval
    ApprovalOf <- MCApprovalOf
    Matches <- MCInvoke
    MayFallBack <- MCMayFallBack
    MaxRounds = 2
INVARIANTS
    RegistryConsistent
    Reachable
    OneRunPerApproval
PROPERTIES
    RunsAsDecided
    RunReplied
CHECK_DEADLOCK FALSE
