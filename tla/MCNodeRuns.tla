------------------------------ MODULE MCNodeRuns ------------------------------
(* A small instance of NodeRuns: one node with two connections, and runs    *)
(* that share an approval.                                                    *)
EXTENDS NodeRuns, TLC

CONSTANTS n1, c1, c2, a1, i1, i2

MCNode == {n1}
MCConn == {c1, c2}
MCNodeOf == [c \in Conn |-> n1]
MCInvoke == {i1, i2}
MCTargetOf == [i \in Invoke |-> n1]
MCApproval == {a1}
MCApprovalOf == [i \in Invoke |-> a1]
MCMayFallBack == {i1}
=============================================================================
