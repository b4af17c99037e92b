------------------------------- MODULE NodeRuns -------------------------------
(***************************************************************************)
(* Commands that run on nodes: node.invoke of                               *)
(* src/src/gateway/server-methods/nodes.ts with system.run, over the node   *)
(* registry and the exec approvals.                                         *)
(*                                                                          *)
(* A run names the approval that allows it.  The gateway takes the          *)
(* approval flags of the caller away and puts in those of its own record    *)
(* (src/src/gateway/node-invoke-system-run-approval.ts).  From the lookup   *)
(* of the node to the request on its socket nothing is awaited.             *)
(***************************************************************************)
EXTENDS NodeRegistry, ExecApprovals

CONSTANTS
    ApprovalOf,     \* the approval each run names
    Matches,        \* the runs that match its node, device and command
    MayFallBack     \* the runs of clients that may use exec approvals

ASSUME RunAssumption ==
    /\ ApprovalOf \in [Invoke -> Approval]
    /\ Matches \subseteq Invoke
    /\ MayFallBack \subseteq Invoke

VARIABLES
    run,   \* where the handler of node.invoke stands
    once   \* observed: runs forwarded after those who wait were told "allow-once"

vars == <<registryVars, approvalVars, run, once>>

Refusals == {"notConnected", "unknown", "expired", "refused"}

\* Type correctness of the registry, of the approvals and of the runs.
TypeOK ==
    /\ RegistryTypeOK
    /\ ApprovalTypeOK
    /\ run \in [Invoke -> {"new", "waking", "forwarded"} \cup Refusals]
    /\ once \in [Approval -> Nat]

Init ==
    /\ RegistryInit
    /\ ApprovalInit
    /\ run = [i \in Invoke |-> "new"]
    /\ once = [a \in Approval |-> 0]

Refuse(i, why) ==
    /\ run' = [run EXCEPT ![i] = why]
    /\ UNCHANGED <<registryVars, approvalVars, once>>

\* The decision in the record lets the run pass; an allowance for one run is
\* spent by it.
Allowed(i, a) ==
    \/ /\ decision[a] = "allow-once"
       /\ Consume(a)
    \/ /\ decision[a] = "allow-always" \/ (TimedOut(a) /\ i \in MayFallBack)
       /\ UNCHANGED decision

Required(i, a) ==
    /\ decision[a] \notin {"allow-once", "allow-always"}
    /\ ~(TimedOut(a) /\ i \in MayFallBack)

\* sanitizeSystemRunParamsForForwarding and invoke, for a node that is there.
Forward(i) ==
    LET a == ApprovalOf[i] IN
    /\ Connected(TargetOf[i])
    /\ \/ entry[a] = "none" /\ Refuse(i, "unknown")
       \/ entry[a] # "none" /\ clock[a] = "past" /\ Refuse(i, "expired")
       \/ /\ entry[a] # "none" /\ clock[a] # "past"
          /\ i \notin Matches \/ Required(i, a)
          /\ Refuse(i, "refused")
       \/ /\ entry[a] # "none" /\ clock[a] # "past"
          /\ i \in Matches
          /\ Allowed(i, a)
          /\ SendInvoke(i)
          /\ run' = [run EXCEPT ![i] = "forwarded"]
          /\ once' = [once EXCEPT ![a] = @ + IF promise[a] = "allow-once" THEN 1 ELSE 0]
          /\ UNCHANGED <<entry, resolvedBy, clock, promise, routing, rounds>>

\* node.invoke, for a node that is connected
Submit(i) ==
    /\ run[i] = "new"
    /\ Forward(i)

\* node.invoke, for a node that is not: it is woken and waited for.
Wake(i) ==
    /\ run[i] = "new"
    /\ ~Connected(TargetOf[i])
    /\ run' = [run EXCEPT ![i] = "waking"]
    /\ UNCHANGED <<registryVars, approvalVars, once>>

\* Mutant: the wait has no deadline.
WakeEndsConnected(i) ==
    /\ run[i] = "waking"
    /\ Forward(i)

\* The wait ends: the node has come back or not.  A node that comes back while
\* the handler awaits the last nudge is too late.
WakeEnds(i) ==
    /\ run[i] = "waking"
    /\ Forward(i) \/ Refuse(i, "notConnected")

RegistryStep ==
    \/ \E c \in Conn : Register(c) \/ Unregister(c)
    \/ \E i \in Invoke : InvokeTimesOut(i)
    \/ \E i \in Invoke, c \in Conn : InvokeResult(i, c)

\* A new registration has an allowance of its own.
Renewed == [a \in Approval |-> IF rounds'[a] # rounds[a] THEN 0 ELSE once[a]]

Next ==
    \/ RegistryStep /\ UNCHANGED <<approvalVars, run, once>>
    \/ \E a \in Approval : /\ ApprovalStep(a)
                           /\ once' = Renewed
                           /\ UNCHANGED <<registryVars, run>>
    \/ \E i \in Invoke : Submit(i)
    \/ \E i \in Invoke : Wake(i)
    \/ \E i \in Invoke : WakeEnds(i)

\* Every wait has a timer: an approval expires, an invoke times out, waiting
\* for a node that was woken ends.
Fairness ==
    /\ \A a \in Approval :
          /\ WF_vars(Expiring(a) /\ UNCHANGED <<registryVars, run, once>>)
          /\ WF_vars(TimerExpires(a) /\ UNCHANGED <<registryVars, run, once>>)
    /\ \A i \in Invoke :
          /\ WF_vars(WakeEnds(i))
          /\ WF_vars(InvokeTimesOut(i) /\ UNCHANGED <<approvalVars, run, once>>)

Spec == Init /\ [][Next]_vars
FairSpec == Spec /\ Fairness

-----------------------------------------------------------------------------
(***************************************************************************)
(* Correctness.                                                             *)
(***************************************************************************)

\* "One-time approvals must be consumed atomically so the same runId cannot be
\* replayed during the resolved-entry grace window"
\* (exec-approval-manager.ts:163-164): two callers with one approval, a node
\* that is woken in between and a disconnect get one run out of it.
OneRunPerApproval == \A a \in Approval : once[a] <= 1

Forwarded(i) == run[i] # "forwarded" /\ run'[i] = "forwarded"

\* A run is forwarded only for what those who wait for the decision have been
\* told: never while it is pending, after a refusal or for want of a route; and
\* for a timeout only to a client that may fall back
\* (node-invoke-system-run-approval.ts:269-302).
RunsAsDecided ==
    [][\A i \in Invoke :
          LET a == ApprovalOf[i] IN
          Forwarded(i) =>
             \/ promise[a] \in {"allow-once", "allow-always"}
             \/ promise[a] = "null" /\ resolvedBy[a] = "null" /\ i \in MayFallBack]_vars

\* What has been told stays true as long as the id is that registration's: a
\* decision and the expiry that race for it do not undo each other.
ToldOnce ==
    [][\A a \in Approval :
          /\ promise[a] # "pending" /\ rounds'[a] = rounds[a]
          => /\ promise'[a] = promise[a]
             /\ decision'[a] \in {decision[a], "undefined"}
             /\ resolvedBy'[a] = resolvedBy[a]]_vars

\* Every caller of node.invoke gets a reply, whatever nodes, operators and
\* connections do.
RunReplied ==
    \A i \in Invoke :
        run[i] \in {"waking", "forwarded"}
          ~> run[i] \in Refusals \/ invoke[i] \in InvokeEnds

=============================================================================
