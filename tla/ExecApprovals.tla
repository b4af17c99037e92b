---------------------------- MODULE ExecApprovals ----------------------------
(***************************************************************************)
(* The approvals of commands, src/src/gateway/exec-approval-manager.ts with *)
(* the handlers of src/src/gateway/server-methods/exec-approval.ts.         *)
(*                                                                          *)
(* A record is registered, then resolved by an operator, or expired by its  *)
(* timer or for want of a route to an operator; it stays in the map for a   *)
(* grace period, so that late callers find it.  All who wait hold the same  *)
(* promise.  What a record asks for is left out: whether a run matches it   *)
(* is a constant of NodeRuns.                                               *)
(***************************************************************************)
EXTENDS Integers

CONSTANTS
    Approval,   \* approval ids
    MaxRounds   \* bound: how often an id is registered

ASSUME RoundBound == MaxRounds \in Nat

Decision == {"allow-once", "allow-always", "deny"}

VARIABLES
    entry,       \* the entry of the pending map
    decision,    \* record.decision
    resolvedBy,  \* record.resolvedBy
    clock,       \* Date.now() against record.expiresAtMs
    promise,     \* what those who wait are told
    routing,     \* request handlers that await the forwarder
    rounds       \* registrations of the id so far

approvalVars == <<entry, decision, resolvedBy, clock, promise, routing, rounds>>

ApprovalTypeOK ==
    /\ entry \in [Approval -> {"none", "pending", "resolved"}]
    /\ decision \in [Approval -> Decision \cup {"undefined"}]
    /\ resolvedBy \in [Approval -> {"undefined", "null", "operator", "no-approval-route"}]
    /\ clock \in [Approval -> {"before", "at", "past"}]
    /\ promise \in [Approval -> Decision \cup {"pending", "null"}]
    /\ routing \in [Approval -> Nat]
    /\ rounds \in [Approval -> 0 .. MaxRounds]

ApprovalInit ==
    /\ entry = [a \in Approval |-> "none"]
    /\ decision = [a \in Approval |-> "undefined"]
    /\ resolvedBy = [a \in Approval |-> "undefined"]
    /\ clock = [a \in Approval |-> "before"]
    /\ promise = [a \in Approval |-> "pending"]
    /\ routing = [a \in Approval |-> 0]
    /\ rounds = [a \in Approval |-> 0]

\* exec.approval.request: an id that is in the map is refused.  The handler
\* then awaits the forwarder.
RequestApproval(a) ==
    /\ entry[a] = "none"
    /\ rounds[a] < MaxRounds
    /\ rounds' = [rounds EXCEPT ![a] = @ + 1]
    /\ entry' = [entry EXCEPT ![a] = "pending"]
    /\ decision' = [decision EXCEPT ![a] = "undefined"]
    /\ resolvedBy' = [resolvedBy EXCEPT ![a] = "undefined"]
    /\ clock' = [clock EXCEPT ![a] = "before"]
    /\ promise' = [promise EXCEPT ![a] = "pending"]
    /\ routing' = [routing EXCEPT ![a] = @ + 1]

\* Time passes the instant a record expires at.
Expiring(a) ==
    /\ entry[a] # "none"
    /\ clock[a] # "past"
    /\ clock' = [clock EXCEPT ![a] = IF @ = "before" THEN "at" ELSE "past"]
    /\ UNCHANGED <<entry, decision, resolvedBy, promise, routing, rounds>>

\* resolve and expire: whoever comes second finds the record resolved.
Settle(a, d, by) ==
    /\ entry[a] = "pending"
    /\ entry' = [entry EXCEPT ![a] = "resolved"]
    /\ decision' = [decision EXCEPT ![a] = IF d = "null" THEN "undefined" ELSE d]
    /\ resolvedBy' = [resolvedBy EXCEPT ![a] = by]
    /\ promise' = [promise EXCEPT ![a] = d]

\* exec.approval.resolve, by an operator
Resolve(a, d) ==
    /\ Settle(a, d, "operator")
    /\ UNCHANGED <<clock, routing, rounds>>

\* The timer of the entry
TimerExpires(a) ==
    /\ clock[a] # "before"
    /\ Settle(a, "null", "null")
    /\ UNCHANGED <<clock, routing, rounds>>

\* The forwarder has answered: with no route to an operator the handler expires
\* the id, if it is still pending.
RouteKnown(a) ==
    /\ routing[a] > 0
    /\ routing' = [routing EXCEPT ![a] = @ - 1]
    /\ \/ UNCHANGED <<entry, decision, resolvedBy, promise>>
       \/ Settle(a, "null", "no-approval-route")
    /\ UNCHANGED <<clock, rounds>>

\* The grace period of a resolved entry ends.
GraceEnds(a) ==
    /\ entry[a] = "resolved"
    /\ entry' = [entry EXCEPT ![a] = "none"]
    /\ UNCHANGED <<decision, resolvedBy, clock, promise, routing, rounds>>

\* Mutant: an allowance for one run is not spent.
ConsumeKeeps(a) == UNCHANGED decision

\* consumeAllowOnce
Consume(a) == decision' = [decision EXCEPT ![a] = "undefined"]

\* Mutant: a record without a decision counts as timed out.
TimedOutUndecided(a) ==
    /\ entry[a] = "resolved"
    /\ decision[a] = "undefined"

\* A record that nobody has decided in time
TimedOut(a) ==
    /\ entry[a] = "resolved"
    /\ decision[a] = "undefined"
    /\ resolvedBy[a] = "null"

ApprovalStep(a) ==
    \/ RequestApproval(a)
    \/ Expiring(a)
    \/ \E d \in Decision : Resolve(a, d)
    \/ TimerExpires(a)
    \/ RouteKnown(a)
    \/ GraceEnds(a)
=============================================================================
