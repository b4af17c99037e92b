---------------------------- MODULE NodeRunsProofs ----------------------------
(***************************************************************************)
(* Proofs about NodeRuns, for any nodes, connections, runs and approvals.   *)
(*                                                                          *)
(* For the registry the missing fact is that a request is waited for under  *)
(* the node its connection belongs to: a close rejects the calls of a node, *)
(* not those of a connection.  For the approvals it is that the record, the *)
(* promise and who resolved it agree, and that an allowance that was used   *)
(* is gone from the record.                                                 *)
(***************************************************************************)
EXTENDS NodeRuns, TLAPS

\* A call waits under the node of the connection its request went out on.
SentToTarget ==
    \A i \in Invoke : invoke[i] = "waiting" => NodeOf[sentOn[i]] = TargetOf[i]

\* The last connection of a node to register is one of its own.
LatestOwn == \A n \in Node : latest[n] \in Conn => NodeOf[latest[n]] = n

RegistryInv == RegistryTypeOK /\ RegistryConsistent /\ SentToTarget /\ LatestOwn /\ Reachable

\* The entry, the record and the promise of an approval agree.
RecordAgrees ==
    \A a \in Approval :
        /\ entry[a] = "pending" => promise[a] = "pending"
        /\ entry[a] = "resolved" => promise[a] # "pending"
        /\ decision[a] \in {promise[a], "undefined"}
        /\ resolvedBy[a] = "null" => promise[a] = "null"

\* An allowance for one run that was used is gone from the record.
Spent ==
    \A a \in Approval :
        once[a] # 0 => once[a] = 1 /\ promise[a] = "allow-once" /\ decision[a] = "undefined"

RunInv == TypeOK /\ RegistryInv /\ RecordAgrees /\ Spent

-----------------------------------------------------------------------------
(* The registry *)

LEMMA RegisterKeeps ==
  ASSUME RegistryInv, NEW c \in Conn, Register(c)
  PROVE  RegistryInv'
  <1> USE RegistryAssumption
  <1>1. NodeOf[c] \in Node /\ c # none
    OBVIOUS
  <1>2. RegistryTypeOK'
    <2>1. cut' \in [Node -> BOOLEAN]
      BY <1>1, Zenon DEF RegistryInv, RegistryTypeOK, Register
    <2> QED
      BY <1>1, <2>1 DEF RegistryInv, RegistryTypeOK, Register
  <1>3. RegistryConsistent'
    BY <1>1 DEF RegistryInv, RegistryTypeOK, RegistryConsistent, Register, Connected
  <1>4. SentToTarget' /\ LatestOwn'
    BY <1>1 DEF RegistryInv, RegistryTypeOK, SentToTarget, LatestOwn, Register
  <1>5. ASSUME NEW n \in Node, latest'[n] \in nodesByConn'
        PROVE  nodesById'[n] = latest'[n] \/ cut'[n]
    <2>1. CASE n = NodeOf[c]
      BY <2>1 DEF RegistryInv, RegistryTypeOK, Register
    <2>2. CASE n # NodeOf[c]
      <3>1. nodesById'[n] = nodesById[n] /\ latest'[n] = latest[n] /\ cut'[n] = cut[n]
        BY <2>2 DEF RegistryInv, RegistryTypeOK, Register
      <3>2. latest[n] \in nodesByConn
        BY <1>5, <2>2, <3>1 DEF Register, RegistryInv, LatestOwn
      <3> QED
        BY <3>1, <3>2, Zenon DEF RegistryInv, Reachable
    <2> QED
      BY <2>1, <2>2
  <1>6. Reachable'
    BY <1>5, Zenon DEF Reachable
  <1> QED
    BY <1>2, <1>3, <1>4, <1>6 DEF RegistryInv

LEMMA UnregisterKeeps ==
  ASSUME RegistryInv, NEW c \in Conn, Unregister(c)
  PROVE  RegistryInv'
  <1> USE RegistryAssumption
  <1>1. NodeOf[c] \in Node /\ c # none
    OBVIOUS
  <1>2. RegistryTypeOK'
    <2>1. cut' \in [Node -> BOOLEAN]
      BY <1>1, Zenon DEF RegistryInv, RegistryTypeOK, Unregister
    <2>2. invoke' \in [Invoke -> {"new", "waiting"} \cup InvokeEnds]
      BY DEF RegistryInv, RegistryTypeOK, Unregister, Reject, InvokeEnds
    <2> QED
      BY <1>1, <2>1, <2>2 DEF RegistryInv, RegistryTypeOK, Unregister
  <1>3. \A i \in Invoke : invoke'[i] = "waiting" => invoke[i] = "waiting" /\ TargetOf[i] # NodeOf[c]
    BY DEF Unregister, Reject
  <1>4. RegistryConsistent'
    <2>1. \A n \in Node : Connected(n)' => nodesById'[n] \in nodesByConn' /\ NodeOf[nodesById'[n]] = n
      BY <1>1 DEF RegistryInv, RegistryTypeOK, RegistryConsistent, Unregister, Connected
    <2>2. \A i \in Invoke : invoke'[i] = "waiting" => sentOn'[i] \in nodesByConn'
      BY <1>3 DEF RegistryInv, RegistryConsistent, SentToTarget, Unregister
    <2> QED
      BY <2>1, <2>2 DEF RegistryConsistent
  <1>5. SentToTarget' /\ LatestOwn'
    BY <1>3 DEF RegistryInv, SentToTarget, LatestOwn, Unregister
  <1>6. ASSUME NEW n \in Node, latest'[n] \in nodesByConn'
        PROVE  nodesById'[n] = latest'[n] \/ cut'[n]
    <2>1. latest[n] \in nodesByConn /\ latest'[n] = latest[n] /\ latest[n] # c
      BY <1>6 DEF Unregister
    <2>2. CASE n = NodeOf[c]
      <3>1. cut'[n]
        BY <2>1, <2>2, Zenon DEF RegistryInv, RegistryTypeOK, Unregister
      <3> QED
        BY <3>1
    <2>3. CASE n # NodeOf[c]
      <3>1. nodesById'[n] = nodesById[n] /\ cut'[n] = cut[n]
        BY <2>3 DEF RegistryInv, RegistryTypeOK, Unregister
      <3> QED
        BY <2>1, <3>1, Zenon DEF RegistryInv, Reachable
    <2> QED
      BY <2>2, <2>3
  <1>7. Reachable'
    BY <1>6, Zenon DEF Reachable
  <1> QED
    BY <1>2, <1>4, <1>5, <1>7 DEF RegistryInv

LEMMA CallsKeep ==
  ASSUME RegistryInv, NEW i \in Invoke,
         SendInvoke(i) \/ InvokeTimesOut(i) \/ \E c \in Conn : InvokeResult(i, c)
  PROVE  RegistryInv'
  <1> USE RegistryAssumption
  <1>1. /\ conn' = conn /\ nodesById' = nodesById /\ nodesByConn' = nodesByConn
        /\ latest' = latest /\ cut' = cut
    BY DEF SendInvoke, InvokeTimesOut, InvokeResult
  <1>2. LatestOwn' /\ Reachable'
    BY <1>1 DEF RegistryInv, LatestOwn, Reachable
  <1>3. \A n \in Node : Connected(n)' => nodesById'[n] \in nodesByConn' /\ NodeOf[nodesById'[n]] = n
    BY <1>1 DEF RegistryInv, RegistryConsistent, Connected
  <1>4. CASE SendInvoke(i)
    <2>1. nodesById[TargetOf[i]] \in nodesByConn /\ NodeOf[nodesById[TargetOf[i]]] = TargetOf[i]
      BY <1>4 DEF SendInvoke, RegistryInv, RegistryConsistent
    <2>2. RegistryTypeOK'
      BY <1>1, <1>4 DEF SendInvoke, RegistryInv, RegistryTypeOK, InvokeEnds
    <2>3. ASSUME NEW j \in Invoke, invoke'[j] = "waiting"
          PROVE  sentOn'[j] \in nodesByConn /\ NodeOf[sentOn'[j]] = TargetOf[j]
      <3>1. CASE j = i
        BY <1>4, <2>1, <2>3, <3>1 DEF SendInvoke, RegistryInv, RegistryTypeOK
      <3>2. CASE j # i
        BY <1>4, <2>3, <3>2 DEF SendInvoke, RegistryInv, RegistryTypeOK, RegistryConsistent, SentToTarget
      <3> QED
        BY <3>1, <3>2
    <2>4. RegistryConsistent' /\ SentToTarget'
      BY <1>1, <1>3, <2>3 DEF RegistryConsistent, SentToTarget
    <2> QED
      BY <1>2, <2>2, <2>4 DEF RegistryInv
  <1>5. CASE InvokeTimesOut(i) \/ \E c \in Conn : InvokeResult(i, c)
    <2>1. RegistryTypeOK'
      BY <1>1, <1>5 DEF InvokeTimesOut, InvokeResult, RegistryInv, RegistryTypeOK, InvokeEnds
    <2>2. \A j \in Invoke : invoke'[j] = "waiting" => invoke[j] = "waiting" /\ sentOn'[j] = sentOn[j]
      BY <1>5 DEF InvokeTimesOut, InvokeResult, RegistryInv, RegistryTypeOK
    <2>3. RegistryConsistent' /\ SentToTarget'
      BY <1>1, <1>3, <2>2 DEF RegistryInv, RegistryConsistent, SentToTarget
    <2> QED
      BY <1>2, <2>1, <2>3 DEF RegistryInv
  <1> QED
    BY <1>4, <1>5

LEMMA RegistryUnchanged == RegistryInv /\ UNCHANGED registryVars => RegistryInv'
  BY DEF registryVars, RegistryInv, RegistryTypeOK, RegistryConsistent, SentToTarget, LatestOwn,
       Reachable, Connected

-----------------------------------------------------------------------------
(* The approvals *)

\* What the approvals' own steps do to one id, and that they leave the others.
LEMMA ApprovalTypes ==
  ASSUME ApprovalTypeOK, NEW a \in Approval, ApprovalStep(a)
  PROVE  ApprovalTypeOK'
  <1> USE RoundBound DEF ApprovalTypeOK
  <1>1. CASE RequestApproval(a)
    BY <1>1 DEF RequestApproval
  <1>2. CASE Expiring(a)
    BY <1>2 DEF Expiring
  <1>3. ASSUME NEW d \in Decision \cup {"null"},
               NEW by \in {"operator", "null", "no-approval-route"}, Settle(a, d, by)
        PROVE  /\ entry' \in [Approval -> {"none", "pending", "resolved"}]
               /\ decision' \in [Approval -> Decision \cup {"undefined"}]
               /\ resolvedBy' \in [Approval -> {"undefined", "null", "operator", "no-approval-route"}]
               /\ promise' \in [Approval -> Decision \cup {"pending", "null"}]
    BY <1>3 DEF Settle, Decision
  <1>4. ASSUME NEW d \in Decision, Resolve(a, d) PROVE ApprovalTypeOK'
    BY <1>3, <1>4 DEF Resolve
  <1>5. CASE TimerExpires(a)
    BY <1>3, <1>5 DEF TimerExpires
  <1>6. CASE RouteKnown(a)
    <2>1. routing' \in [Approval -> Nat]
      BY <1>6 DEF RouteKnown
    <2>2. CASE UNCHANGED <<entry, decision, resolvedBy, promise>>
      BY <1>6, <2>1, <2>2 DEF RouteKnown
    <2>3. CASE Settle(a, "null", "no-approval-route")
      BY <1>3, <1>6, <2>1, <2>3 DEF RouteKnown
    <2> QED
      BY <1>6, <2>2, <2>3 DEF RouteKnown
  <1>7. CASE GraceEnds(a)
    BY <1>7 DEF GraceEnds
  <1> QED
    BY <1>1, <1>2, <1>4, <1>5, <1>6, <1>7 DEF ApprovalStep

\* A step of an approval either registers the id anew, settles it while it is
\* pending, or leaves the record as it is.
LEMMA ApprovalEffect ==
  ASSUME ApprovalTypeOK, NEW a \in Approval, ApprovalStep(a)
  PROVE  \/ /\ RequestApproval(a)
            /\ rounds'[a] # rounds[a]
         \/ /\ rounds' = rounds
            /\ \E d \in Decision \cup {"null"}, by \in {"operator", "null", "no-approval-route"} :
                  Settle(a, d, by) /\ (by = "null" => d = "null")
         \/ /\ UNCHANGED <<rounds, decision, resolvedBy, promise>>
            /\ entry' = entry \/ entry' = [entry EXCEPT ![a] = "none"]
  <1>1. CASE RequestApproval(a)
    BY <1>1, RoundBound DEF RequestApproval, ApprovalTypeOK
  <1>2. CASE \E d \in Decision : Resolve(a, d)
    <2>1. PICK d \in Decision : Resolve(a, d)
      BY <1>2
    <2> QED
      BY <2>1 DEF Resolve
  <1>3. CASE TimerExpires(a)
    BY <1>3 DEF TimerExpires
  <1>4. CASE RouteKnown(a)
    BY <1>4 DEF RouteKnown
  <1>5. CASE Expiring(a) \/ GraceEnds(a)
    BY <1>5 DEF Expiring, GraceEnds
  <1> QED
    BY <1>1, <1>2, <1>3, <1>4, <1>5 DEF ApprovalStep

LEMMA ApprovalKeeps ==
  ASSUME RunInv, NEW a \in Approval, ApprovalStep(a), once' = Renewed
  PROVE  RecordAgrees' /\ Spent' /\ once' \in [Approval -> Nat]
  <1>0. ApprovalTypeOK /\ once \in [Approval -> Nat]
    BY DEF RunInv, TypeOK
  <1>1. CASE RequestApproval(a) /\ rounds'[a] # rounds[a]
    <2>1. \A b \in Approval : b # a => rounds'[b] = rounds[b]
      BY <1>0, <1>1 DEF RequestApproval, ApprovalTypeOK
    <2>2. once' = [once EXCEPT ![a] = 0]
      BY <1>0, <1>1, <2>1 DEF Renewed
    <2>3. RecordAgrees'
      BY <1>0, <1>1 DEF RequestApproval, ApprovalTypeOK, RunInv, RecordAgrees
    <2>4. Spent'
      BY <1>0, <1>1, <2>2 DEF RequestApproval, ApprovalTypeOK, RunInv, Spent
    <2> QED
      BY <1>0, <2>2, <2>3, <2>4
  <1>2. ASSUME NEW d \in Decision \cup {"null"},
               NEW by \in {"operator", "null", "no-approval-route"},
               Settle(a, d, by), by = "null" => d = "null", rounds' = rounds
        PROVE  RecordAgrees' /\ Spent' /\ once' \in [Approval -> Nat]
    <2>1. once' = once
      BY <1>0, <1>2 DEF Renewed
    <2>2. RecordAgrees'
      BY <1>0, <1>2 DEF Settle, Decision, ApprovalTypeOK, RunInv, RecordAgrees
    <2>3. promise[a] = "pending"
      BY <1>2 DEF Settle, RunInv, RecordAgrees
    <2>4. once[a] = 0
      BY <2>3 DEF RunInv, Spent
    <2>5. Spent'
      BY <1>0, <1>2, <2>1, <2>4 DEF Settle, ApprovalTypeOK, RunInv, Spent
    <2> QED
      BY <1>0, <2>1, <2>2, <2>5
  <1>3. CASE /\ UNCHANGED <<rounds, decision, resolvedBy, promise>>
             /\ entry' = entry \/ entry' = [entry EXCEPT ![a] = "none"]
    <2>1. once' = once
      BY <1>0, <1>3 DEF Renewed
    <2>2. RecordAgrees'
      BY <1>0, <1>3 DEF ApprovalTypeOK, RunInv, RecordAgrees
    <2>3. Spent'
      BY <1>3, <2>1 DEF RunInv, Spent
    <2> QED
      BY <1>0, <2>1, <2>2, <2>3
  <1> QED
    BY <1>0, <1>1, <1>2, <1>3, ApprovalEffect

-----------------------------------------------------------------------------
(* The runs *)

\* A run is forwarded for what was promised, and uses up an allowance for one.
LEMMA AllowedAsDecided ==
  ASSUME RunInv, NEW i \in Invoke, entry[ApprovalOf[i]] # "none", Allowed(i, ApprovalOf[i])
  PROVE  LET a == ApprovalOf[i] IN
         /\ decision' \in [Approval -> Decision \cup {"undefined"}]
         /\ \/ promise[a] \in {"allow-once", "allow-always"}
            \/ promise[a] = "null" /\ resolvedBy[a] = "null" /\ i \in MayFallBack
         /\ promise[a] = "allow-once" => once[a] = 0 /\ decision'[a] = "undefined"
         /\ \A b \in Approval : decision'[b] \in {decision[b], "undefined"}
  <1> DEFINE a == ApprovalOf[i]
  <1>1. a \in Approval /\ decision \in [Approval -> Decision \cup {"undefined"}]
    BY RunAssumption DEF RunInv, TypeOK, ApprovalTypeOK
  <1>2. decision[a] \in {promise[a], "undefined"} /\ (resolvedBy[a] = "null" => promise[a] = "null")
    BY <1>1 DEF RunInv, RecordAgrees
  <1>3. once[a] # 0 => decision[a] = "undefined"
    BY <1>1 DEF RunInv, Spent
  <1>4. CASE decision[a] = "allow-once" /\ Consume(a)
    BY <1>1, <1>2, <1>3, <1>4 DEF Consume
  <1>5. CASE decision[a] = "allow-always" /\ UNCHANGED decision
    BY <1>1, <1>2, <1>5
  <1>6. CASE TimedOut(a) /\ i \in MayFallBack /\ UNCHANGED decision
    BY <1>1, <1>2, <1>6 DEF TimedOut
  <1> QED
    BY <1>4, <1>5, <1>6 DEF Allowed

RefuseSteps(i) == \E why \in Refusals : Refuse(i, why)

ForwardSteps(i) ==
    LET a == ApprovalOf[i] IN
    /\ entry[a] # "none"
    /\ Allowed(i, a)
    /\ SendInvoke(i)
    /\ run' = [run EXCEPT ![i] = "forwarded"]
    /\ once' = [once EXCEPT ![a] = @ + IF promise[a] = "allow-once" THEN 1 ELSE 0]
    /\ UNCHANGED <<entry, resolvedBy, clock, promise, routing, rounds>>

\* The handler of a run refuses it, forwards it or begins to wake the node.
LEMMA HandlerSteps ==
  ASSUME NEW i \in Invoke, Submit(i) \/ Wake(i) \/ WakeEnds(i)
  PROVE  RefuseSteps(i) \/ ForwardSteps(i) \/ Wake(i)
  <1>1. Forward(i) => RefuseSteps(i) \/ ForwardSteps(i)
    BY DEF Forward, RefuseSteps, ForwardSteps, Refusals
  <1> QED
    BY <1>1 DEF Submit, WakeEnds, RefuseSteps, Refusals

LEMMA ForwardKeeps ==
  ASSUME RunInv, NEW i \in Invoke, ForwardSteps(i)
  PROVE  RunInv'
  <1> DEFINE a == ApprovalOf[i]
  <1>0. a \in Approval
    BY RunAssumption
  <1>1. RegistryInv'
    BY CallsKeep DEF RunInv, ForwardSteps
  <1>2. /\ decision' \in [Approval -> Decision \cup {"undefined"}]
        /\ promise[a] = "allow-once" => once[a] = 0 /\ decision'[a] = "undefined"
        /\ \A b \in Approval : decision'[b] \in {decision[b], "undefined"}
    BY AllowedAsDecided DEF ForwardSteps
  <1>3. UNCHANGED <<entry, resolvedBy, clock, promise, routing, rounds>>
    BY DEF ForwardSteps
  <1>4. ApprovalTypeOK'
    BY <1>2, <1>3 DEF RunInv, TypeOK, ApprovalTypeOK
  <1>5. once \in [Approval -> Nat]
    BY DEF RunInv, TypeOK
  <1>6. once' = [once EXCEPT ![a] = IF promise[a] = "allow-once" THEN once[a] + 1 ELSE once[a]]
    <2>1. CASE promise[a] = "allow-once"
      BY <2>1 DEF ForwardSteps
    <2>2. CASE promise[a] # "allow-once"
      <3>1. once' = [once EXCEPT ![a] = once[a] + 0]
        BY <2>2 DEF ForwardSteps
      <3>2. once[a] + 0 = once[a]
        BY <1>0, <1>5
      <3> QED
        BY <2>2, <3>1, <3>2
    <2> QED
      BY <2>1, <2>2
  <1>7. TypeOK'
    <2>1. run' \in [Invoke -> {"new", "waking", "forwarded"} \cup Refusals]
      BY DEF RunInv, TypeOK, ForwardSteps
    <2>2. once' \in [Approval -> Nat]
      BY <1>0, <1>5, <1>6
    <2> QED
      BY <1>1, <1>4, <2>1, <2>2 DEF RegistryInv, TypeOK
  <1>8. RecordAgrees'
    BY <1>2, <1>3 DEF RunInv, RecordAgrees
  <1>9. ASSUME NEW b \in Approval, once'[b] # 0
        PROVE  once'[b] = 1 /\ promise[b] = "allow-once" /\ decision'[b] = "undefined"
    <2>1. CASE b = a /\ promise[a] = "allow-once"
      BY <1>0, <1>2, <1>5, <1>6, <2>1
    <2>2. CASE b # a \/ promise[a] # "allow-once"
      <3>1. once'[b] = once[b]
        BY <1>0, <1>5, <1>6, <2>2
      <3> QED
        BY <1>2, <1>9, <3>1 DEF RunInv, Spent
    <2> QED
      BY <2>1, <2>2
  <1>10. Spent'
    BY <1>3, <1>9 DEF Spent
  <1> QED
    BY <1>1, <1>7, <1>8, <1>10 DEF RunInv

LEMMA RunInitially == Init => RunInv
  <1> SUFFICES ASSUME Init PROVE RunInv
    OBVIOUS
  <1> USE DEF Init, RegistryInit, ApprovalInit
  <1>1. RegistryTypeOK
    <2>1. cut \in [Node -> BOOLEAN]
      BY Zenon
    <2> QED
      BY <2>1 DEF RegistryTypeOK
  <1>2. ApprovalTypeOK
    BY RoundBound DEF ApprovalTypeOK
  <1>3. TypeOK
    BY <1>1, <1>2 DEF TypeOK
  <1>4. RegistryInv
    BY <1>1, RegistryAssumption DEF RegistryInv, RegistryConsistent, SentToTarget, LatestOwn, Reachable, Connected
  <1>5. RecordAgrees /\ Spent
    BY DEF RecordAgrees, Spent
  <1> QED
    BY <1>3, <1>4, <1>5 DEF RunInv

LEMMA RunStep == RunInv /\ [Next]_vars => RunInv'
  <1> SUFFICES ASSUME RunInv, [Next]_vars PROVE RunInv'
    OBVIOUS
  <1>1. CASE RegistryStep /\ UNCHANGED <<approvalVars, run, once>>
    <2>1. RegistryInv'
      BY <1>1, RegisterKeeps, UnregisterKeeps, CallsKeep DEF RunInv, RegistryStep
    <2>2. TypeOK' /\ RecordAgrees' /\ Spent'
      BY <1>1, <2>1 DEF RegistryInv, RunInv, TypeOK, ApprovalTypeOK, approvalVars, RecordAgrees, Spent
    <2> QED
      BY <2>1, <2>2 DEF RunInv
  <1>2. ASSUME NEW a \in Approval, ApprovalStep(a), once' = Renewed, UNCHANGED <<registryVars, run>>
        PROVE  RunInv'
    <2>1. RegistryInv'
      BY <1>2, RegistryUnchanged DEF RunInv
    <2>2. RecordAgrees' /\ Spent' /\ once' \in [Approval -> Nat]
      BY <1>2, ApprovalKeeps
    <2>3. ApprovalTypeOK'
      BY <1>2, ApprovalTypes DEF RunInv, TypeOK
    <2>4. run' \in [Invoke -> {"new", "waking", "forwarded"} \cup Refusals]
      BY <1>2 DEF RunInv, TypeOK
    <2> QED
      BY <2>1, <2>2, <2>3, <2>4 DEF RunInv, TypeOK, RegistryInv
  <1>3. ASSUME NEW i \in Invoke, RefuseSteps(i) \/ Wake(i) PROVE RunInv'
    <2>1. UNCHANGED <<registryVars, approvalVars, once>>
      BY <1>3 DEF RefuseSteps, Refuse, Wake
    <2>2. run' \in [Invoke -> {"new", "waking", "forwarded"} \cup Refusals]
      BY <1>3 DEF RunInv, TypeOK, RefuseSteps, Refuse, Wake
    <2>3. RegistryInv'
      BY <2>1, RegistryUnchanged DEF RunInv
    <2> QED
      BY <2>1, <2>2, <2>3 DEF RegistryInv, RunInv, TypeOK, ApprovalTypeOK, approvalVars, RecordAgrees, Spent
  <1>4. CASE UNCHANGED vars
    <2>1. RegistryInv'
      BY <1>4, RegistryUnchanged DEF RunInv, vars
    <2> QED
      BY <1>4, <2>1 DEF vars, RegistryInv, RunInv, TypeOK, ApprovalTypeOK, approvalVars, RecordAgrees, Spent
  <1> QED
    BY <1>1, <1>2, <1>3, <1>4, HandlerSteps, ForwardKeeps DEF Next

LEMMA RunAlways == Spec => []RunInv
  <1> QED
    BY RunInitially, RunStep, PTL DEF Spec

-----------------------------------------------------------------------------
\* Every state of the registry, the approvals and the runs is well typed, for any
\* nodes, connections, calls, ids and numbers of registrations.
THEOREM RunTypeCorrect == Spec => []TypeOK
  <1>1. RunInv => TypeOK
    BY DEF RunInv
  <1> QED
    BY <1>1, RunAlways, PTL

\* The maps of the registry agree, and nobody waits on a closed connection.
THEOREM RunRegistryConsistent == Spec => []RegistryConsistent
  <1>1. RunInv => RegistryConsistent
    BY DEF RunInv, RegistryInv
  <1> QED
    BY <1>1, RunAlways, PTL

\* A node with an open connection is invoked on the last one, unless an older
\* connection closed after it registered.
THEOREM RunReachable == Spec => []Reachable
  <1>1. RunInv => Reachable
    BY DEF RunInv, RegistryInv
  <1> QED
    BY <1>1, RunAlways, PTL

\* One run comes out of an approval for one run.
THEOREM RunOncePerApproval == Spec => []OneRunPerApproval
  <1>1. RunInv => OneRunPerApproval
    <2>1. SUFFICES ASSUME RunInv, NEW a \in Approval PROVE once[a] <= 1
      BY DEF OneRunPerApproval
    <2>2. once[a] = 0 \/ once[a] = 1
      BY <2>1 DEF RunInv, Spent
    <2> QED
      BY <2>2
  <1> QED
    BY <1>1, RunAlways, PTL

\* A run is forwarded only for what those who wait for the decision were told.
THEOREM RunAsDecided == Spec => RunsAsDecided
  <1> DEFINE AsDecided ==
        \A i \in Invoke :
          LET a == ApprovalOf[i] IN
          Forwarded(i) =>
             \/ promise[a] \in {"allow-once", "allow-always"}
             \/ promise[a] = "null" /\ resolvedBy[a] = "null" /\ i \in MayFallBack
  <1>1. RunInv /\ [Next]_vars => [AsDecided]_vars
    <2>1. SUFFICES ASSUME RunInv, Next, NEW i \in Invoke, Forwarded(i)
                   PROVE  LET a == ApprovalOf[i] IN
                          \/ promise[a] \in {"allow-once", "allow-always"}
                          \/ promise[a] = "null" /\ resolvedBy[a] = "null" /\ i \in MayFallBack
      BY DEF vars
    <2>2. \E j \in Invoke : RefuseSteps(j) \/ ForwardSteps(j) \/ Wake(j)
      BY <2>1, HandlerSteps DEF Next, Forwarded
    <2>3. ForwardSteps(i)
      BY <2>1, <2>2 DEF RunInv, TypeOK, Forwarded, RefuseSteps, Refuse, Wake, ForwardSteps, Refusals
    <2> QED
      BY <2>1, <2>3, AllowedAsDecided DEF ForwardSteps
  <1> QED
    BY <1>1, RunAlways, PTL DEF Spec, RunsAsDecided

\* What those who wait were told, and who decided, stays as long as the id is that
\* registration's; an allowance can only be used up.
THEOREM RunToldOnce == Spec => ToldOnce
  <1> DEFINE Kept ==
        \A a \in Approval :
          /\ promise[a] # "pending" /\ rounds'[a] = rounds[a]
          => /\ promise'[a] = promise[a]
             /\ decision'[a] \in {decision[a], "undefined"}
             /\ resolvedBy'[a] = resolvedBy[a]
  <1>1. RunInv /\ [Next]_vars => [Kept]_vars
    <2>1. SUFFICES ASSUME RunInv, Next, NEW a \in Approval, promise[a] # "pending", rounds'[a] = rounds[a]
                   PROVE  /\ promise'[a] = promise[a]
                          /\ decision'[a] \in {decision[a], "undefined"}
                          /\ resolvedBy'[a] = resolvedBy[a]
      BY DEF vars
    <2>2. ASSUME NEW b \in Approval, ApprovalStep(b)
          PROVE  /\ promise'[a] = promise[a] /\ decision'[a] = decision[a]
                 /\ resolvedBy'[a] = resolvedBy[a]
      <3>1. ApprovalTypeOK
        BY <2>1 DEF RunInv, TypeOK
      <3>2. CASE b = a
        <4>1. entry[a] # "pending"
          BY <2>1 DEF RunInv, RecordAgrees
        <4> QED
          BY <2>1, <2>2, <3>1, <3>2, <4>1, ApprovalEffect DEF Settle
      <3>3. CASE b # a
        BY <2>2, <3>1, <3>3, ApprovalEffect DEF RequestApproval, Settle, ApprovalTypeOK
      <3> QED
        BY <3>2, <3>3
    <2>3. ASSUME NEW i \in Invoke, RefuseSteps(i) \/ Wake(i)
          PROVE  promise' = promise /\ decision' = decision /\ resolvedBy' = resolvedBy
      BY <2>3 DEF RefuseSteps, Refuse, Wake, approvalVars
    <2>4. ASSUME NEW i \in Invoke, ForwardSteps(i)
          PROVE  /\ promise' = promise /\ decision'[a] \in {decision[a], "undefined"}
                 /\ resolvedBy' = resolvedBy
      BY <2>1, <2>4, AllowedAsDecided DEF ForwardSteps
    <2>5. CASE RegistryStep /\ UNCHANGED <<approvalVars, run, once>>
      BY <2>5 DEF approvalVars
    <2> QED
      BY <2>1, <2>2, <2>3, <2>4, <2>5, HandlerSteps DEF Next
  <1> QED
    BY <1>1, RunAlways, PTL DEF Spec, ToldOnce

=============================================================================
