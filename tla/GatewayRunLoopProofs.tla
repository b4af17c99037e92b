------------------------ MODULE GatewayRunLoopProofs ------------------------
(***************************************************************************)
(* Proofs about AgentLanes, and about GatewayRunLoop over it, for every set *)
(* of sessions, runs and lanes, every configured cap and every number of    *)
(* restarts.                                                                *)
(*                                                                          *)
(* First the agent lanes.  A session lane keeps the cap 1, so of the        *)
(* session entries of one session at most one can run in the lane's current *)
(* generation; a reset makes the running ones stale for ever, and the next  *)
(* one that starts takes a newer generation.  A turn only executes inside   *)
(* its session entry, so what holds of the session entries holds of the     *)
(* turns.                                                                   *)
(***************************************************************************)
EXTENDS GatewayRunLoop, CommandQueueProofs

\* setCommandLaneConcurrency is never called for a session lane.
SessionCapOne == \A s \in Session : maxConcurrent[sessionLane[s]] = 1

\* Session entries of one session that run together started between
\* different resets.
OneHolder ==
    \A r, v \in Run :
        /\ r # v /\ SessionOf[r] = SessionOf[v]
        /\ phase[sessionEntry[r]] = "running"
        /\ phase[sessionEntry[v]] = "running"
        => taskGeneration[sessionEntry[r]] # taskGeneration[sessionEntry[v]]

AgentInv == QueueInv /\ NestedInSession /\ SessionCapOne /\ OneHolder

\* What an operation may do to the entries T it queues and U it settles
\* without breaking the nesting.
KeepsNesting(T, U) ==
    \A r \in Run :
        /\ globalEntry[r] \in T => phase[sessionEntry[r]] = "running"
        /\ sessionEntry[r] \in U => phase[globalEntry[r]] \in Settled

-----------------------------------------------------------------------------
LEMMA AgentInitInv == QueueInit => AgentInv
  <1> SUFFICES ASSUME QueueInit PROVE AgentInv
    OBVIOUS
  <1> USE RunAssumption, EntryAssumption
  <1>1. QueueInv
    BY QueueInitInv
  <1>2. \A t \in Task : phase[t] = "new"
    BY DEF QueueInit
  <1>3. NestedInSession /\ OneHolder
    BY <1>2 DEF NestedInSession, OneHolder
  <1>4. SessionCapOne
    BY DEF QueueInit, SessionCapOne
  <1> QED
    BY <1>1, <1>3, <1>4 DEF AgentInv

\* The turn stays inside its session entry.
LEMMA NestingKept ==
  ASSUME QueueInv, QueueInv', NestedInSession,
         NEW T, NEW U, LifecycleStep(T, U), KeepsNesting(T, U)
  PROVE  NestedInSession'
  <1> SUFFICES ASSUME NEW r \in Run
               PROVE  /\ phase'[globalEntry[r]] \in {"queued", "running"}
                           => phase'[sessionEntry[r]] = "running"
                      /\ phase'[sessionEntry[r]] \in {"new", "queued"}
                           => phase'[globalEntry[r]] = "new"
    BY DEF NestedInSession
  <1> DEFINE ge == globalEntry[r]
             se == sessionEntry[r]
  <1>1. ge \in Task /\ se \in Task
    BY EntryAssumption
  <1>2. /\ phase[ge] \in Phases /\ phase[se] \in Phases
        /\ phase'[ge] \in Phases /\ phase'[se] \in Phases
    BY <1>1 DEF QueueInv, LaneInv
  <1>3. /\ phase[ge] \in {"queued", "running"} => phase[se] = "running"
        /\ phase[se] \in {"new", "queued"} => phase[ge] = "new"
    BY DEF NestedInSession
  <1>4. /\ ge \in T => phase[se] = "running"
        /\ se \in U => phase[ge] \in Settled
    BY DEF KeepsNesting
  <1>5. /\ phase[ge] \in Settled => phase'[ge] = phase[ge]
        /\ phase[se] \in Settled => phase'[se] = phase[se]
        /\ phase[se] = "running" => phase'[se] \in {"running"} \cup Outcomes
        /\ ge \notin T /\ phase[ge] = "new" => phase'[ge] = "new"
        /\ se \notin U /\ phase[se] = "running" => phase'[se] = "running"
    BY <1>1 DEF LifecycleStep
  <1> QED
    BY <1>2, <1>3, <1>4, <1>5 DEF Phases, Settled, Outcomes

\* No second entry of a session starts in a generation in which one runs.
LEMMA OneHolderKept ==
  ASSUME QueueInv, QueueInv', OneHolder, SessionCapOne',
         NEW T, NEW U, StepOK(T, U)
  PROVE  OneHolder'
  <1>1. ASSUME NEW r \in Run, NEW v \in Run, r # v, SessionOf[r] = SessionOf[v],
               phase'[sessionEntry[r]] = "running",
               phase'[sessionEntry[v]] = "running",
               phase[sessionEntry[r]] # "running"
        PROVE  taskGeneration'[sessionEntry[r]] # taskGeneration'[sessionEntry[v]]
    <2> DEFINE se == sessionEntry[r]
               sv == sessionEntry[v]
               l  == sessionLane[SessionOf[r]]
    <2>1. /\ se \in Task /\ sv \in Task /\ se # sv /\ l \in Lane
          /\ LaneOf[se] = l /\ LaneOf[sv] = l /\ SessionOf[r] \in Session
      BY <1>1, RunAssumption, EntryAssumption, EntryLanes
    <2>2. /\ active[l] = {t \in Task : LaneOf[t] = l /\ HoldsSlot(t)}
          /\ active'[l] = {t \in Task : LaneOf[t] = l /\ HoldsSlot(t)'}
          /\ IsFiniteSet(active'[l])
      BY <2>1 DEF QueueInv, LaneInv, LaneAccounting, ActiveFinite
    <2>3. taskGeneration'[se] = generation'[l]
      <3>1. phase'[se] = "running" /\ phase[se] # "running"
        BY <1>1
      <3>2. LifecycleStep(T, U)
        BY DEF StepOK
      <3> QED
        BY <2>1, <3>1, <3>2 DEF LifecycleStep
    <2>4. SUFFICES ASSUME taskGeneration'[sv] = generation'[l] PROVE FALSE
      BY <2>3
    <2>5. se \in active'[l] /\ sv \in active'[l] /\ se \notin active[l]
      BY <1>1, <2>1, <2>2, <2>3, <2>4 DEF HoldsSlot
    <2>6. Cardinality(active'[l]) <= 1
      <3>1. maxConcurrent'[l] = 1
        BY <2>1 DEF SessionCapOne
      <3> QED
        BY <2>1, <2>5, <3>1 DEF StepOK, StartsWithinCap
    <2>7. IsFiniteSet({se}) /\ Cardinality({se}) = 1
      BY FS_Singleton
    <2>8. Cardinality({se} \cup {sv}) = 2
      <3>1. sv \notin {se}
        BY <2>1
      <3>2. Cardinality({se} \cup {sv}) = Cardinality({se}) + 1
        BY <2>7, <3>1, FS_AddElement
      <3> QED
        BY <2>7, <3>2
    <2>9. Cardinality({se} \cup {sv}) <= Cardinality(active'[l])
      <3>1. {se} \cup {sv} \in SUBSET active'[l]
        BY <2>5
      <3> QED
        BY <2>2, <3>1, FS_Subset
    <2>10. Cardinality(active'[l]) \in Nat
      BY <2>2, FS_CardinalityType
    <2> QED
      BY <2>6, <2>8, <2>9, <2>10
  <1>2. ASSUME NEW r \in Run, NEW v \in Run, r # v, SessionOf[r] = SessionOf[v],
               phase[sessionEntry[r]] = "running",
               phase[sessionEntry[v]] = "running"
        PROVE  taskGeneration'[sessionEntry[r]] # taskGeneration'[sessionEntry[v]]
    <2>1. sessionEntry[r] \in Task /\ sessionEntry[v] \in Task
      BY EntryAssumption
    <2>2. /\ taskGeneration'[sessionEntry[r]] = taskGeneration[sessionEntry[r]]
          /\ taskGeneration'[sessionEntry[v]] = taskGeneration[sessionEntry[v]]
      BY <1>2, <2>1 DEF StepOK, LifecycleStep
    <2> QED
      BY <1>2, <2>2 DEF OneHolder
  <1> QED
    <2> SUFFICES ASSUME NEW r \in Run, NEW v \in Run, r # v,
                        SessionOf[r] = SessionOf[v],
                        phase'[sessionEntry[r]] = "running",
                        phase'[sessionEntry[v]] = "running"
                 PROVE  taskGeneration'[sessionEntry[r]] # taskGeneration'[sessionEntry[v]]
      BY DEF OneHolder
    <2>1. CASE phase[sessionEntry[r]] # "running"
      BY <1>1, <2>1
    <2>2. CASE phase[sessionEntry[v]] # "running"
      BY <1>1, <2>2
    <2>3. CASE phase[sessionEntry[r]] = "running" /\ phase[sessionEntry[v]] = "running"
      BY <1>2, <2>3
    <2> QED
      BY <2>1, <2>2, <2>3

\* Both together, for an operation that leaves the caps of session lanes.
LEMMA OperationKeepsInv ==
  ASSUME AgentInv, SessionCapOne',
         NEW T, NEW U, KeepsNesting(T, U), QueueInv' /\ StepOK(T, U)
  PROVE  AgentInv'
  <1>1. NestedInSession'
    BY NestingKept DEF AgentInv, StepOK
  <1>2. OneHolder'
    BY OneHolderKept DEF AgentInv
  <1> QED
    BY <1>1, <1>2 DEF AgentInv

LEMMA EmptySetsNest == KeepsNesting({}, {})
  BY DEF KeepsNesting

\* Entries come and go without touching the caps.
LEMMA EnqueueKeepsCaps ==
  ASSUME NEW t \in Task, Enqueue(t)
  PROVE  maxConcurrent' = maxConcurrent
  BY DEF Enqueue, PumpFrom

LEMMA CompleteKeepsCaps ==
  ASSUME NEW t \in Task, NEW o \in Outcomes, Complete(t, o)
  PROVE  maxConcurrent' = maxConcurrent
  BY DEF Complete, PumpFrom

LEMMA AgentStepInv == AgentInv /\ [AgentNext]_queueVars => AgentInv'
  <1> SUFFICES ASSUME AgentInv, [AgentNext]_queueVars PROVE AgentInv'
    OBVIOUS
  <1>1. QueueInv /\ SessionCapOne
    BY DEF AgentInv
  <1>2. ASSUME NEW r \in Run, Submit(r)
        PROVE  AgentInv'
    <2>1. sessionEntry[r] \in Task /\ Enqueue(sessionEntry[r])
      BY <1>2, EntryAssumption DEF Submit
    <2>2. KeepsNesting({sessionEntry[r]}, {})
      BY EntryAssumption DEF KeepsNesting
    <2>3. SessionCapOne'
      BY <1>1, <2>1, EnqueueKeepsCaps DEF SessionCapOne
    <2> QED
      BY <1>1, <2>1, <2>2, <2>3, EnqueueInv, OperationKeepsInv
  <1>3. ASSUME NEW r \in Cron, SubmitCron(r)
        PROVE  AgentInv'
    <2>1. cronEntry[r] \in Task /\ Enqueue(cronEntry[r])
      BY <1>3, EntryAssumption DEF SubmitCron
    <2>2. KeepsNesting({cronEntry[r]}, {})
      BY EntryAssumption DEF KeepsNesting
    <2>3. SessionCapOne'
      BY <1>1, <2>1, EnqueueKeepsCaps DEF SessionCapOne
    <2> QED
      BY <1>1, <2>1, <2>2, <2>3, EnqueueInv, OperationKeepsInv
  <1>4. ASSUME NEW r \in Cron, CronBody(r)
        PROVE  AgentInv'
    <2>1. sessionEntry[r] \in Task /\ Enqueue(sessionEntry[r])
      BY <1>4, EntryAssumption, RunAssumption DEF CronBody
    <2>2. KeepsNesting({sessionEntry[r]}, {})
      BY RunAssumption, EntryAssumption DEF KeepsNesting
    <2>3. SessionCapOne'
      BY <1>1, <2>1, EnqueueKeepsCaps DEF SessionCapOne
    <2> QED
      BY <1>1, <2>1, <2>2, <2>3, EnqueueInv, OperationKeepsInv
  <1>5. ASSUME NEW r \in Run, EnterGlobalLane(r)
        PROVE  AgentInv'
    <2>1. globalEntry[r] \in Task /\ Enqueue(globalEntry[r])
      BY <1>5, EntryAssumption DEF EnterGlobalLane
    <2>2. KeepsNesting({globalEntry[r]}, {})
      BY <1>5, EntryAssumption DEF KeepsNesting, EnterGlobalLane, Entering
    <2>3. SessionCapOne'
      BY <1>1, <2>1, EnqueueKeepsCaps DEF SessionCapOne
    <2> QED
      BY <1>1, <2>1, <2>2, <2>3, EnqueueInv, OperationKeepsInv
  <1>6. ASSUME NEW r \in Run, NEW o \in Outcomes, EndTurn(r, o)
        PROVE  AgentInv'
    <2>1. globalEntry[r] \in Task /\ Complete(globalEntry[r], o)
      BY <1>6, EntryAssumption DEF EndTurn
    <2>2. KeepsNesting({}, {globalEntry[r]})
      BY EntryAssumption DEF KeepsNesting
    <2>3. SessionCapOne'
      BY <1>1, <2>1, CompleteKeepsCaps DEF SessionCapOne
    <2> QED
      BY <1>1, <2>1, <2>2, <2>3, CompleteInv, OperationKeepsInv
  <1>7. ASSUME NEW r \in Run, SessionReturns(r)
        PROVE  AgentInv'
    <2>1. PICK o \in Outcomes : Complete(sessionEntry[r], o)
      BY <1>7 DEF SessionReturns, Outcomes
    <2>2. sessionEntry[r] \in Task /\ phase[globalEntry[r]] \in Settled
      BY <1>7, EntryAssumption DEF SessionReturns
    <2>3. KeepsNesting({}, {sessionEntry[r]})
      BY <2>2, EntryAssumption DEF KeepsNesting
    <2>4. SessionCapOne'
      BY <1>1, <2>1, <2>2, CompleteKeepsCaps DEF SessionCapOne
    <2> QED
      BY <1>1, <2>1, <2>2, <2>3, <2>4, CompleteInv, OperationKeepsInv
  <1>8. ASSUME NEW r \in Cron, CronReturns(r) \/ CronReturnsEarly(r)
        PROVE  AgentInv'
    <2>1. cronEntry[r] \in Task /\ Complete(cronEntry[r], "resolved")
          /\ "resolved" \in Outcomes
      BY <1>8, EntryAssumption DEF CronReturns, CronReturnsEarly, Outcomes
    <2>2. KeepsNesting({}, {cronEntry[r]})
      BY EntryAssumption DEF KeepsNesting
    <2>3. SessionCapOne'
      BY <1>1, <2>1, CompleteKeepsCaps DEF SessionCapOne
    <2> QED
      BY <1>1, <2>1, <2>2, <2>3, CompleteInv, OperationKeepsInv
  <1>9. ASSUME NEW l \in {Main, CronLane, Subagent}, NEW n \in 0 .. MaxConcurrent,
               Configure(l, n)
        PROVE  AgentInv'
    <2>1. l \in Lane /\ SetConcurrency(l, n)
      BY <1>9, RunAssumption DEF Configure
    <2>2. SessionCapOne'
      <3>1. \A s \in Session : sessionLane[s] \in Lane /\ sessionLane[s] # l
        BY RunAssumption, EntryAssumption
      <3>2. maxConcurrent \in [Lane -> 1 .. MaxConcurrent]
        BY <1>1 DEF QueueInv, LaneInv
      <3>3. maxConcurrent' = [maxConcurrent EXCEPT ![l] = IF n < 1 THEN 1 ELSE n]
        BY <2>1 DEF SetConcurrency, PumpFrom
      <3> QED
        BY <1>1, <3>1, <3>2, <3>3 DEF SessionCapOne
    <2> QED
      BY <1>1, <2>1, <2>2, SetConcurrencyInv, EmptySetsNest, OperationKeepsInv
  <1>10. ASSUME NEW s \in Session, ClearSession(s)
         PROVE  AgentInv'
    <2>1. sessionLane[s] \in Lane /\ Clear(sessionLane[s])
      BY <1>10, RunAssumption DEF ClearSession
    <2>2. SessionCapOne'
      BY <1>1, <2>1 DEF SessionCapOne, Clear
    <2> QED
      BY <1>1, <2>1, <2>2, ClearInv, EmptySetsNest, OperationKeepsInv
  <1>11. CASE Reset
    <2>1. SessionCapOne'
      BY <1>1, <1>11 DEF SessionCapOne, Reset, PumpFrom
    <2> QED
      BY <1>1, <1>11, <2>1, ResetInv, EmptySetsNest, OperationKeepsInv
  <1>12. CASE MarkDraining \/ WaitStart \/ WaitPoll \/ UNCHANGED queueVars
    <2>1. SessionCapOne'
      BY <1>1, <1>12 DEF SessionCapOne, MarkDraining, WaitStart, WaitPoll,
                         queueVars, laneVars
    <2> QED
      BY <1>1, <1>12, <2>1, OthersInv, EmptySetsNest, OperationKeepsInv
  <1> QED
    BY <1>2, <1>3, <1>4, <1>5, <1>6, <1>7, <1>8, <1>9, <1>10, <1>11, <1>12
       DEF AgentNext, LaneStep, Restart

-----------------------------------------------------------------------------
(***************************************************************************)
(* The theorems.                                                            *)
(***************************************************************************)

\* The invariant holds in every reachable state.
THEOREM AgentInvariance == AgentSpec => []AgentInv
  BY AgentInitInv, AgentStepInv, PTL DEF AgentSpec

\* A turn executes only inside its session entry.
THEOREM AgentNesting == AgentSpec => []NestedInSession
  <1>1. AgentInv => NestedInSession
    BY DEF AgentInv
  <1> QED
    BY <1>1, AgentInvariance, PTL

\* Two runs of one session that execute together started in different
\* lifecycles of the gateway.
THEOREM AgentOneTurnPerLifecycle == AgentSpec => []OneTurnPerLifecycle
  <1>1. AgentInv => OneTurnPerLifecycle
    <2> SUFFICES ASSUME AgentInv, NEW r \in Run, NEW v \in Run, r # v,
                        SessionOf[r] = SessionOf[v], Executing(r), Executing(v)
                 PROVE  taskGeneration[sessionEntry[r]] # taskGeneration[sessionEntry[v]]
      BY DEF OneTurnPerLifecycle
    <2>1. phase[sessionEntry[r]] = "running" /\ phase[sessionEntry[v]] = "running"
      BY DEF AgentInv, NestedInSession, Executing
    <2> QED
      BY <2>1 DEF AgentInv, OneHolder
  <1> QED
    BY <1>1, AgentInvariance, PTL

\* Every action is one operation of the queue.
LEMMA AgentStepIsQueueStep == [AgentNext]_queueVars => [QueueNext]_queueVars
  <1>1. ASSUME AgentNext PROVE QueueNext
    BY <1>1, EntryAssumption, RunAssumption
       DEF AgentNext, LaneStep, Restart, QueueNext, Submit, SubmitCron, CronBody,
           EnterGlobalLane, EndTurn, SessionReturns, CronReturns, CronReturnsEarly, Configure,
           ClearSession, Outcomes
  <1> QED
    BY <1>1

\* The composition never uses the queue but through its operations, so
\* everything proved of the queue holds of the agent lanes.
THEOREM AgentUsesTheQueue == AgentSpec => UsesTheQueue
  BY AgentStepIsQueueStep, PTL DEF AgentSpec, UsesTheQueue, QueueSpec

-----------------------------------------------------------------------------
(***************************************************************************)
(* A gateway that is not restarted: every entry starts in generation 0, so  *)
(* two turns of a session never execute together.                           *)
(***************************************************************************)
NeverReset == \A l \in Lane : generation[l] = 0

LEMMA LaneStepKeepsGeneration ==
  ASSUME [LaneStep]_queueVars
  PROVE  generation' = generation
  BY DEF LaneStep, Submit, SubmitCron, CronBody, EnterGlobalLane, EndTurn,
         SessionReturns, CronReturns, CronReturnsEarly, Configure, ClearSession, Enqueue, Complete,
         SetConcurrency, Clear, PumpFrom, queueVars, laneVars

LEMMA LaneStepKeepsFirst ==
  AgentInv /\ NeverReset /\ [LaneStep]_queueVars => AgentInv' /\ NeverReset'
  <1> SUFFICES ASSUME AgentInv, NeverReset, [LaneStep]_queueVars
               PROVE  AgentInv' /\ NeverReset'
    OBVIOUS
  <1>1. AgentInv'
    BY AgentStepInv DEF AgentNext
  <1>2. NeverReset'
    BY LaneStepKeepsGeneration DEF NeverReset
  <1> QED
    BY <1>1, <1>2

\* One active run per session, for any sessions, runs and caps.
THEOREM UninterruptedExclusion == UninterruptedSpec => []SessionExclusion
  <1>1. QueueInit => AgentInv /\ NeverReset
    BY AgentInitInv DEF QueueInit, NeverReset
  <1>2. AgentInv /\ NeverReset /\ [LaneStep]_queueVars => AgentInv' /\ NeverReset'
    BY LaneStepKeepsFirst
  <1>3. AgentInv /\ NeverReset => SessionExclusion
    <2> SUFFICES ASSUME AgentInv, NeverReset, NEW r \in Run, NEW v \in Run, r # v,
                        SessionOf[r] = SessionOf[v], Executing(r), Executing(v)
                 PROVE  FALSE
      BY DEF SessionExclusion
    <2>1. phase[sessionEntry[r]] = "running" /\ phase[sessionEntry[v]] = "running"
      BY DEF AgentInv, NestedInSession, Executing
    <2>2. \A t \in Task : taskGeneration[t] = 0
      <3> TAKE t \in Task
      <3>1. LaneOf[t] \in Lane
        BY LaneOfAssumption
      <3>2. taskGeneration[t] \in Nat /\ taskGeneration[t] <= generation[LaneOf[t]]
        BY BoundAssumption DEF AgentInv, QueueInv, LaneInv, StartedInThePast
      <3> QED
        BY <3>1, <3>2 DEF NeverReset
    <2>3. sessionEntry[r] \in Task /\ sessionEntry[v] \in Task
      BY EntryAssumption
    <2> QED
      BY <2>1, <2>2, <2>3 DEF AgentInv, OneHolder
  <1> QED
    BY <1>1, <1>2, <1>3, PTL DEF UninterruptedSpec

-----------------------------------------------------------------------------
(***************************************************************************)
(* The lanes implement the line of each session (SessionTurns).             *)
(*                                                                          *)
(* A session lane that is not restarted has nobody in it, or one entry that *)
(* runs and the ones that wait behind it: that is its line.  So what the    *)
(* pump starts in a free lane is the head of the queue, and the line only   *)
(* changes by an entry that joins its end, the head that leaves, or a clear *)
(* that leaves the head alone.                                              *)
(***************************************************************************)
RunsOf(q) == [i \in 1 .. Len(q) |-> RunOfEntry(q[i])]

LineFrom(a, q) ==
    (IF a = {} THEN <<>> ELSE <<RunOfEntry(CHOOSE t \in a : TRUE)>>) \o RunsOf(q)

Served == {RunOfEntry(t) : t \in Task}

LEMMA LineIsLineFrom ==
  \A s \in Session : LineOf(s) = LineFrom(active[sessionLane[s]], queue[sessionLane[s]])
  BY DEF LineOf, LineFrom, RunsOf

LEMMA RunsOfEntries ==
  ASSUME NEW q \in Seq(Task)
  PROVE  /\ RunsOf(q) \in Seq(Served)
         /\ Len(RunsOf(q)) = Len(q)
         /\ \A i \in 1 .. Len(q) : RunsOf(q)[i] = RunOfEntry(q[i])
  <1>1. Len(q) \in Nat /\ \A i \in 1 .. Len(q) : q[i] \in Task
    OBVIOUS
  <1>2. \A i \in 1 .. Len(q) : RunOfEntry(q[i]) \in Served
    BY <1>1 DEF Served
  <1>3. RunsOf(q) \in [1 .. Len(q) -> Served]
    BY <1>2 DEF RunsOf
  <1> QED
    BY <1>1, <1>3 DEF RunsOf

LEMMA HeadConcat ==
  ASSUME NEW S, NEW x \in S, NEW b \in Seq(S)
  PROVE  /\ <<x>> \o b \in Seq(S)
         /\ Len(<<x>> \o b) = Len(b) + 1
         /\ (<<x>> \o b)[1] = x
         /\ \A i \in 1 .. Len(b) : (<<x>> \o b)[i + 1] = b[i]
  OBVIOUS

LEMMA HeldLine ==
  ASSUME NEW t \in Task, NEW q \in Seq(Task)
  PROVE  /\ LineFrom({t}, q) \in Seq(Served)
         /\ Len(LineFrom({t}, q)) = Len(q) + 1
         /\ LineFrom({t}, q)[1] = RunOfEntry(t)
         /\ \A i \in 1 .. Len(q) : LineFrom({t}, q)[i + 1] = RunOfEntry(q[i])
  <1> DEFINE x == RunOfEntry(t)
             b == RunsOf(q)
             n == <<x>> \o b
  <1>1. LineFrom({t}, q) = n
    BY DEF LineFrom
  <1>2. x \in Served
    BY DEF Served
  <1>3. /\ b \in Seq(Served) /\ Len(b) = Len(q)
        /\ \A i \in 1 .. Len(q) : b[i] = RunOfEntry(q[i])
    BY RunsOfEntries
  <1> HIDE DEF x, b
  <1>4. /\ n \in Seq(Served) /\ Len(n) = Len(b) + 1 /\ n[1] = x
        /\ \A i \in 1 .. Len(b) : n[i + 1] = b[i]
    BY <1>2, <1>3, HeadConcat
  <1> HIDE DEF n
  <1> QED
    BY <1>1, <1>3, <1>4 DEF x

LEMMA EmptyLine == LineFrom({}, <<>>) = <<>>
  <1>1. RunsOf(<<>>) = <<>>
    BY DEF RunsOf
  <1> QED
    BY <1>1 DEF LineFrom

\* An entry that waits is at the end of the line.
LEMMA LineGrows ==
  ASSUME NEW t \in Task, NEW q \in Seq(Task), NEW u \in Task
  PROVE  LineFrom({t}, Append(q, u)) = Append(LineFrom({t}, q), RunOfEntry(u))
  <1> DEFINE p  == Append(q, u)
             m  == LineFrom({t}, p)
             n  == LineFrom({t}, q)
             n2 == Append(n, RunOfEntry(u))
  <1>1. /\ p \in Seq(Task) /\ Len(p) = Len(q) + 1 /\ Len(q) \in Nat
        /\ \A i \in 1 .. Len(q) : p[i] = q[i]
        /\ p[Len(q) + 1] = u
    OBVIOUS
  <1>2. /\ n \in Seq(Served) /\ Len(n) = Len(q) + 1 /\ n[1] = RunOfEntry(t)
        /\ \A i \in 1 .. Len(q) : n[i + 1] = RunOfEntry(q[i])
    BY HeldLine
  <1>3. /\ m \in Seq(Served) /\ Len(m) = Len(p) + 1 /\ m[1] = RunOfEntry(t)
        /\ \A i \in 1 .. Len(p) : m[i + 1] = RunOfEntry(p[i])
    BY <1>1, HeldLine
  <1>4. RunOfEntry(u) \in Served
    BY DEF Served
  <1> HIDE DEF p, m, n
  <1>5. /\ n2 \in Seq(Served) /\ Len(n2) = Len(q) + 2
        /\ \A i \in 1 .. Len(q) + 1 : n2[i] = n[i]
        /\ n2[Len(q) + 2] = RunOfEntry(u)
    BY <1>1, <1>2, <1>4, AppendProperties
  <1> HIDE DEF n2
  <1>6. ASSUME NEW i \in 1 .. Len(m) PROVE m[i] = n2[i]
    <2>1. CASE i = 1
      BY <1>1, <1>2, <1>3, <1>5, <2>1
    <2>2. CASE i = Len(q) + 2
      <3>1. Len(q) + 1 \in 1 .. Len(p) /\ (Len(q) + 1) + 1 = i
        BY <1>1, <2>2
      <3> QED
        BY <1>1, <1>3, <1>5, <2>2, <3>1
    <2>3. CASE i # 1 /\ i # Len(q) + 2
      <3> DEFINE k == i - 1
      <3>1. /\ k \in 1 .. Len(q) /\ k \in 1 .. Len(p) /\ k + 1 = i
            /\ i \in 1 .. Len(q) + 1
        BY <1>1, <1>3, <2>3
      <3> HIDE DEF k
      <3>2. m[i] = RunOfEntry(p[k]) /\ p[k] = q[k]
        BY <1>1, <1>3, <3>1
      <3>3. n2[i] = n[i] /\ n[i] = RunOfEntry(q[k])
        BY <1>2, <1>5, <3>1
      <3> QED
        BY <3>2, <3>3
    <2> QED
      BY <2>1, <2>2, <2>3
  <1>7. m = n2
    BY <1>1, <1>3, <1>5, <1>6, SeqEqual
  <1> QED
    BY <1>7 DEF p, m, n, n2

\* When the head leaves, the entry behind it is the next one.
LEMMA LineMovesUp ==
  ASSUME NEW t \in Task, NEW q \in Seq(Task)
  PROVE  Tail(LineFrom({t}, q)) =
            IF q = <<>> THEN <<>> ELSE LineFrom({q[1]}, SubSeq(q, 2, Len(q)))
  <1> DEFINE n == LineFrom({t}, q)
  <1>1. /\ n \in Seq(Served) /\ Len(n) = Len(q) + 1 /\ n[1] = RunOfEntry(t)
        /\ \A i \in 1 .. Len(q) : n[i + 1] = RunOfEntry(q[i])
    BY HeldLine
  <1>2. Len(q) \in Nat
    OBVIOUS
  <1> HIDE DEF n
  <1>3. n # <<>>
    BY <1>1, <1>2
  <1>4. /\ Tail(n) \in Seq(Served) /\ Len(Tail(n)) = Len(q)
        /\ \A i \in 1 .. Len(q) : Tail(n)[i] = n[i + 1]
    BY <1>1, <1>2, <1>3, HeadTailProperties
  <1>5. CASE q = <<>>
    <2>1. Len(Tail(n)) = 0
      BY <1>4, <1>5
    <2>2. Tail(n) = <<>>
      BY <1>4, <2>1, EmptySeq
    <2> QED
      BY <1>5, <2>2 DEF n
  <1>6. CASE q # <<>>
    <2> DEFINE r == SubSeq(q, 2, Len(q))
               m == LineFrom({q[1]}, r)
    <2>1. q[1] \in Task /\ Len(q) > 0
      BY <1>6
    <2>2. /\ r \in Seq(Task) /\ Len(r) = Len(q) - 1
          /\ \A i \in 1 .. Len(q) - 1 : r[i] = q[i + 1]
      BY <1>6, HeadTailProperties, TailIsSubSeq
    <2>3. /\ m \in Seq(Served) /\ Len(m) = Len(r) + 1 /\ m[1] = RunOfEntry(q[1])
          /\ \A i \in 1 .. Len(r) : m[i + 1] = RunOfEntry(r[i])
      BY <2>1, <2>2, HeldLine
    <2> HIDE DEF r, m
    <2>4. ASSUME NEW i \in 1 .. Len(m) PROVE m[i] = Tail(n)[i]
      <3>1. i \in 1 .. Len(q) /\ Tail(n)[i] = RunOfEntry(q[i])
        BY <1>1, <1>2, <1>4, <2>2, <2>3
      <3>2. CASE i = 1
        BY <2>3, <3>1, <3>2
      <3>3. CASE i # 1
        <4>1. i - 1 \in 1 .. Len(r) /\ (i - 1) + 1 = i
          BY <1>2, <2>2, <3>1, <3>3
        <4> QED
          BY <2>2, <2>3, <3>1, <4>1
      <3> QED
        BY <3>2, <3>3
    <2>5. m = Tail(n)
      BY <1>2, <1>4, <2>2, <2>3, <2>4, SeqEqual
    <2> QED
      BY <1>6, <2>5 DEF r, m, n
  <1> QED
    BY <1>5, <1>6

\* What a clear leaves.
LEMMA LineKeepsHead ==
  ASSUME NEW t \in Task, NEW q \in Seq(Task)
  PROVE  SubSeq(LineFrom({t}, q), 1, 1) = LineFrom({t}, <<>>)
  <1> DEFINE n == LineFrom({t}, q)
             m == LineFrom({t}, <<>>)
             k == SubSeq(n, 1, 1)
  <1>1. n \in Seq(Served) /\ Len(n) = Len(q) + 1 /\ n[1] = RunOfEntry(t)
    BY HeldLine
  <1>2. m \in Seq(Served) /\ Len(m) = 1 /\ m[1] = RunOfEntry(t)
    <2> DEFINE e == <<>>
    <2>1. e \in Seq(Task) /\ Len(e) = 0
      OBVIOUS
    <2> HIDE DEF e
    <2>2. /\ LineFrom({t}, e) \in Seq(Served) /\ Len(LineFrom({t}, e)) = Len(e) + 1
          /\ LineFrom({t}, e)[1] = RunOfEntry(t)
      BY <2>1, HeldLine
    <2> QED
      BY <2>1, <2>2 DEF e
  <1> HIDE DEF n, m
  <1>3. k \in Seq(Served) /\ Len(k) = 1 /\ k[1] = n[1]
    <2>1. Len(n) >= 1 /\ \A i \in 1 .. 1 : n[i] \in Served
      BY <1>1
    <2> QED
      BY <2>1, SubSeqProperties
  <1>4. k = m
    BY <1>1, <1>2, <1>3, SeqEqual
  <1> QED
    BY <1>4 DEF n, m

-----------------------------------------------------------------------------
\* The state of SessionTurns that a state of the lanes stands for.
SessionLine == [s \in Session |-> LineOf(s)]
TurnNow == {r \in Run : Executing(r)}
TurnOver == {r \in Run : phase[globalEntry[r]] \in Outcomes}
AtHead == {r \in Run : \E s \in Session : SessionLine[s] # <<>> /\ r = SessionLine[s][1]}

LEMMA ArriveMaps ==
  ASSUME NEW r \in Run, UNCHANGED <<TurnNow, TurnOver>>,
         SessionLine' = [SessionLine EXCEPT ![SessionOf[r]] = Append(@, r)]
  PROVE  Turns!Arrive(r)
  BY DEF Turns!Arrive, SessionLine, TurnNow, TurnOver

LEMMA TurnsMaps ==
  ASSUME UNCHANGED SessionLine,
         TurnNow' \in SUBSET ((AtHead \ TurnOver) \cup TurnNow),
         TurnOver' = TurnOver \cup (TurnNow \ TurnNow')
  PROVE  Turns!Turns
  <1>1. AtHead \subseteq Turns!Heads
    BY DEF AtHead, Turns!Heads, SessionLine
  <1> QED
    BY <1>1 DEF Turns!Turns, SessionLine, TurnNow, TurnOver

LEMMA LeaveMaps ==
  ASSUME NEW s \in Session, UNCHANGED <<TurnNow, TurnOver>>,
         SessionLine[s] # <<>>, SessionLine[s][1] \notin TurnNow,
         SessionLine' = [SessionLine EXCEPT ![s] = Tail(@)]
  PROVE  Turns!Leave(s)
  BY DEF Turns!Leave, SessionLine, TurnNow, TurnOver

LEMMA CancelMaps ==
  ASSUME NEW s \in Session, UNCHANGED <<TurnNow, TurnOver>>,
         SessionLine[s] # <<>>,
         SessionLine' = [SessionLine EXCEPT ![s] = SubSeq(@, 1, 1)]
  PROVE  Turns!Cancel(s)
  BY DEF Turns!Cancel, SessionLine, TurnNow, TurnOver

LEMMA StutterMaps ==
  ASSUME UNCHANGED <<SessionLine, TurnNow, TurnOver>>
  PROVE  UNCHANGED Turns!vars
  BY DEF Turns!vars, SessionLine, TurnNow, TurnOver

-----------------------------------------------------------------------------
\* Only the entries of a session's runs are in its lane.
LEMMA EntryOfRun == \A r \in Run : RunOfEntry(sessionEntry[r]) = r
  BY EntryAssumption DEF RunOfEntry

LEMMA EntriesElsewhere ==
  /\ \A r \in Run, s \in Session : LaneOf[globalEntry[r]] # sessionLane[s]
  /\ \A r \in Cron, s \in Session : LaneOf[cronEntry[r]] # sessionLane[s]
  BY EntryAssumption, EntryLanes, RunAssumption DEF ResolveGlobalLane

LEMMA InSession ==
  ASSUME NEW s \in Session, NEW t \in Task, LaneOf[t] = sessionLane[s]
  PROVE  \E r \in Run : t = sessionEntry[r] /\ SessionOf[r] = s
  <1>1. PICK r \in Run : t = sessionEntry[r]
    BY EntryLanes, EntriesElsewhere
  <1>2. SessionOf[r] \in Session /\ sessionLane[SessionOf[r]] = sessionLane[s]
    BY <1>1, RunAssumption, EntryLanes
  <1> QED
    BY <1>1, <1>2, EntryAssumption

LEMMA FirstGeneration ==
  ASSUME AgentInv, NeverReset, NEW t \in Task
  PROVE  taskGeneration[t] = 0 /\ generation[LaneOf[t]] = 0
  <1>1. LaneOf[t] \in Lane
    BY LaneOfAssumption
  <1>2. taskGeneration[t] \in Nat /\ taskGeneration[t] <= generation[LaneOf[t]]
    BY BoundAssumption DEF AgentInv, QueueInv, LaneInv, StartedInThePast
  <1> QED
    BY <1>1, <1>2 DEF NeverReset

\* A session lane is empty, or one entry runs in it.
LEMMA SessionLaneState ==
  ASSUME AgentInv, NeverReset, NEW s \in Session
  PROVE  /\ sessionLane[s] \in Lane
         /\ queue[sessionLane[s]] \in Seq(Task)
         /\ active[sessionLane[s]] =
                {t \in Task : LaneOf[t] = sessionLane[s] /\ phase[t] = "running"}
         /\ Entries(queue[sessionLane[s]]) =
                {t \in Task : LaneOf[t] = sessionLane[s] /\ phase[t] = "queued"}
         /\ \/ active[sessionLane[s]] = {} /\ queue[sessionLane[s]] = <<>>
            \/ \E r \in Run : SessionOf[r] = s /\ active[sessionLane[s]] = {sessionEntry[r]}
  <1> DEFINE l == sessionLane[s]
  <1>1. l \in Lane
    BY RunAssumption
  <1>2. /\ queue[l] \in Seq(Task)
        /\ active[l] = {t \in Task : LaneOf[t] = l /\ HoldsSlot(t)}
        /\ Entries(queue[l]) = {t \in Task : LaneOf[t] = l /\ phase[t] = "queued"}
        /\ maxConcurrent[l] = 1
        /\ queue[l] # <<>> => Cardinality(active[l]) >= maxConcurrent[l]
    BY <1>1 DEF AgentInv, QueueInv, LaneInv, LaneAccounting, SessionCapOne, NoIdleSlot
  <1>3. active[l] = {t \in Task : LaneOf[t] = l /\ phase[t] = "running"}
    BY <1>2, FirstGeneration DEF HoldsSlot
  <1>4. CASE active[l] = {}
    <2>1. Cardinality(active[l]) = 0
      BY <1>4, FS_EmptySet
    <2> QED
      BY <1>1, <1>2, <1>3, <1>4, <2>1
  <1>5. CASE active[l] # {}
    <2>1. PICK t \in Task : t \in active[l] /\ LaneOf[t] = l /\ phase[t] = "running"
      BY <1>3, <1>5
    <2>2. PICK r \in Run : t = sessionEntry[r] /\ SessionOf[r] = s
      BY <2>1, InSession
    <2>3. ASSUME NEW u \in active[l] PROVE u = t
      <3>1. u \in Task /\ LaneOf[u] = l /\ phase[u] = "running"
        BY <1>3
      <3>2. PICK v \in Run : u = sessionEntry[v] /\ SessionOf[v] = s
        BY <3>1, InSession
      <3>3. taskGeneration[t] = 0 /\ taskGeneration[u] = 0
        BY <3>1, FirstGeneration
      <3> QED
        BY <2>1, <2>2, <3>1, <3>2, <3>3 DEF AgentInv, OneHolder
    <2> QED
      BY <1>1, <1>2, <1>3, <2>1, <2>2, <2>3
  <1> QED
    BY <1>4, <1>5

LEMMA SessionLaneHolder ==
  ASSUME AgentInv, NeverReset, NEW s \in Session, NEW t \in Task,
         LaneOf[t] = sessionLane[s], phase[t] = "running"
  PROVE  active[sessionLane[s]] = {t}
  <1>1. t \in active[sessionLane[s]]
    BY SessionLaneState
  <1>2. \E u : active[sessionLane[s]] = {u}
    BY <1>1, SessionLaneState
  <1> QED
    BY <1>1, <1>2

\* The line of a session whose lane is held.
LEMMA HeldSessionLine ==
  ASSUME AgentInv, NeverReset, NEW s \in Session, NEW r \in Run,
         active[sessionLane[s]] = {sessionEntry[r]}
  PROVE  /\ LineOf(s) = LineFrom({sessionEntry[r]}, queue[sessionLane[s]])
         /\ LineOf(s) # <<>>
         /\ LineOf(s)[1] = r
  <1>1. sessionEntry[r] \in Task /\ queue[sessionLane[s]] \in Seq(Task)
    BY EntryAssumption, SessionLaneState
  <1> DEFINE n == LineFrom({sessionEntry[r]}, queue[sessionLane[s]])
  <1>2. LineOf(s) = n
    BY LineIsLineFrom
  <1>3. n \in Seq(Served) /\ Len(n) = Len(queue[sessionLane[s]]) + 1 /\ n[1] = r
    BY <1>1, HeldLine, EntryOfRun
  <1> HIDE DEF n
  <1>4. n # <<>>
    <2>1. Len(queue[sessionLane[s]]) \in Nat
      BY <1>1
    <2> QED
      BY <1>3, <2>1
  <1> QED
    BY <1>2, <1>3, <1>4 DEF n

LEMMA FreeSessionLine ==
  ASSUME NEW s \in Session, active[sessionLane[s]] = {}, queue[sessionLane[s]] = <<>>
  PROVE  LineOf(s) = <<>>
  BY LineIsLineFrom, EmptyLine

-----------------------------------------------------------------------------
\* What the pump of lane k leaves alone.
LeavesOthers(k, q, a, ph) ==
    /\ \A l \in Lane : l # k => queue'[l] = q[l] /\ active'[l] = a[l]
    /\ \A t \in Task : LaneOf[t] # k => phase'[t] = ph[t]

LEMMA PumpElsewhere ==
  ASSUME NEW k \in Lane, NEW q \in [Lane -> Seq(Task)], NEW a \in [Lane -> SUBSET Task],
         NEW m \in [Lane -> Nat], NEW g, NEW ph \in [Task -> Phases],
         \A l \in Lane : IsFiniteSet(a[l]), PumpFrom({k}, q, a, m, g, ph),
         \A t \in Entries(q[k]) : LaneOf[t] = k
  PROVE  LeavesOthers(k, q, a, ph)
  <1>1. Started(q[k], a[k], m[k]) \subseteq Entries(q[k])
    <2>1. q[k] \in Seq(Task) /\ m[k] \in Nat /\ IsFiniteSet(a[k])
      OBVIOUS
    <2>2. Slots(q[k], a[k], m[k]) \in 0 .. Len(q[k])
      BY <2>1, SlotsBounds
    <2> QED
      BY <2>1, <2>2 DEF Started, Entries
  <1>2. UNION {Started(q[l], a[l], m[l]) : l \in {k}} = Started(q[k], a[k], m[k])
    OBVIOUS
  <1> QED
    BY <1>1, <1>2 DEF PumpFrom, LeavesOthers

\* A held lane of cap 1 starts nothing, a free one the head of its queue.
LEMMA PumpHeldLane ==
  ASSUME NEW q \in Seq(Task), NEW t
  PROVE  Started(q, {t}, 1) = {} /\ Remaining(q, {t}, 1) = q
  <1>1. Cardinality({t}) = 1
    BY FS_Singleton
  <1>2. Slots(q, {t}, 1) = 0
    BY <1>1 DEF Slots
  <1>3. SubSeq(q, 0 + 1, Len(q)) = q
    OBVIOUS
  <1>4. {q[i] : i \in 1 .. 0} = {}
    OBVIOUS
  <1> QED
    BY <1>2, <1>3, <1>4 DEF Started, Remaining

LEMMA PumpFreeLane ==
  ASSUME NEW q \in Seq(Task)
  PROVE  /\ q = <<>> => Started(q, {}, 1) = {} /\ Remaining(q, {}, 1) = <<>>
         /\ q # <<>> => /\ Started(q, {}, 1) = {q[1]}
                        /\ Remaining(q, {}, 1) = SubSeq(q, 2, Len(q))
  <1>1. Cardinality({}) = 0 /\ Len(q) \in Nat
    BY FS_EmptySet
  <1>2. Slots(q, {}, 1) = IF q = <<>> THEN 0 ELSE 1
    BY <1>1 DEF Slots
  <1>3. CASE q = <<>>
    <2>1. Slots(q, {}, 1) = 0 /\ Len(q) = 0 /\ SubSeq(q, 1, 0) = <<>>
      BY <1>2, <1>3
    <2> QED
      BY <1>3, <2>1 DEF Started, Remaining
  <1>4. CASE q # <<>>
    <2>1. Slots(q, {}, 1) = 1
      BY <1>2, <1>4
    <2>2. {q[i] : i \in 1 .. 1} = {q[1]}
      OBVIOUS
    <2> QED
      BY <1>4, <2>1, <2>2 DEF Started, Remaining
  <1> QED
    BY <1>3, <1>4

\* The facts about the lanes that every step below starts from.
LEMMA LaneFacts ==
  ASSUME AgentInv
  PROVE  /\ queue \in [Lane -> Seq(Task)] /\ active \in [Lane -> SUBSET Task]
         /\ maxConcurrent \in [Lane -> Nat] /\ phase \in [Task -> Phases]
         /\ \A l \in Lane : IsFiniteSet(active[l])
         /\ \A l \in Lane : \A t \in Entries(queue[l]) : t \in Task /\ LaneOf[t] = l
  BY BoundAssumption DEF AgentInv, QueueInv, LaneInv, LaneAccounting, ActiveFinite

\* What an entry that is queued, or that ends, does to the other lanes.
LEMMA EnqueueElsewhere ==
  ASSUME AgentInv, NEW t \in Task, Enqueue(t)
  PROVE  /\ \A l \in Lane : l # LaneOf[t] => queue'[l] = queue[l] /\ active'[l] = active[l]
         /\ \A u \in Task : LaneOf[u] # LaneOf[t] => phase'[u] = phase[u]
  <1> DEFINE k == LaneOf[t]
             q == [queue EXCEPT ![k] = Append(@, t)]
             ph == [phase EXCEPT ![t] = "queued"]
  <1>1. k \in Lane
    BY LaneOfAssumption
  <1>2. CASE gatewayDraining
    BY <1>1, <1>2, LaneFacts DEF Enqueue
  <1>3. CASE ~gatewayDraining
    <2>1. PumpFrom({k}, q, active, maxConcurrent, generation, ph)
      BY <1>3 DEF Enqueue
    <2>2. q \in [Lane -> Seq(Task)] /\ q[k] = Append(queue[k], t) /\ queue[k] \in Seq(Task)
      BY <1>1, LaneFacts
    <2>3. \A l \in Lane : l # k => q[l] = queue[l]
      BY <1>1, LaneFacts
    <2>4. ph \in [Task -> Phases] /\ \A u \in Task : LaneOf[u] # k => ph[u] = phase[u]
      BY LaneFacts DEF Phases
    <2>5. \A u \in Entries(q[k]) : LaneOf[u] = k
      <3>1. Entries(q[k]) \subseteq Entries(queue[k]) \cup {t}
        BY <2>2 DEF Entries
      <3> QED
        BY <1>1, <3>1, LaneFacts
    <2> HIDE DEF k, q, ph
    <2>6. LeavesOthers(k, q, active, ph)
      <3>1. /\ maxConcurrent \in [Lane -> Nat] /\ active \in [Lane -> SUBSET Task]
            /\ \A l \in Lane : IsFiniteSet(active[l])
        BY LaneFacts
      <3>2. q \in [Lane -> Seq(Task)]
        BY <2>2
      <3> QED
        BY <1>1, <2>1, <2>4, <2>5, <3>1, <3>2, PumpElsewhere
    <2> QED
      BY <2>3, <2>4, <2>6 DEF k, LeavesOthers
  <1> QED
    BY <1>2, <1>3

LEMMA CompleteElsewhere ==
  ASSUME AgentInv, NEW t \in Task, NEW o \in Outcomes, Complete(t, o)
  PROVE  /\ \A l \in Lane : l # LaneOf[t] => queue'[l] = queue[l] /\ active'[l] = active[l]
         /\ \A u \in Task : LaneOf[u] # LaneOf[t] => phase'[u] = phase[u]
  <1> DEFINE k == LaneOf[t]
             a == [active EXCEPT ![k] = @ \ {t}]
             ph == [phase EXCEPT ![t] = o]
  <1>1. k \in Lane
    BY LaneOfAssumption
  <1>2. ph \in [Task -> Phases] /\ \A u \in Task : LaneOf[u] # k => ph[u] = phase[u]
    BY LaneFacts DEF Phases, Settled
  <1>3. CASE taskGeneration[t] # generation[k]
    <2>1. queue' = queue /\ active' = active /\ phase' = ph
      BY <1>3 DEF Complete
    <2> QED
      BY <1>2, <2>1
  <1>4. CASE taskGeneration[t] = generation[k]
    <2>1. PumpFrom({k}, queue, a, maxConcurrent, generation, ph)
      BY <1>4 DEF Complete
    <2>2. a \in [Lane -> SUBSET Task] /\ \A l \in Lane : l # k => a[l] = active[l]
      BY <1>1, LaneFacts
    <2>3. \A l \in Lane : IsFiniteSet(a[l])
      <3> TAKE l \in Lane
      <3>1. a[l] \in SUBSET active[l] /\ IsFiniteSet(active[l])
        BY <1>1, LaneFacts
      <3> QED
        BY <3>1, FS_Subset
    <2>4. \A u \in Entries(queue[k]) : LaneOf[u] = k
      BY <1>1, LaneFacts
    <2> HIDE DEF k, a, ph
    <2>5. LeavesOthers(k, queue, a, ph)
      <3>1. maxConcurrent \in [Lane -> Nat] /\ queue \in [Lane -> Seq(Task)]
        BY LaneFacts
      <3> QED
        BY <1>1, <1>2, <2>1, <2>2, <2>3, <2>4, <3>1, PumpElsewhere
    <2> QED
      BY <1>2, <2>2, <2>5 DEF k, LeavesOthers
  <1> QED
    BY <1>3, <1>4

\* A line changes only with its lane.
LEMMA LineStill ==
  ASSUME NEW s \in Session,
         queue'[sessionLane[s]] = queue[sessionLane[s]],
         active'[sessionLane[s]] = active[sessionLane[s]]
  PROVE  LineOf(s)' = LineOf(s)
  BY DEF LineOf

\* The turns change only with the phases of global entries.
LEMMA TurnsStill ==
  ASSUME \A r \in Run : phase'[globalEntry[r]] = phase[globalEntry[r]]
  PROVE  UNCHANGED <<TurnNow, TurnOver>>
  BY DEF TurnNow, TurnOver, Executing

LEMMA LinesIn ==
  ASSUME NEW s \in Session,
         \A v \in Session : v # s =>
            /\ queue'[sessionLane[v]] = queue[sessionLane[v]]
            /\ active'[sessionLane[v]] = active[sessionLane[v]]
  PROVE  SessionLine' = [SessionLine EXCEPT
            ![s] = LineFrom(active'[sessionLane[s]], queue'[sessionLane[s]])]
  <1>1. \A v \in Session : v # s => LineOf(v)' = LineOf(v)
    BY LineStill
  <1>2. LineOf(s)' = LineFrom(active'[sessionLane[s]], queue'[sessionLane[s]])
    BY DEF LineOf, LineFrom, RunsOf
  <1> QED
    BY <1>1, <1>2 DEF SessionLine

LEMMA OneInLine ==
  ASSUME NEW r \in Run
  PROVE  LineFrom({sessionEntry[r]}, <<>>) = <<r>>
  <1>1. RunsOf(<<>>) = <<>>
    BY DEF RunsOf
  <1>2. <<r>> \o <<>> = <<r>>
    OBVIOUS
  <1> QED
    BY <1>1, <1>2, EntryOfRun DEF LineFrom

\* A session entry that is queued joins the end of the line.
LEMMA SessionEntryArrives ==
  ASSUME AgentInv, NeverReset, NEW r \in Run, Enqueue(sessionEntry[r])
  PROVE  Turns!Arrive(r) \/ UNCHANGED Turns!vars
  <1> DEFINE t == sessionEntry[r]
             s == SessionOf[r]
             l == sessionLane[s]
  <1>1. t \in Task /\ LaneOf[t] = l /\ s \in Session /\ l \in Lane
    BY RunAssumption, EntryAssumption, EntryLanes
  <1>2. /\ \A k \in Lane : k # l => queue'[k] = queue[k] /\ active'[k] = active[k]
        /\ \A u \in Task : LaneOf[u] # l => phase'[u] = phase[u]
    BY <1>1, EnqueueElsewhere
  <1>3. UNCHANGED <<TurnNow, TurnOver>>
    BY <1>1, <1>2, EntryAssumption, EntriesElsewhere, TurnsStill
  <1>4. CASE gatewayDraining
    <2>1. queue' = queue /\ active' = active
      BY <1>4 DEF Enqueue
    <2>2. SessionLine' = SessionLine
      BY <2>1 DEF SessionLine, LineOf
    <2> QED
      BY <1>3, <2>2, StutterMaps
  <1>5. CASE ~gatewayDraining
    <2> DEFINE q == Append(queue[l], t)
    <2>1. /\ queue'[l] = Remaining(q, active[l], 1)
          /\ active'[l] = active[l] \cup Started(q, active[l], 1)
      <3> DEFINE qq == [queue EXCEPT ![l] = Append(@, t)]
                 ph == [phase EXCEPT ![t] = "queued"]
      <3>1. PumpFrom({l}, qq, active, maxConcurrent, generation, ph)
        BY <1>1, <1>5 DEF Enqueue
      <3>2. qq[l] = q /\ maxConcurrent[l] = 1
        BY <1>1, LaneFacts DEF AgentInv, SessionCapOne
      <3> HIDE DEF qq, ph, q
      <3> QED
        BY <1>1, <3>1, <3>2 DEF PumpFrom
    <2>2. SessionLine' = [SessionLine EXCEPT ![s] = LineFrom(active'[l], queue'[l])]
      <3>1. \A v \in Session : v # s => sessionLane[v] # l /\ sessionLane[v] \in Lane
        BY <1>1, EntryAssumption, RunAssumption
      <3> QED
        BY <1>1, <1>2, <3>1, LinesIn
    <2>3. LineFrom(active'[l], queue'[l]) = Append(LineOf(s), r)
      <3>1. CASE active[l] = {} /\ queue[l] = <<>>
        <4>1. q = <<t>> /\ q \in Seq(Task) /\ q # <<>> /\ q[1] = t /\ SubSeq(q, 2, Len(q)) = <<>>
          BY <1>1, <3>1
        <4> HIDE DEF q
        <4>2. Started(q, {}, 1) = {t} /\ Remaining(q, {}, 1) = <<>>
          BY <4>1, PumpFreeLane
        <4>3. active'[l] = {t} /\ queue'[l] = <<>>
          BY <2>1, <3>1, <4>2
        <4>4. LineOf(s) = <<>>
          BY <1>1, <3>1, FreeSessionLine
        <4>5. LineFrom({t}, <<>>) = <<r>>
          BY OneInLine
        <4> HIDE DEF t
        <4> QED
          BY <4>3, <4>4, <4>5
      <3>2. ASSUME NEW v \in Run, SessionOf[v] = s, active[l] = {sessionEntry[v]}
            PROVE  LineFrom(active'[l], queue'[l]) = Append(LineOf(s), r)
        <4> DEFINE h == sessionEntry[v]
        <4>1. q \in Seq(Task) /\ queue[l] \in Seq(Task) /\ h \in Task
          BY <1>1, LaneFacts, EntryAssumption
        <4> HIDE DEF q
        <4>2. active'[l] = {h} /\ queue'[l] = q
          BY <2>1, <3>2, <4>1, PumpHeldLane
        <4>3. LineOf(s) = LineFrom({h}, queue[l])
          BY <1>1, <3>2, HeldSessionLine
        <4>4. LineFrom({h}, q) = Append(LineFrom({h}, queue[l]), r)
          <5> DEFINE w == queue[l]
          <5>1. w \in Seq(Task) /\ q = Append(w, t) /\ RunOfEntry(t) = r
            BY <4>1, EntryOfRun DEF q
          <5> HIDE DEF h, w, t
          <5> QED
            BY <1>1, <4>1, <5>1, LineGrows DEF w
        <4> HIDE DEF h
        <4> QED
          BY <4>2, <4>3, <4>4
      <3> QED
        BY <1>1, <3>1, <3>2, SessionLaneState
    <2>4. SessionLine' = [SessionLine EXCEPT ![s] = Append(@, r)]
      BY <1>1, <2>2, <2>3 DEF SessionLine
    <2> QED
      BY <1>3, <2>4, ArriveMaps
  <1> QED
    BY <1>4, <1>5

\* A session entry that ends was at the head, and the next one starts.
LEMMA SessionEntryLeaves ==
  ASSUME AgentInv, NeverReset, NEW r \in Run, NEW o \in Outcomes,
         phase[globalEntry[r]] \in Settled, Complete(sessionEntry[r], o)
  PROVE  Turns!Leave(SessionOf[r])
  <1> DEFINE t == sessionEntry[r]
             s == SessionOf[r]
             l == sessionLane[s]
  <1>1. t \in Task /\ LaneOf[t] = l /\ s \in Session /\ l \in Lane
    BY RunAssumption, EntryAssumption, EntryLanes
  <1>2. /\ \A k \in Lane : k # l => queue'[k] = queue[k] /\ active'[k] = active[k]
        /\ \A u \in Task : LaneOf[u] # l => phase'[u] = phase[u]
    BY <1>1, CompleteElsewhere
  <1>3. UNCHANGED <<TurnNow, TurnOver>>
    BY <1>1, <1>2, EntryAssumption, EntriesElsewhere, TurnsStill
  <1>4. active[l] = {t}
    <2>1. phase[t] = "running"
      BY DEF Complete
    <2> QED
      BY <1>1, <2>1, SessionLaneHolder
  <1>5. /\ queue'[l] = Remaining(queue[l], {}, 1)
        /\ active'[l] = Started(queue[l], {}, 1)
    <2> DEFINE a == [active EXCEPT ![l] = @ \ {t}]
               ph == [phase EXCEPT ![t] = o]
    <2>1. taskGeneration[t] = generation[LaneOf[t]]
      BY <1>1, FirstGeneration
    <2>2. PumpFrom({l}, queue, a, maxConcurrent, generation, ph)
      BY <1>1, <2>1 DEF Complete
    <2>3. a[l] = {} /\ maxConcurrent[l] = 1
      BY <1>1, <1>4, LaneFacts DEF AgentInv, SessionCapOne
    <2> HIDE DEF a, ph
    <2> QED
      BY <1>1, <2>2, <2>3 DEF PumpFrom
  <1>6. SessionLine' = [SessionLine EXCEPT ![s] = LineFrom(active'[l], queue'[l])]
    <2>1. \A v \in Session : v # s => sessionLane[v] # l /\ sessionLane[v] \in Lane
      BY <1>1, EntryAssumption, RunAssumption
    <2> QED
      BY <1>1, <1>2, <2>1, LinesIn
  <1>7. /\ LineOf(s) = LineFrom({t}, queue[l]) /\ LineOf(s) # <<>>
        /\ LineOf(s)[1] = r /\ queue[l] \in Seq(Task)
    BY <1>1, <1>4, HeldSessionLine, LaneFacts
  <1>8. LineFrom(active'[l], queue'[l]) = Tail(LineOf(s))
    <2> DEFINE q == queue[l]
               a2 == active'[l]
               q2 == queue'[l]
    <2>1. q \in Seq(Task) /\ q2 = Remaining(q, {}, 1) /\ a2 = Started(q, {}, 1)
      BY <1>5, <1>7
    <2>2. Tail(LineOf(s)) =
             IF q = <<>> THEN <<>> ELSE LineFrom({q[1]}, SubSeq(q, 2, Len(q)))
      <3>1. t \in Task /\ LineOf(s) = LineFrom({t}, q)
        BY <1>1, <1>7
      <3> HIDE DEF q, t
      <3> QED
        BY <2>1, <3>1, LineMovesUp
    <2> HIDE DEF q, a2, q2
    <2>3. CASE q = <<>>
      BY <2>1, <2>2, <2>3, PumpFreeLane, EmptyLine DEF a2, q2
    <2>4. CASE q # <<>>
      BY <2>1, <2>2, <2>4, PumpFreeLane DEF a2, q2
    <2> QED
      BY <2>3, <2>4
  <1>9. SessionLine' = [SessionLine EXCEPT ![s] = Tail(@)]
    BY <1>1, <1>6, <1>8 DEF SessionLine
  <1>10. SessionLine[s] # <<>> /\ SessionLine[s][1] \notin TurnNow
    <2>1. r \notin TurnNow
      BY DEF TurnNow, Executing, Settled, Outcomes
    <2> QED
      BY <1>1, <1>7, <2>1 DEF SessionLine
  <1> QED
    BY <1>1, <1>3, <1>9, <1>10, LeaveMaps

\* A cleared session lane keeps the entry that runs.
LEMMA SessionCleared ==
  ASSUME AgentInv, NeverReset, NEW s \in Session, Clear(sessionLane[s])
  PROVE  Turns!Cancel(s) \/ UNCHANGED Turns!vars
  <1> DEFINE l == sessionLane[s]
  <1>1. /\ queue' = [queue EXCEPT ![l] = <<>>] /\ active' = active
        /\ phase' = [t \in Task |-> IF t \in Entries(queue[l]) THEN "cleared" ELSE phase[t]]
    BY DEF Clear
  <1>2. l \in Lane
    BY RunAssumption
  <1>3. UNCHANGED <<TurnNow, TurnOver>>
    <2>1. \A r \in Run : globalEntry[r] \in Task /\ LaneOf[globalEntry[r]] # l
      BY EntryAssumption, EntriesElsewhere
    <2>2. \A t \in Entries(queue[l]) : LaneOf[t] = l
      BY <1>2, LaneFacts
    <2>3. \A r \in Run : phase'[globalEntry[r]] = phase[globalEntry[r]]
      BY <1>1, <2>1, <2>2
    <2> QED
      BY <2>3, TurnsStill
  <1>4. queue'[l] = <<>> /\ active'[l] = active[l]
    BY <1>1, <1>2, LaneFacts
  <1>5. SessionLine' = [SessionLine EXCEPT ![s] = LineFrom(active'[l], queue'[l])]
    <2>1. \A v \in Session : v # s => sessionLane[v] # l /\ sessionLane[v] \in Lane
      BY EntryAssumption, RunAssumption
    <2>2. \A k \in Lane : k # l => queue'[k] = queue[k]
      BY <1>1, <1>2, LaneFacts
    <2> QED
      BY <1>1, <2>1, <2>2, LinesIn
  <1>6. CASE active[l] = {} /\ queue[l] = <<>>
    <2>1. LineOf(s) = <<>> /\ LineFrom(active'[l], queue'[l]) = <<>>
      BY <1>4, <1>6, FreeSessionLine, EmptyLine
    <2>2. SessionLine' = SessionLine
      BY <1>5, <2>1 DEF SessionLine
    <2> QED
      BY <1>3, <2>2, StutterMaps
  <1>7. ASSUME NEW r \in Run, active[l] = {sessionEntry[r]}
        PROVE  Turns!Cancel(s)
    <2> DEFINE h == sessionEntry[r]
    <2>1. LineOf(s) = LineFrom({h}, queue[l]) /\ LineOf(s) # <<>>
      BY <1>7, HeldSessionLine
    <2>2. h \in Task /\ queue[l] \in Seq(Task)
      BY <1>2, EntryAssumption, LaneFacts
    <2> HIDE DEF h
    <2>3. LineFrom(active'[l], queue'[l]) = SubSeq(LineOf(s), 1, 1)
      BY <1>4, <1>7, <2>1, <2>2, LineKeepsHead DEF h
    <2>4. SessionLine' = [SessionLine EXCEPT ![s] = SubSeq(@, 1, 1)] /\ SessionLine[s] # <<>>
      BY <1>5, <2>1, <2>3 DEF SessionLine
    <2> QED
      BY <1>3, <2>4, CancelMaps
  <1> QED
    BY <1>6, <1>7, SessionLaneState

-----------------------------------------------------------------------------
\* Only an entry that runs gets an outcome.
LEMMA OutcomesOfRunning ==
  ASSUME AgentInv, [QueueNext]_queueVars, NEW t \in Task, phase'[t] \in Outcomes
  PROVE  phase[t] \in Outcomes \cup {"running"}
  <1>1. phase \in [Task -> Phases]
    BY LaneFacts
  <1>2. ASSUME NEW L, NEW q, NEW a, NEW m, NEW g, NEW ph, PumpFrom(L, q, a, m, g, ph)
        PROVE  phase'[t] = ph[t]
    BY <1>2 DEF PumpFrom, Outcomes
  <1>3. ASSUME NEW x \in Task, Enqueue(x) PROVE phase[t] \in Outcomes
    <2>1. CASE gatewayDraining
      BY <1>1, <1>3, <2>1 DEF Enqueue, Outcomes
    <2>2. CASE ~gatewayDraining
      <3> DEFINE ph == [phase EXCEPT ![x] = "queued"]
      <3>1. PumpFrom({LaneOf[x]}, [queue EXCEPT ![LaneOf[x]] = Append(@, x)],
                     active, maxConcurrent, generation, ph)
        BY <1>3, <2>2 DEF Enqueue
      <3> HIDE DEF ph
      <3>2. phase'[t] = ph[t]
        BY <1>2, <3>1
      <3> QED
        BY <1>1, <3>2 DEF ph, Outcomes
    <2> QED
      BY <2>1, <2>2
  <1>4. ASSUME NEW x \in Task, NEW o \in Outcomes, Complete(x, o)
        PROVE  phase[t] \in Outcomes \cup {"running"}
    <2> DEFINE ph == [phase EXCEPT ![x] = o]
    <2>1. phase[x] = "running"
          /\ (phase' = ph \/ PumpFrom({LaneOf[x]}, queue, [active EXCEPT ![LaneOf[x]] = @ \ {x}],
                                      maxConcurrent, generation, ph))
      BY <1>4 DEF Complete
    <2> HIDE DEF ph
    <2>2. phase'[t] = ph[t]
      BY <1>2, <2>1
    <2> QED
      BY <1>1, <2>1, <2>2 DEF ph
  <1>5. ASSUME NEW l \in Lane, NEW n \in 0 .. MaxConcurrent, SetConcurrency(l, n)
        PROVE  phase[t] \in Outcomes
    <2>1. phase'[t] = phase[t]
      BY <1>2, <1>5 DEF SetConcurrency
    <2> QED
      BY <2>1
  <1>6. ASSUME NEW l \in Lane, Clear(l) PROVE phase[t] \in Outcomes
    BY <1>6 DEF Clear, Outcomes
  <1>7. CASE Reset
    <2>1. phase'[t] = phase[t]
      BY <1>2, <1>7 DEF Reset
    <2> QED
      BY <2>1
  <1>8. CASE MarkDraining \/ WaitStart \/ WaitPoll \/ UNCHANGED queueVars
    BY <1>8 DEF MarkDraining, WaitStart, WaitPoll, queueVars, laneVars
  <1> QED
    BY <1>3, <1>4, <1>5, <1>6, <1>7, <1>8 DEF QueueNext

\* A step that leaves every session lane alone can only begin and end turns,
\* and the turns it begins are those of runs at the head of their line.
LEMMA OthersTurn ==
  ASSUME AgentInv, AgentInv', NeverReset, [QueueNext]_queueVars,
         \A s \in Session : /\ queue'[sessionLane[s]] = queue[sessionLane[s]]
                            /\ active'[sessionLane[s]] = active[sessionLane[s]]
  PROVE  Turns!Turns
  <1>1. StepOK(Task, Task)
    BY QueueStepInv DEF AgentInv
  <1>2. UNCHANGED SessionLine
    BY LineStill DEF SessionLine
  <1>3. \A r \in Run :
           /\ phase[globalEntry[r]] \in Settled => phase'[globalEntry[r]] = phase[globalEntry[r]]
           /\ phase[globalEntry[r]] = "running"
                => phase'[globalEntry[r]] \in {"running"} \cup Outcomes
           /\ phase'[globalEntry[r]] \in Outcomes
                => phase[globalEntry[r]] \in Outcomes \cup {"running"}
    <2> TAKE r \in Run
    <2>1. globalEntry[r] \in Task
      BY EntryAssumption
    <2>2. phase'[globalEntry[r]] \in Outcomes
             => phase[globalEntry[r]] \in Outcomes \cup {"running"}
      BY <2>1, OutcomesOfRunning
    <2> QED
      BY <1>1, <2>1, <2>2 DEF StepOK, LifecycleStep
  <1>4. TurnOver' = TurnOver \cup (TurnNow \ TurnNow')
    <2>1. ASSUME NEW r \in Run
          PROVE  phase'[globalEntry[r]] \in Outcomes
                   <=> \/ phase[globalEntry[r]] \in Outcomes
                       \/ phase[globalEntry[r]] = "running" /\ phase'[globalEntry[r]] # "running"
      BY <1>3 DEF Settled, Outcomes
    <2> QED
      BY <2>1 DEF TurnOver, TurnNow, Executing
  <1>5. ASSUME NEW r \in Run, phase'[globalEntry[r]] = "running",
               phase[globalEntry[r]] # "running"
        PROVE  /\ r \notin TurnOver
               /\ \E s \in Session : SessionLine[s] # <<>> /\ r = SessionLine[s][1]
    <2> DEFINE t == sessionEntry[r]
               s == SessionOf[r]
               l == sessionLane[s]
    <2>1. r \notin TurnOver
      BY <1>3, <1>5 DEF TurnOver, Outcomes, Settled
    <2>2. t \in Task /\ LaneOf[t] = l /\ s \in Session /\ l \in Lane
      BY RunAssumption, EntryAssumption, EntryLanes
    <2>3. phase'[t] = "running"
      BY <1>5 DEF AgentInv, NestedInSession
    <2>4. phase[t] = "running"
      <3>1. CASE phase[t] # "running"
        <4>1. taskGeneration'[t] = generation'[LaneOf[t]]
          BY <1>1, <2>2, <2>3, <3>1 DEF StepOK, LifecycleStep
        <4>2. active'[l] = {u \in Task : LaneOf[u] = l /\ HoldsSlot(u)'}
          BY <2>2 DEF AgentInv, QueueInv, LaneInv, LaneAccounting
        <4>3. t \in active'[l]
          BY <2>2, <2>3, <4>1, <4>2 DEF HoldsSlot
        <4>4. t \in active[l]
          BY <2>2, <4>3
        <4> QED
          BY <2>2, <4>4, SessionLaneState
      <3> QED
        BY <3>1
    <2>6. active[l] = {t}
      BY <2>2, <2>4, SessionLaneHolder
    <2>7. LineOf(s) # <<>> /\ LineOf(s)[1] = r
      BY <2>2, <2>6, HeldSessionLine
    <2> QED
      BY <2>1, <2>2, <2>7 DEF SessionLine
  <1>6. TurnNow' \in SUBSET ((AtHead \ TurnOver) \cup TurnNow)
    <2>1. ASSUME NEW r \in TurnNow', r \notin TurnNow
          PROVE  r \in AtHead /\ r \notin TurnOver
      <3>1. r \in Run /\ phase'[globalEntry[r]] = "running" /\ phase[globalEntry[r]] # "running"
        BY <2>1 DEF TurnNow, Executing
      <3> QED
        BY <1>5, <3>1 DEF AtHead
    <2> QED
      BY <2>1
  <1> QED
    BY <1>2, <1>4, <1>6, TurnsMaps

\* Every step of the lanes is a step of the lines, or none.
LEMMA LaneStepServes ==
  ASSUME AgentInv, NeverReset, [LaneStep]_queueVars
  PROVE  [Turns!Next]_(Turns!vars)
  <1>1. AgentInv' /\ [QueueNext]_queueVars
    BY AgentStepInv, AgentStepIsQueueStep DEF AgentNext
  <1> DEFINE SessionLanesStill ==
               \A s \in Session : /\ queue'[sessionLane[s]] = queue[sessionLane[s]]
                                  /\ active'[sessionLane[s]] = active[sessionLane[s]]
  <1>2. ASSUME SessionLanesStill PROVE [Turns!Next]_(Turns!vars)
    <2>1. Turns!Turns
      BY <1>1, <1>2, OthersTurn
    <2> QED
      BY <2>1 DEF Turns!Next
  <1>3. \A s \in Session : sessionLane[s] \in Lane
    BY RunAssumption
  <1>4. ASSUME NEW r \in Run, Enqueue(sessionEntry[r])
        PROVE  [Turns!Next]_(Turns!vars)
    BY <1>4, SessionEntryArrives DEF Turns!Next
  <1>5. ASSUME NEW t \in Task, \A s \in Session : LaneOf[t] # sessionLane[s],
               Enqueue(t) \/ \E o \in Outcomes : Complete(t, o)
        PROVE  SessionLanesStill
    BY <1>3, <1>5, EnqueueElsewhere, CompleteElsewhere
  <1> HIDE DEF SessionLanesStill
  <1>6. ASSUME NEW r \in Run, Submit(r) PROVE [Turns!Next]_(Turns!vars)
    BY <1>4, <1>6 DEF Submit
  <1>7. ASSUME NEW r \in Cron, SubmitCron(r) PROVE [Turns!Next]_(Turns!vars)
    <2>1. cronEntry[r] \in Task /\ Enqueue(cronEntry[r])
      BY <1>7, EntryAssumption DEF SubmitCron
    <2> QED
      BY <1>2, <1>5, <2>1, EntriesElsewhere
  <1>8. ASSUME NEW r \in Cron, CronBody(r) PROVE [Turns!Next]_(Turns!vars)
    <2>1. r \in Run /\ Enqueue(sessionEntry[r])
      BY <1>8, RunAssumption DEF CronBody
    <2> QED
      BY <1>4, <2>1
  <1>9. ASSUME NEW r \in Run, EnterGlobalLane(r) PROVE [Turns!Next]_(Turns!vars)
    <2>1. globalEntry[r] \in Task /\ Enqueue(globalEntry[r])
      BY <1>9, EntryAssumption DEF EnterGlobalLane
    <2> QED
      BY <1>2, <1>5, <2>1, EntriesElsewhere
  <1>10. ASSUME NEW r \in Run, NEW o \in Outcomes, EndTurn(r, o)
         PROVE  [Turns!Next]_(Turns!vars)
    <2>1. globalEntry[r] \in Task /\ Complete(globalEntry[r], o)
      BY <1>10, EntryAssumption DEF EndTurn
    <2> QED
      BY <1>2, <1>5, <2>1, EntriesElsewhere
  <1>11. ASSUME NEW r \in Run, SessionReturns(r) PROVE [Turns!Next]_(Turns!vars)
    <2>1. PICK o \in Outcomes : Complete(sessionEntry[r], o)
      BY <1>11 DEF SessionReturns, Outcomes
    <2>2. phase[globalEntry[r]] \in Settled /\ SessionOf[r] \in Session
      BY <1>11, RunAssumption DEF SessionReturns
    <2>3. Turns!Leave(SessionOf[r])
      BY <2>1, <2>2, SessionEntryLeaves
    <2> QED
      BY <2>2, <2>3 DEF Turns!Next
  <1>12. ASSUME NEW r \in Cron, CronReturns(r) \/ CronReturnsEarly(r) PROVE [Turns!Next]_(Turns!vars)
    <2>1. cronEntry[r] \in Task /\ Complete(cronEntry[r], "resolved")
          /\ "resolved" \in Outcomes
      BY <1>12, EntryAssumption DEF CronReturns, CronReturnsEarly, Outcomes
    <2> QED
      BY <1>2, <1>5, <2>1, EntriesElsewhere
  <1>13. ASSUME NEW l \in {Main, CronLane, Subagent}, NEW n \in 0 .. MaxConcurrent,
                Configure(l, n)
         PROVE  [Turns!Next]_(Turns!vars)
    <2>1. \A s \in Session : sessionLane[s] # l
      BY EntryAssumption
    <2>2. \A k \in Lane : k # l => queue'[k] = queue[k] /\ active'[k] = active[k]
      BY <1>13 DEF Configure, SetConcurrency, PumpFrom
    <2>3. SessionLanesStill
      BY <1>3, <2>1, <2>2 DEF SessionLanesStill
    <2> QED
      BY <1>2, <2>3
  <1>14. ASSUME NEW s \in Session, ClearSession(s) PROVE [Turns!Next]_(Turns!vars)
    <2>1. Turns!Cancel(s) \/ UNCHANGED Turns!vars
      BY <1>14, SessionCleared DEF ClearSession
    <2> QED
      BY <2>1 DEF Turns!Next
  <1>15. CASE UNCHANGED queueVars
    <2>1. SessionLanesStill
      BY <1>15 DEF SessionLanesStill, queueVars, laneVars
    <2> QED
      BY <1>2, <2>1
  <1> QED
    BY <1>6, <1>7, <1>8, <1>9, <1>10, <1>11, <1>12, <1>13, <1>14, <1>15 DEF LaneStep

LEMMA LinesStartEmpty == QueueInit => Turns!Init
  <1> SUFFICES ASSUME QueueInit PROVE Turns!Init
    OBVIOUS
  <1>1. \A s \in Session : LineOf(s) = <<>>
    <2> TAKE s \in Session
    <2>1. sessionLane[s] \in Lane
      BY RunAssumption
    <2>2. active[sessionLane[s]] = {} /\ queue[sessionLane[s]] = <<>>
      BY <2>1 DEF QueueInit
    <2> QED
      BY <2>2, FreeSessionLine
  <1>2. \A r \in Run : phase[globalEntry[r]] = "new"
    BY EntryAssumption DEF QueueInit
  <1> QED
    BY <1>1, <1>2 DEF Turns!Init, Executing, Outcomes

\* The lanes of a gateway that is not restarted implement the line of each
\* session: its runs are served one at a time in the order they arrived, for any
\* sessions, runs, lanes and caps.
THEOREM LanesServeInTurn == UninterruptedSpec => ServesSessionsInTurn
  <1>1. QueueInit => AgentInv /\ NeverReset
    BY AgentInitInv DEF QueueInit, NeverReset
  <1>2. AgentInv /\ NeverReset /\ [LaneStep]_queueVars => AgentInv' /\ NeverReset'
    BY LaneStepKeepsFirst
  <1>3. AgentInv /\ NeverReset /\ [LaneStep]_queueVars => [Turns!Next]_(Turns!vars)
    BY LaneStepServes
  <1> QED
    BY <1>1, <1>2, <1>3, LinesStartEmpty, PTL
       DEF UninterruptedSpec, ServesSessionsInTurn, Turns!Spec

-----------------------------------------------------------------------------
(***************************************************************************)
(* The run loop drives the lanes only through the operations of AgentLanes, *)
(* and a drain that is reported complete left no run of the lifecycle       *)
(* behind.                                                                  *)
(*                                                                          *)
(* The second needs more than the answer of waitForActiveTasks, which looks *)
(* at a snapshot: while the gateway drains, a run can still begin its turn  *)
(* when its global entry was queued before.  Its session entry has been in  *)
(* the snapshot from the beginning, and ends only after the turn.           *)
(***************************************************************************)
\* A restart that has marked and counted, and has not resumed the loop.
Restarting ==
    /\ action = "restart"
    /\ shutdown \in {"draining", "closing", "respawning", "relocking"}

\* No signal is handled while the loop resumes, and the gateway refuses
\* entries from the first step of a restart to the reset.
Refusing ==
    /\ shutdown \in {"none", "marked", "draining", "closing", "respawning", "relocking"}
    /\ loop = "resuming" => shutdown = "none"
    /\ shutdown # "none" => shuttingDown
    /\ shutdown = "marked" => action = "restart"
    /\ action = "restart" /\ shutdown # "none" => gatewayDraining

\* The session entry around every turn that executes, or will, is in the snapshot.
SnapshotCoversTurns ==
    Restarting =>
        \A r \in Run :
            /\ phase[globalEntry[r]] \in {"queued", "running"}
            /\ HoldsSlot(sessionEntry[r])
            => sessionEntry[r] \in activeAtStart

DrainedAnswered ==
    /\ action = "restart" /\ shutdown \in {"closing", "respawning", "relocking"}
    /\ drained
    => waiter = "drained"

DrainInv == Refusing /\ SnapshotCoversTurns /\ DrainedAnswered

-----------------------------------------------------------------------------
\* A step of the run loop is a step of the agent lanes or leaves them alone.
LEMMA GatewayStepIsAgentStep ==
  [GatewayNext]_gatewayVars => [AgentNext]_queueVars
  <1> SUFFICES ASSUME [GatewayNext]_gatewayVars PROVE [AgentNext]_queueVars
    OBVIOUS
  <1>1. CASE LaneStep
    BY <1>1 DEF AgentNext
  <1>2. CASE LoopStep
    BY <1>2 DEF LoopStep, StartReturns, StartThrows, ReleaseAfterFailure, Iterate,
                AgentNext, Restart
  <1>3. CASE ShutdownStep
    BY <1>3 DEF ShutdownStep, SignalRestart, SignalStop, PollDrain, DrainEnds,
                CloseEnds, ForceExit, ProcessEnds, RestartInProcess, Relock,
                AgentNext, Restart
  <1>4. CASE CountActive
    BY <1>4 DEF CountActive, AgentNext, Restart
  <1>5. CASE UNCHANGED gatewayVars
    BY <1>5 DEF gatewayVars
  <1> QED
    BY <1>1, <1>2, <1>3, <1>4, <1>5 DEF GatewayNext

\* The run loop implements the loose restart of AgentLanes.
THEOREM GatewayImplementsAgentLanes == GatewaySpec => AgentSpec
  <1>1. GatewayInit => QueueInit
    BY DEF GatewayInit
  <1> QED
    BY <1>1, GatewayStepIsAgentStep, PTL DEF GatewaySpec, AgentSpec

\* What AgentLanes guarantees across restarts, the gateway does.
THEOREM GatewayOneTurnPerLifecycle == GatewaySpec => []OneTurnPerLifecycle
  BY GatewayImplementsAgentLanes, AgentOneTurnPerLifecycle, PTL

-----------------------------------------------------------------------------
\* While the gateway drains, no operation of the queue admits an entry.
LEMMA NoEntryWhileDraining ==
  ASSUME QueueInv, gatewayDraining, [QueueNext]_queueVars, NEW t \in Task,
         phase[t] = "new"
  PROVE  phase'[t] \in {"new", "refused"}
  BY NewStaysNew

\* A turn of the current lifecycle that is admitted after such a step, and
\* its slot in the session lane, were there before it.
LEMMA TurnWasAdmitted ==
  ASSUME AgentInv, gatewayDraining, [AgentNext]_queueVars,
         generation' = generation, NEW r \in Run,
         phase'[globalEntry[r]] \in {"queued", "running"},
         HoldsSlot(sessionEntry[r])'
  PROVE  /\ phase[globalEntry[r]] \in {"queued", "running"}
         /\ HoldsSlot(sessionEntry[r])
  <1> DEFINE ge == globalEntry[r]
             se == sessionEntry[r]
  <1>1. ge \in Task /\ se \in Task
    BY EntryAssumption
  <1>2. QueueInv /\ NestedInSession /\ [QueueNext]_queueVars
    BY AgentStepIsQueueStep DEF AgentInv
  <1>3. LifecycleStep(Task, Task)
    BY <1>2, QueueStepInv DEF StepOK
  <1>4. phase[ge] \in {"queued", "running"}
    <2>1. phase[ge] # "new"
      BY <1>1, <1>2, NoEntryWhileDraining
    <2>2. phase[ge] \notin Settled
      BY <1>1, <1>3 DEF LifecycleStep, Settled, Outcomes
    <2>3. phase[ge] \in Phases
      BY <1>1, <1>2 DEF QueueInv, LaneInv
    <2> QED
      BY <2>1, <2>2, <2>3 DEF Phases
  <1>5. phase[se] = "running"
    BY <1>2, <1>4 DEF NestedInSession
  <1>6. taskGeneration'[se] = taskGeneration[se]
    BY <1>1, <1>3, <1>5 DEF LifecycleStep
  <1> QED
    BY <1>4, <1>5, <1>6 DEF HoldsSlot

\* The lanes' own steps leave the waiter, the snapshot and the flag alone.
LEMMA LaneStepLeavesWait ==
  ASSUME LaneStep
  PROVE  UNCHANGED <<waiter, activeAtStart, gatewayDraining>>
  BY DEF LaneStep, Submit, SubmitCron, CronBody, EnterGlobalLane, EndTurn,
         SessionReturns, CronReturns, CronReturnsEarly, Configure, ClearSession, Enqueue, Complete,
         SetConcurrency, Clear, waitVars

LEMMA RefusingKept ==
  ASSUME Refusing, [GatewayNext]_gatewayVars
  PROVE  Refusing'
  <1> USE DEF Refusing
  <1>1. CASE LaneStep /\ UNCHANGED loopVars
    BY <1>1, LaneStepLeavesWait DEF loopVars
  <1>2. CASE LoopStep
    BY <1>2 DEF LoopStep, StartReturns, StartThrows, ReleaseAfterFailure, Iterate,
                queueVars
  <1>3. CASE SignalRestart
    BY <1>3 DEF SignalRestart, MarkDraining
  <1>4. CASE SignalStop
    BY <1>4 DEF SignalStop
  <1>5. CASE PollDrain
    BY <1>5 DEF PollDrain, WaitPoll, loopVars
  <1>6. CASE DrainEnds \/ CloseEnds \/ ForceExit \/ ProcessEnds
    BY <1>6 DEF DrainEnds, CloseEnds, ForceExit, ProcessEnds, queueVars
  <1>7. CASE RestartInProcess \/ Relock
    BY <1>7 DEF RestartInProcess, Relock, Resolve, queueVars
  <1>8. CASE CountActive
    BY <1>8 DEF CountActive, WaitStart
  <1>9. CASE UNCHANGED gatewayVars
    BY <1>9 DEF gatewayVars, loopVars, queueVars
  <1> QED
    BY <1>1, <1>2, <1>3, <1>4, <1>5, <1>6, <1>7, <1>8, <1>9
       DEF GatewayNext, ShutdownStep

\* During a restart only the lanes themselves move their entries, and only
\* the polls of the drain move its answer.
LEMMA RestartingStep ==
  ASSUME Refusing, Restarting, [GatewayNext]_gatewayVars
  PROVE  /\ generation' = generation /\ activeAtStart' = activeAtStart
         /\ shutdown # "draining" => waiter' = waiter
  <1>1. CASE LaneStep /\ UNCHANGED loopVars
    <2>1. [LaneStep]_queueVars
      BY <1>1
    <2> QED
      BY <1>1, <2>1, LaneStepLeavesWait, LaneStepKeepsGeneration
  <1>2. CASE StartReturns \/ StartThrows \/ ReleaseAfterFailure
    BY <1>2 DEF StartReturns, StartThrows, ReleaseAfterFailure, queueVars, laneVars,
                waitVars
  <1>3. ~Iterate /\ ~SignalRestart /\ ~SignalStop /\ ~CountActive
    BY DEF Refusing, Restarting, Iterate, SignalRestart, SignalStop, CountActive
  <1>4. CASE PollDrain
    BY <1>4 DEF PollDrain, WaitPoll, laneVars
  <1>5. CASE DrainEnds \/ CloseEnds \/ ForceExit \/ ProcessEnds \/ RestartInProcess
             \/ Relock
    BY <1>5 DEF DrainEnds, CloseEnds, ForceExit, ProcessEnds, RestartInProcess, Relock,
                queueVars, laneVars, waitVars
  <1>6. CASE UNCHANGED gatewayVars
    BY <1>6 DEF gatewayVars, queueVars, laneVars, waitVars
  <1> QED
    BY <1>1, <1>2, <1>3, <1>4, <1>5, <1>6 DEF GatewayNext, ShutdownStep, LoopStep

\* A restart reaches the drain by counting the active tasks.
LEMMA DrainBegins ==
  ASSUME Refusing, ~Restarting, Restarting', [GatewayNext]_gatewayVars
  PROVE  CountActive
  BY DEF Restarting, Refusing, GatewayNext, LoopStep, ShutdownStep, StartReturns,
         StartThrows, ReleaseAfterFailure, Iterate, SignalRestart, SignalStop,
         PollDrain, DrainEnds, CloseEnds, ForceExit, ProcessEnds, RestartInProcess,
         Relock, Resolve, loopVars, gatewayVars

LEMMA SnapshotKept ==
  ASSUME AgentInv, Refusing, SnapshotCoversTurns, [GatewayNext]_gatewayVars
  PROVE  SnapshotCoversTurns'
  <1>1. CASE Restarting
    <2>1. /\ generation' = generation /\ activeAtStart' = activeAtStart
          /\ gatewayDraining /\ [AgentNext]_queueVars
      BY <1>1, RestartingStep, GatewayStepIsAgentStep DEF Refusing, Restarting
    <2>2. ASSUME NEW r \in Run, phase'[globalEntry[r]] \in {"queued", "running"},
                 HoldsSlot(sessionEntry[r])'
          PROVE  sessionEntry[r] \in activeAtStart'
      BY <1>1, <2>1, <2>2, TurnWasAdmitted DEF SnapshotCoversTurns
    <2> QED
      BY <2>2 DEF SnapshotCoversTurns
  <1>2. CASE ~Restarting /\ Restarting'
    <2>1. activeAtStart' = ActiveTasks /\ UNCHANGED laneVars
      BY <1>2, DrainBegins DEF CountActive, WaitStart
    <2>2. ASSUME NEW t \in Task, HoldsSlot(t)' PROVE t \in ActiveTasks
      <3>1. HoldsSlot(t) /\ LaneOf[t] \in Lane
        BY <2>1, <2>2, LaneOfAssumption DEF HoldsSlot, laneVars
      <3>2. t \in active[LaneOf[t]]
        BY <3>1 DEF AgentInv, QueueInv, LaneInv, LaneAccounting
      <3> QED
        BY <3>1, <3>2 DEF ActiveTasks
    <2> QED
      BY <2>1, <2>2, EntryAssumption DEF SnapshotCoversTurns
  <1>3. CASE ~Restarting'
    BY <1>3 DEF SnapshotCoversTurns, Restarting
  <1> QED
    BY <1>1, <1>2, <1>3

LEMMA AnswerKept ==
  ASSUME Refusing, DrainedAnswered, [GatewayNext]_gatewayVars
  PROVE  DrainedAnswered'
  <1>1. CASE DrainEnds
    BY <1>1 DEF DrainEnds, DrainedAnswered, queueVars, waitVars
  <1>2. CASE ~DrainEnds
    <2> SUFFICES ASSUME action' = "restart", drained',
                        shutdown' \in {"closing", "respawning", "relocking"}
                 PROVE  waiter' = "drained"
      BY DEF DrainedAnswered
    <2>1. /\ action = "restart" /\ drained
          /\ shutdown \in {"closing", "respawning", "relocking"}
      BY <1>2 DEF Refusing, GatewayNext, LoopStep, ShutdownStep, StartReturns,
                  StartThrows, ReleaseAfterFailure, Iterate, SignalRestart, SignalStop,
                  PollDrain, CountActive, CloseEnds, ForceExit, ProcessEnds,
                  RestartInProcess, Relock, Resolve, loopVars, gatewayVars
    <2>2. waiter' = waiter
      BY <2>1, RestartingStep DEF Restarting
    <2> QED
      BY <2>1, <2>2 DEF DrainedAnswered
  <1> QED
    BY <1>1, <1>2

\* "all active work drained" is true when the run loop says so: no run of the
\* lifecycle being closed executes any more.
THEOREM GatewayDrainLeavesNoRun == GatewaySpec => []DrainLeavesNoRun
  <1>1. GatewayInit => DrainInv
    BY DEF GatewayInit, DrainInv, Refusing, SnapshotCoversTurns, Restarting,
           DrainedAnswered
  <1>2. AgentInv /\ DrainInv /\ [GatewayNext]_gatewayVars => DrainInv'
    BY RefusingKept, SnapshotKept, AnswerKept DEF DrainInv
  <1>3. AgentInv /\ DrainedIsTrue /\ DrainInv => DrainLeavesNoRun
    <2> SUFFICES ASSUME AgentInv, DrainedIsTrue, DrainInv, NEW r \in Run,
                        action = "restart", drained,
                        shutdown \in {"closing", "respawning", "relocking"},
                        Executing(r), HoldsSlot(sessionEntry[r])
                 PROVE  FALSE
      BY DEF DrainLeavesNoRun
    <2> DEFINE se == sessionEntry[r]
    <2>1. se \in activeAtStart
      BY DEF DrainInv, SnapshotCoversTurns, Restarting, Executing
    <2>2. waiter = "drained"
      BY DEF DrainInv, DrainedAnswered
    <2>3. taskGeneration[se] < generation[LaneOf[se]]
      BY <2>1, <2>2 DEF DrainedIsTrue, HoldsSlot
    <2>4. taskGeneration[se] = generation[LaneOf[se]]
      BY DEF HoldsSlot
    <2>5. generation[LaneOf[se]] \in Nat
      <3>1. se \in Task /\ LaneOf[se] \in Lane
        BY EntryAssumption, LaneOfAssumption
      <3> QED
        BY <3>1 DEF AgentInv, QueueInv, LaneInv
    <2> QED
      BY <2>3, <2>4, <2>5
  <1>4. AgentSpec => []AgentInv /\ []DrainedIsTrue
    <2>1. AgentSpec => QueueSpec
      BY AgentUsesTheQueue, PTL DEF UsesTheQueue
    <2> QED
      BY <2>1, AgentInvariance, QueueDrainedIsTrue, PTL
  <1> QED
    BY <1>1, <1>2, <1>3, <1>4, GatewayImplementsAgentLanes, PTL DEF GatewaySpec

-----------------------------------------------------------------------------
(***************************************************************************)
(* Types, and the lock: from the release in the finally block on, and until *)
(* it is reacquired, the closure does not hold the lock.                    *)
(***************************************************************************)
Unlocked ==
    /\ shutdown \in {"respawning", "relocking"} => ~lockHeld
    /\ exit = "clean" => shutdown = "respawning"
    /\ loop = "resuming" /\ hadLock => lockHeld
    /\ loop = "resuming" => shutdown = "none"

LEMMA InitLoopType ==
  ASSUME GatewayInit
  PROVE  LoopTypeOK
  <1>1. restarts \in 0 .. MaxRestarts
    BY RestartBound DEF GatewayInit
  <1>2. /\ firstStart \in BOOLEAN /\ serverUp \in BOOLEAN /\ lockHeld \in BOOLEAN
        /\ shuttingDown \in BOOLEAN /\ hadLock \in BOOLEAN /\ drained \in BOOLEAN
    BY Zenon DEF GatewayInit
  <1> QED
    BY <1>1, <1>2 DEF GatewayInit, LoopTypeOK

LEMMA LoopTypeKept ==
  ASSUME LoopTypeOK, [GatewayNext]_gatewayVars
  PROVE  LoopTypeOK'
  <1> USE RestartBound DEF LoopTypeOK
  <1>1. CASE LaneStep /\ UNCHANGED loopVars
    BY <1>1 DEF loopVars
  <1>2. CASE LoopStep
    <2>1. CASE StartReturns \/ ReleaseAfterFailure
      BY <2>1 DEF StartReturns, ReleaseAfterFailure
    <2>2. CASE StartThrows
      BY <2>2 DEF StartThrows
    <2>3. CASE Iterate
      BY <2>3 DEF Iterate
    <2> QED
      BY <1>2, <2>1, <2>2, <2>3 DEF LoopStep
  <1>3. CASE SignalRestart
    <2>1. restarts + 1 \in 0 .. MaxRestarts
      BY <1>3 DEF SignalRestart
    <2>2. FALSE \in BOOLEAN /\ TRUE \in BOOLEAN
      OBVIOUS
    <2>3. early' \in BOOLEAN
      BY <1>3, Zenon DEF SignalRestart
    <2> QED
      BY <1>3, <2>1, <2>2, <2>3 DEF SignalRestart
  <1>4. CASE SignalStop \/ CountActive \/ PollDrain
    BY <1>4 DEF SignalStop, CountActive, PollDrain, loopVars
  <1>5. CASE DrainEnds \/ CloseEnds \/ ForceExit \/ ProcessEnds
    BY <1>5 DEF DrainEnds, CloseEnds, ForceExit, ProcessEnds
  <1>6. CASE RestartInProcess \/ Relock
    BY <1>6 DEF RestartInProcess, Relock, Resolve
  <1>7. CASE UNCHANGED gatewayVars
    BY <1>7 DEF gatewayVars, loopVars
  <1> QED
    BY <1>1, <1>2, <1>3, <1>4, <1>5, <1>6, <1>7 DEF GatewayNext, ShutdownStep

LEMMA UnlockedKept ==
  ASSUME LoopTypeOK, Unlocked, [GatewayNext]_gatewayVars
  PROVE  Unlocked'
  <1> USE DEF LoopTypeOK, Unlocked
  <1>1. CASE LaneStep /\ UNCHANGED loopVars
    BY <1>1 DEF loopVars
  <1>2. CASE Free /\ LoopStep
    BY <1>2 DEF Free, LoopStep, StartReturns, StartThrows, ReleaseAfterFailure, Iterate
  <1>3. CASE Free /\ (SignalRestart \/ SignalStop)
    BY <1>3 DEF Free, SignalRestart, SignalStop
  <1>4. CASE CountActive
    BY <1>4 DEF CountActive
  <1>8. CASE PollDrain
    BY <1>8 DEF PollDrain, loopVars
  <1>5. CASE Free /\ (DrainEnds \/ CloseEnds \/ ForceExit \/ ProcessEnds)
    <2>1. CASE DrainEnds
      BY <1>5, <2>1 DEF Free, DrainEnds
    <2>2. CASE CloseEnds
      BY <1>5, <2>2 DEF Free, CloseEnds
    <2>3. CASE ForceExit
      BY <2>3 DEF ForceExit
    <2>4. CASE ProcessEnds
      BY <2>4 DEF ProcessEnds
    <2> QED
      BY <1>5, <2>1, <2>2, <2>3, <2>4
  <1>6. CASE Free /\ (RestartInProcess \/ Relock)
    BY <1>6 DEF Free, RestartInProcess, Relock, Resolve
  <1>7. CASE UNCHANGED gatewayVars
    BY <1>7 DEF gatewayVars, loopVars
  <1> QED
    BY <1>1, <1>2, <1>3, <1>4, <1>5, <1>6, <1>7, <1>8
       DEF GatewayNext, ShutdownStep, Free

\* Type correctness of the run loop and the lanes under it.
THEOREM GatewayTypeCorrect == GatewaySpec => []GatewayTypeOK
  <1>1. GatewayInit => LoopTypeOK
    BY InitLoopType
  <1>2. LoopTypeOK /\ AgentInv => GatewayTypeOK
    BY QueueInvTypeOK DEF LoopTypeOK, AgentInv, GatewayTypeOK
  <1> QED
    BY <1>1, <1>2, LoopTypeKept, GatewayImplementsAgentLanes, AgentInvariance, PTL
       DEF GatewaySpec

\* A process that ends in good order leaves the lock, and one that restarts in
\* place has the lock its server had.
THEOREM GatewayLockHandedOver == GatewaySpec => []LockHandedOver
  <1>1. GatewayInit => LoopTypeOK /\ Unlocked
    BY InitLoopType DEF GatewayInit, Unlocked
  <1>2. LoopTypeOK /\ Unlocked => LockHandedOver
    BY DEF Unlocked, LockHandedOver
  <1> QED
    BY <1>1, <1>2, LoopTypeKept, UnlockedKept, PTL DEF GatewaySpec

-----------------------------------------------------------------------------
(***************************************************************************)
(* The lanes are reset between two lives of the server.                     *)
(*                                                                          *)
(* A restart signal that comes while the loop awaits its promise finds the  *)
(* server up, closes it, and is the only one that can resume the loop.  One *)
(* that comes earlier may close nothing: the server that starts meanwhile   *)
(* stays up, which is what early records.                                   *)
(***************************************************************************)
EarlyKnown ==
    /\ loop # "awaiting" /\ action = "restart" /\ shutdown # "none" => early
    /\ shutdown \in {"respawning", "relocking"} /\ action = "restart" /\ serverUp => early
    /\ shutdown = "relocking" => action = "restart"
    /\ loop = "resuming" => gatewayDraining /\ ~shuttingDown /\ (serverUp => early)

LEMMA EarlyKept ==
  ASSUME Refusing, LoopTypeOK, EarlyKnown, [GatewayNext]_gatewayVars
  PROVE  EarlyKnown'
  <1> USE DEF EarlyKnown
  <1>1. CASE LaneStep /\ UNCHANGED loopVars
    BY <1>1, LaneStepLeavesWait DEF loopVars
  <1>2. CASE StartReturns \/ StartThrows \/ ReleaseAfterFailure
    BY <1>2 DEF StartReturns, StartThrows, ReleaseAfterFailure, queueVars
  <1>3. CASE Iterate
    BY <1>3 DEF Iterate, Refusing
  <1>4. CASE SignalRestart
    BY <1>4 DEF SignalRestart
  <1>5. CASE SignalStop
    BY <1>5 DEF SignalStop
  <1>6. CASE CountActive
    BY <1>6 DEF CountActive, WaitStart, Refusing
  <1>7. CASE PollDrain
    BY <1>7 DEF PollDrain, WaitPoll, loopVars
  <1>8. CASE DrainEnds
    BY <1>8 DEF DrainEnds, queueVars
  <1>9. CASE CloseEnds
    BY <1>9 DEF CloseEnds, Refusing, queueVars
  <1>10. CASE ForceExit \/ ProcessEnds
    BY <1>10 DEF ForceExit, ProcessEnds, queueVars
  <1>11. CASE RestartInProcess \/ Relock
    <2>1. /\ action = "restart" /\ shutdown \in {"respawning", "relocking"}
          /\ action' = action /\ serverUp' = serverUp /\ early' = early
          /\ gatewayDraining' = gatewayDraining
      BY <1>11 DEF RestartInProcess, Relock, Refusing, queueVars
    <2>2. serverUp => early
      BY <2>1
    <2>3. gatewayDraining /\ loop # "resuming"
      BY <2>1 DEF Refusing
    <2>4. \/ shutdown' = "none" /\ shuttingDown' = FALSE
             /\ loop' = IF loop = "awaiting" THEN "resuming" ELSE loop
          \/ shutdown' \in {"respawning", "relocking"} /\ loop' = loop
      BY <1>11 DEF RestartInProcess, Relock, Resolve
    <2> QED
      BY <2>1, <2>2, <2>3, <2>4
  <1>12. CASE UNCHANGED gatewayVars
    BY <1>12 DEF gatewayVars, loopVars, queueVars
  <1> QED
    BY <1>1, <1>2, <1>3, <1>4, <1>5, <1>6, <1>7, <1>8, <1>9, <1>10, <1>11, <1>12
       DEF GatewayNext, LoopStep, ShutdownStep

\* The step that ResetBetweenServers speaks of.
ResetStep ==
    \A l \in Lane : generation'[l] # generation[l]
                      => gatewayDraining /\ ~shuttingDown /\ (serverUp => early)

LEMMA OnlyIterateResets ==
  ASSUME [GatewayNext]_gatewayVars
  PROVE  Iterate \/ generation' = generation
  <1>1. CASE LaneStep
    BY <1>1, LaneStepKeepsGeneration
  <1>2. CASE StartReturns \/ StartThrows \/ ReleaseAfterFailure \/ CountActive
    BY <1>2 DEF StartReturns, StartThrows, ReleaseAfterFailure, CountActive, WaitStart,
                queueVars, laneVars
  <1>3. CASE SignalRestart \/ SignalStop \/ PollDrain
    BY <1>3 DEF SignalRestart, MarkDraining, SignalStop, PollDrain, WaitPoll,
                queueVars, laneVars
  <1>4. CASE DrainEnds \/ CloseEnds \/ ForceExit \/ ProcessEnds \/ RestartInProcess
             \/ Relock
    BY <1>4 DEF DrainEnds, CloseEnds, ForceExit, ProcessEnds, RestartInProcess, Relock,
                queueVars, laneVars
  <1>5. CASE UNCHANGED gatewayVars
    BY <1>5 DEF gatewayVars, queueVars, laneVars
  <1> QED
    BY <1>1, <1>2, <1>3, <1>4, <1>5 DEF GatewayNext, LoopStep, ShutdownStep

\* The lanes are reset only by a loop that resumes: they refuse new entries, no
\* signal is being handled, and no server is up but one that a restart signal
\* came too early for.
THEOREM GatewayResetBetweenServers == GatewaySpec => ResetBetweenServers
  <1>1. GatewayInit => Refusing /\ LoopTypeOK /\ EarlyKnown
    BY InitLoopType DEF GatewayInit, Refusing, EarlyKnown
  <1>2. Refusing /\ LoopTypeOK /\ EarlyKnown /\ [GatewayNext]_gatewayVars
          => Refusing' /\ LoopTypeOK' /\ EarlyKnown'
    BY RefusingKept, LoopTypeKept, EarlyKept
  <1>3. EarlyKnown /\ [GatewayNext]_gatewayVars => [ResetStep]_gatewayVars
    <2>1. ASSUME EarlyKnown, Iterate PROVE ResetStep
      BY <2>1 DEF EarlyKnown, Iterate, ResetStep
    <2> QED
      BY <2>1, OnlyIterateResets DEF ResetStep
  <1>4. ASSUME [][ResetStep]_gatewayVars PROVE ResetBetweenServers
    BY <1>4, PTL DEF ResetBetweenServers, ResetStep
  <1> QED
    BY <1>1, <1>2, <1>3, <1>4, PTL DEF GatewaySpec

=============================================================================
