---------------------------- MODULE CommandQueue ----------------------------
(***************************************************************************)
(* The in-process command queue, src/src/process/command-queue.ts.          *)
(*                                                                          *)
(* A lane is a FIFO of entries with a concurrency cap.  Every function of   *)
(* the file runs to completion on the JavaScript thread, so one call, the   *)
(* pump that ends it included, is one action.  `state.draining` is TRUE     *)
(* only while a pump is on the stack and FALSE in every state between two   *)
(* actions: it is not a variable here.  A task id is allocated when an      *)
(* entry starts and never reused, so an entry stands for its own id.        *)
(*                                                                          *)
(* A Task is one call of enqueueCommandInLane; LaneOf[t] is the lane the    *)
(* call names, after normalizeLane.  Lanes are created on first use with    *)
(* the values Init gives them.                                              *)
(***************************************************************************)
EXTENDS Integers, Sequences, FiniteSets

CONSTANTS
    Lane,           \* the lane names in use
    Task,           \* the calls of enqueueCommandInLane
    LaneOf,         \* the lane each call names
    MaxConcurrent,  \* bound: largest cap setCommandLaneConcurrency is given
    MaxGeneration   \* bound: how often resetAllLanes runs

ASSUME LaneOfAssumption == LaneOf \in [Task -> Lane]
ASSUME BoundAssumption ==
    /\ MaxConcurrent \in Nat \ {0}
    /\ MaxGeneration \in Nat

VARIABLES
    gatewayDraining,  \* new entries are refused
    queue,            \* LaneState.queue, per lane
    active,           \* LaneState.activeTaskIds, per lane
    maxConcurrent,    \* LaneState.maxConcurrent, per lane
    generation,       \* LaneState.generation, per lane
    phase,            \* where each call stands
    taskGeneration,   \* the lane generation captured when the entry started
    waiter,           \* state of a waitForActiveTasks call
    activeAtStart     \* the ids that call snapshotted

laneVars == <<queue, active, maxConcurrent, generation, phase, taskGeneration>>
waitVars == <<waiter, activeAtStart>>
queueVars == <<gatewayDraining, laneVars, waitVars>>

Outcomes == {"resolved", "failed"}
Settled == Outcomes \cup {"cleared", "refused"}
Phases == {"new", "queued", "running"} \cup Settled

QueueTypeOK ==
    /\ gatewayDraining \in BOOLEAN
    /\ queue \in [Lane -> Seq(Task)]
    /\ active \in [Lane -> SUBSET Task]
    /\ maxConcurrent \in [Lane -> 1 .. MaxConcurrent]
    /\ generation \in [Lane -> 0 .. MaxGeneration]
    /\ phase \in [Task -> Phases]
    /\ taskGeneration \in [Task -> 0 .. MaxGeneration]
    /\ waiter \in {"idle", "polling", "drained", "timedOut"}
    /\ activeAtStart \in SUBSET Task

QueueInit ==
    /\ gatewayDraining = FALSE
    /\ queue = [l \in Lane |-> <<>>]
    /\ active = [l \in Lane |-> {}]
    /\ maxConcurrent = [l \in Lane |-> 1]
    /\ generation = [l \in Lane |-> 0]
    /\ phase = [t \in Task |-> "new"]
    /\ taskGeneration = [t \in Task |-> 0]
    /\ waiter = "idle"
    /\ activeAtStart = {}

-----------------------------------------------------------------------------
(***************************************************************************)
(* The pump.  `while (active.size < max && queue.length > 0)` starts the    *)
(* longest prefix of the queue that fits under the cap.                     *)
(***************************************************************************)
\* Mutant: `<=` in the loop condition of the pump.
SlotsOneTooMany(q, a, m) ==
    LET free == m + 1 - Cardinality(a)
    IN  IF free <= 0 THEN 0 ELSE IF free < Len(q) THEN free ELSE Len(q)

Slots(q, a, m) ==
    LET free == m - Cardinality(a)
    IN  IF free <= 0 THEN 0 ELSE IF free < Len(q) THEN free ELSE Len(q)

Entries(q) == {q[i] : i \in 1 .. Len(q)}

Started(q, a, m) == {q[i] : i \in 1 .. Slots(q, a, m)}

Remaining(q, a, m) == SubSeq(q, Slots(q, a, m) + 1, Len(q))

\* Pump the lanes in L from the lane state (q, a, m, g) and phases ph the rest
\* of the handler has computed; every handler below ends with this.
PumpFrom(L, q, a, m, g, ph) ==
    LET starts == UNION {Started(q[l], a[l], m[l]) : l \in L}
    IN  /\ queue' = [l \in Lane |->
                        IF l \in L THEN Remaining(q[l], a[l], m[l]) ELSE q[l]]
        /\ active' = [l \in Lane |->
                        IF l \in L THEN a[l] \cup Started(q[l], a[l], m[l]) ELSE a[l]]
        /\ maxConcurrent' = m
        /\ generation' = g
        /\ phase' = [t \in Task |-> IF t \in starts THEN "running" ELSE ph[t]]
        /\ taskGeneration' = [t \in Task |->
                        IF t \in starts THEN g[LaneOf[t]] ELSE taskGeneration[t]]

-----------------------------------------------------------------------------
\* Mutant: the entry is unshifted instead of pushed.
EnqueueAtFront(t) ==
    /\ phase[t] = "new"
    /\ ~gatewayDraining
    /\ PumpFrom({LaneOf[t]},
                [queue EXCEPT ![LaneOf[t]] = <<t>> \o @],
                active, maxConcurrent, generation,
                [phase EXCEPT ![t] = "queued"])
    /\ UNCHANGED <<gatewayDraining, waitVars>>

\* Mutant: the draining flag is not looked at.
EnqueueWhileDraining(t) ==
    /\ phase[t] = "new"
    /\ PumpFrom({LaneOf[t]},
                [queue EXCEPT ![LaneOf[t]] = Append(@, t)],
                active, maxConcurrent, generation,
                [phase EXCEPT ![t] = "queued"])
    /\ UNCHANGED <<gatewayDraining, waitVars>>

\* enqueueCommandInLane: refused while the gateway drains, else queued and pumped.
Enqueue(t) ==
    /\ phase[t] = "new"
    /\ \/ /\ gatewayDraining
          /\ phase' = [phase EXCEPT ![t] = "refused"]
          /\ UNCHANGED <<queue, active, maxConcurrent, generation, taskGeneration>>
       \/ /\ ~gatewayDraining
          /\ PumpFrom({LaneOf[t]},
                      [queue EXCEPT ![LaneOf[t]] = Append(@, t)],
                      active, maxConcurrent, generation,
                      [phase EXCEPT ![t] = "queued"])
    /\ UNCHANGED <<gatewayDraining, waitVars>>

\* Mutant: the catch branch frees the slot and does not pump.
CompleteNoPumpOnError(t, outcome) ==
    LET l == LaneOf[t]
        ended == [phase EXCEPT ![t] = outcome]
    IN  /\ phase[t] = "running"
        /\ \/ /\ taskGeneration[t] = generation[l]
              /\ PumpFrom(IF outcome = "failed" THEN {} ELSE {l}, queue,
                          [active EXCEPT ![l] = @ \ {t}],
                          maxConcurrent, generation, ended)
           \/ /\ taskGeneration[t] # generation[l]
              /\ phase' = ended
              /\ UNCHANGED <<queue, active, maxConcurrent, generation, taskGeneration>>
        /\ UNCHANGED <<gatewayDraining, waitVars>>

\* The task's promise settles.  completeTask frees the slot, and the lane is
\* pumped, only when the lane has not been reset since the task started; the
\* caller's promise settles either way.
Complete(t, outcome) ==
    LET l == LaneOf[t]
        ended == [phase EXCEPT ![t] = outcome]
    IN  /\ phase[t] = "running"
        /\ \/ /\ taskGeneration[t] = generation[l]
              /\ PumpFrom({l}, queue, [active EXCEPT ![l] = @ \ {t}],
                          maxConcurrent, generation, ended)
           \/ /\ taskGeneration[t] # generation[l]
              /\ phase' = ended
              /\ UNCHANGED <<queue, active, maxConcurrent, generation, taskGeneration>>
        /\ UNCHANGED <<gatewayDraining, waitVars>>

\* setCommandLaneConcurrency: Math.max(1, ...), then drainLane.
SetConcurrency(l, n) ==
    /\ PumpFrom({l}, queue, active,
                [maxConcurrent EXCEPT ![l] = IF n < 1 THEN 1 ELSE n],
                generation, phase)
    /\ UNCHANGED <<gatewayDraining, waitVars>>

\* Mutant: the rejected entries are not spliced out of the queue.
ClearKeepsEntries(l) ==
    /\ phase' = [t \in Task |->
                    IF t \in Entries(queue[l]) THEN "cleared" ELSE phase[t]]
    /\ UNCHANGED <<gatewayDraining, queue, active, maxConcurrent, generation,
                   taskGeneration, waitVars>>

\* clearCommandLane: every queued entry is rejected, running ones stay.
Clear(l) ==
    /\ queue' = [queue EXCEPT ![l] = <<>>]
    /\ phase' = [t \in Task |->
                    IF t \in Entries(queue[l]) THEN "cleared" ELSE phase[t]]
    /\ UNCHANGED <<gatewayDraining, active, maxConcurrent, generation,
                   taskGeneration, waitVars>>

MarkDraining ==
    /\ gatewayDraining' = TRUE
    /\ UNCHANGED <<laneVars, waitVars>>

\* Mutant: activeTaskIds is not cleared.
ResetKeepsActiveIds ==
    /\ \A l \in Lane : generation[l] < MaxGeneration
    /\ gatewayDraining' = FALSE
    /\ PumpFrom({l \in Lane : queue[l] # <<>>}, queue, active,
                maxConcurrent, [l \in Lane |-> generation[l] + 1], phase)
    /\ UNCHANGED waitVars

\* Mutant: the lanes keep their generation.
ResetKeepsGeneration ==
    /\ \A l \in Lane : generation[l] < MaxGeneration
    /\ gatewayDraining' = FALSE
    /\ PumpFrom({l \in Lane : queue[l] # <<>>}, queue, [l \in Lane |-> {}],
                maxConcurrent, generation, phase)
    /\ UNCHANGED waitVars

\* Mutant: the lanes that still have entries are not drained.
ResetNoDrain ==
    /\ \A l \in Lane : generation[l] < MaxGeneration
    /\ gatewayDraining' = FALSE
    /\ PumpFrom({}, queue, [l \in Lane |-> {}],
                maxConcurrent, [l \in Lane |-> generation[l] + 1], phase)
    /\ UNCHANGED waitVars

\* Mutant: gatewayDraining stays TRUE.
ResetKeepsDraining ==
    /\ \A l \in Lane : generation[l] < MaxGeneration
    /\ PumpFrom({l \in Lane : queue[l] # <<>>}, queue, [l \in Lane |-> {}],
                maxConcurrent, [l \in Lane |-> generation[l] + 1], phase)
    /\ UNCHANGED <<gatewayDraining, waitVars>>

\* resetAllLanes: every lane is made idle, then the lanes with entries pumped.
Reset ==
    /\ \A l \in Lane : generation[l] < MaxGeneration
    /\ gatewayDraining' = FALSE
    /\ PumpFrom({l \in Lane : queue[l] # <<>>}, queue, [l \in Lane |-> {}],
                maxConcurrent, [l \in Lane |-> generation[l] + 1], phase)
    /\ UNCHANGED waitVars

-----------------------------------------------------------------------------
\* waitForActiveTasks: snapshot the active ids, then poll until none of them
\* is active any more or the deadline has passed.
ActiveTasks == UNION {active[l] : l \in Lane}

WaitStart ==
    /\ waiter # "polling"
    /\ activeAtStart' = ActiveTasks
    /\ waiter' = IF ActiveTasks = {} THEN "drained" ELSE "polling"
    /\ UNCHANGED <<gatewayDraining, laneVars>>

\* Mutant: check() is satisfied when some snapshotted task has finished.
WaitPollAny ==
    /\ waiter = "polling"
    /\ \/ /\ ~(activeAtStart \subseteq ActiveTasks)
          /\ waiter' = "drained"
       \/ /\ activeAtStart \subseteq ActiveTasks
          /\ waiter' = "timedOut"
    /\ UNCHANGED <<gatewayDraining, laneVars, activeAtStart>>

\* One run of check(); the deadline may or may not have passed.
WaitPoll ==
    /\ waiter = "polling"
    /\ \/ /\ ActiveTasks \cap activeAtStart = {}
          /\ waiter' = "drained"
       \/ /\ ActiveTasks \cap activeAtStart # {}
          /\ waiter' = "timedOut"
    /\ UNCHANGED <<gatewayDraining, laneVars, activeAtStart>>

-----------------------------------------------------------------------------
QueueNext ==
    \/ \E t \in Task : Enqueue(t)
    \/ \E t \in Task, o \in Outcomes : Complete(t, o)
    \/ \E l \in Lane, n \in 0 .. MaxConcurrent : SetConcurrency(l, n)
    \/ \E l \in Lane : Clear(l)
    \/ MarkDraining
    \/ Reset
    \/ WaitStart
    \/ WaitPoll

QueueSpec == QueueInit /\ [][QueueNext]_queueVars

-----------------------------------------------------------------------------
(***************************************************************************)
(* Correctness.                                                             *)
(***************************************************************************)

\* Type correctness of the whole queue state.
TypeOK == QueueTypeOK

\* Lane accounting: an entry is in its lane's queue exactly once while it is
\* queued, and holds a slot of its lane exactly while it runs in the lane's
\* current generation.  A lane that kept a stale id after resetAllLanes
\* would be blocked for ever; one that lost an id would run over its cap.
Distinct(q) == \A i, j \in 1 .. Len(q) : q[i] = q[j] => i = j

HoldsSlot(t) ==
    /\ phase[t] = "running"
    /\ taskGeneration[t] = generation[LaneOf[t]]

LaneAccounting ==
    \A l \in Lane :
        /\ Distinct(queue[l])
        /\ Entries(queue[l]) = {t \in Task : LaneOf[t] = l /\ phase[t] = "queued"}
        /\ active[l] = {t \in Task : LaneOf[t] = l /\ HoldsSlot(t)}

\* No lost wake-up: whatever completes, fails, is reset or is reconfigured,
\* no entry is left waiting in a lane that has a free slot (drainLane and the
\* pump that follows each completion; the diag.warn at lines 105-109 reports
\* the state this excludes).
NoIdleSlot ==
    \A l \in Lane : queue[l] # <<>> => Cardinality(active[l]) >= maxConcurrent[l]

\* The cap: a step that starts an entry leaves its lane within the cap, also
\* after the cap was lowered below the number of running tasks.
StartsWithinCap ==
    \A l \in Lane : active'[l] \ active[l] # {}
                        => Cardinality(active'[l]) <= maxConcurrent'[l]

CapRespected == [][StartsWithinCap]_queueVars

\* FIFO: while t waits in a lane, an entry that is behind t, or that is only
\* submitted later, neither starts nor gets in front of t.
Ahead(t, u) ==
    \E i, j \in 1 .. Len(queue[LaneOf[t]]) :
        i < j /\ queue[LaneOf[t]][i] = t /\ queue[LaneOf[t]][j] = u

NoOvertaking ==
    [][\A t, u \in Task :
            /\ LaneOf[t] = LaneOf[u] /\ t # u
            /\ phase[t] = "queued" /\ phase'[t] = "queued"
            /\ Ahead(t, u) \/ phase[u] = "new"
            => Ahead(t, u)' \/ phase'[u] \in {"new", "refused"}]_queueVars

\* An entry settles at most once: one that was cleared, refused or finished
\* never runs (again), across clears, resets and late completions.
SettledIsFinal ==
    [][\A t \in Task : phase[t] \in Settled => phase'[t] = phase[t]]_queueVars

\* waitForActiveTasks answers drained only when every task it snapshotted has
\* settled, unless the lanes were reset under it.
DrainedIsTrue ==
    waiter = "drained" =>
        \A t \in activeAtStart :
            phase[t] = "running" => taskGeneration[t] < generation[LaneOf[t]]

=============================================================================
