---------------------------- MODULE HeartbeatWake ----------------------------
(***************************************************************************)
(* The heartbeat wake scheduler, src/src/infra/heartbeat-wake.ts.            *)
(*                                                                          *)
(* requestHeartbeatNow files a wake under its target and arms one timer;    *)
(* when the timer fires, the pending wakes become a batch, and the handler  *)
(* is awaited for one wake of the batch after the other.  The only awaits   *)
(* are those calls, so everything between two of them is one action.        *)
(*                                                                          *)
(* Time is relative: a timer knows how long it has left, and Tick lets one  *)
(* unit (250 ms, the default coalescing) pass.  A timer may fire late.  A   *)
(* batch is kept as a set: which wake of it comes next is left open.        *)
(***************************************************************************)
EXTENDS Integers, FiniteSets, FiniteSetsExt

CONSTANTS
    Target,         \* the keys of pendingWakes
    Priority,       \* the priorities of reasons that occur
    Coalesce,       \* the values of coalesceMs that occur
    Requests,       \* the requests made: target, priority and coalesceMs
    Default,        \* DEFAULT_COALESCE_MS
    Retry,          \* DEFAULT_RETRY_MS
    MaxHandlers,    \* bound: handlers that are set
    MaxCallbacks    \* bound: timer callbacks that await a handler at once

\* REASON_PRIORITY of interval, default and action wakes.  Nobody requests a wake
\* with the reason "retry": it is what a wake without a reason is retried with.
ASSUME PriorityAssumption == Priority \subseteq 1 .. 3
ASSUME DelayAssumption ==
    /\ Coalesce \subseteq Nat
    /\ Requests \subseteq Target \X Priority \X Coalesce
    /\ Default \in Nat
    /\ Retry \in Nat \ {0}
ASSUME Bounds == MaxHandlers \in Nat /\ MaxCallbacks \in Nat

\* A priority, or 0 for no wake.
Wake == Priority \cup {0}
Delay == Coalesce \cup {Default, Retry}

VARIABLES
    handler,     \* the handler in place, 0 for null
    handlers,    \* handlers set so far: they are numbered from 1
    pending,     \* pendingWakes: the priority kept for each target
    timer,       \* timer, timerKind and timerDueAt, with the delay it was set to
    scheduled,   \* scheduled
    running,     \* running
    batch        \* the timer callbacks that await a handler

VARIABLES
    owed,        \* observed: strongest request a handler has not dealt with
    cool,        \* observed: time left of the cool-down of a wake to retry
    early,       \* observed: another timer was armed when that cool-down began
    late         \* observed: a batch of a former handler has ended meanwhile

wakeVars == <<handler, handlers, pending, timer, scheduled, running, batch>>
seen == <<owed, cool, early, late>>
vars == <<wakeVars, seen>>

NoTimer == [kind |-> "none", left |-> 0, delay |-> 0]
\* A callback: the handler it calls, the wakes it took, the
\* targets it has not dealt with, and the delay of its timer.
NoBatch == [of |-> 0, wakes |-> [t \in Target |-> 0], todo |-> {}, delay |-> 0]

Slot == 1 .. MaxCallbacks

TypeOK ==
    /\ handler \in 0 .. MaxHandlers
    /\ handlers \in 0 .. MaxHandlers
    /\ pending \in [Target -> Wake]
    /\ timer \in [kind : {"none", "normal", "retry"}, left : Nat, delay : Delay \cup {0}]
    /\ scheduled \in BOOLEAN /\ running \in BOOLEAN
    /\ batch \in [Slot -> [of : 0 .. MaxHandlers, wakes : [Target -> Wake],
                           todo : SUBSET Target, delay : Delay \cup {0}]]
    /\ owed \in [Target -> Wake]
    /\ cool \in 0 .. Retry
    /\ early \in BOOLEAN /\ late \in BOOLEAN

Init ==
    /\ handler = 0
    /\ handlers = 0
    /\ pending = [t \in Target |-> 0]
    /\ timer = NoTimer
    /\ scheduled = FALSE
    /\ running = FALSE
    /\ batch = [b \in Slot |-> NoBatch]
    /\ owed = [t \in Target |-> 0]
    /\ cool = 0
    /\ early = FALSE
    /\ late = FALSE

Idle(b) == batch[b].todo = {}

-----------------------------------------------------------------------------
Stronger(p, q) == IF p >= q THEN p ELSE q

\* queuePendingWakeReason: a weaker reason does not replace a stronger one.
File(wakes, t, p) == [wakes EXCEPT ![t] = Stronger(p, @)]

\* The wakes of batch b are filed again.
FileAll(wakes, b) == [t \in Target |-> Stronger(batch[b].wakes[t], wakes[t])]

Some(wakes) == \E t \in Target : wakes[t] # 0

\* Mutant: the retry timer gives way to an earlier one, as any other.
ScheduleAnyKind(armed, delay, kind) ==
    IF armed.kind # "none" /\ armed.left <= delay
    THEN armed
    ELSE [kind |-> kind, left |-> delay, delay |-> delay]

\* schedule: a retry timer stays, and so does a timer that is due no later.
Schedule(armed, delay, kind) ==
    IF armed.kind = "retry" \/ (armed.kind # "none" /\ armed.left <= delay)
    THEN armed
    ELSE [kind |-> kind, left |-> delay, delay |-> delay]

Tick ==
    /\ timer' = [timer EXCEPT !.left = IF @ > 0 THEN @ - 1 ELSE 0]
    /\ cool' = IF cool > 0 THEN cool - 1 ELSE 0
    /\ early' = (early /\ cool > 1)
    /\ UNCHANGED <<handler, handlers, pending, scheduled, running, batch,
                   owed, late>>

\* requestHeartbeatNow
Request(t, p, delay) ==
    /\ pending' = File(pending, t, p)
    /\ timer' = Schedule(timer, delay, "normal")
    /\ owed' = [owed EXCEPT ![t] = Stronger(p, @)]
    /\ UNCHANGED <<handler, handlers, scheduled, running, batch, cool, early, late>>

\* Bound: a handler comes while a callback is free.  A callback of the new one
\* beside those of the old is then all there can be.
RoomForOne == \E b \in Slot : Idle(b)

\* Mutant: the state of the former life is kept.
SetHandlerKeepsState ==
    /\ handlers < MaxHandlers
    /\ RoomForOne
    /\ handlers' = handlers + 1
    /\ handler' = handlers + 1
    /\ timer' = IF Some(pending) THEN Schedule(timer, Default, "normal") ELSE timer
    /\ cool' = 0
    /\ early' = FALSE
    /\ late' = FALSE
    /\ UNCHANGED <<pending, scheduled, running, batch, owed>>

\* setHeartbeatWakeHandler with a handler, by a runner that starts.
SetHandler ==
    /\ handlers < MaxHandlers
    /\ RoomForOne
    /\ handlers' = handlers + 1
    /\ handler' = handlers + 1
    /\ timer' = IF Some(pending) THEN Schedule(NoTimer, Default, "normal") ELSE NoTimer
    /\ running' = FALSE
    /\ scheduled' = FALSE
    /\ cool' = 0
    /\ early' = FALSE
    /\ late' = FALSE
    /\ UNCHANGED <<pending, batch, owed>>

\* The disposer of the handler in place.  handlerGeneration makes that of any
\* other handler return early: a number stands for it, never given out again.
Dispose ==
    /\ handler # 0
    /\ handler' = 0
    /\ UNCHANGED <<handlers, pending, timer, scheduled, running, batch, seen>>

-----------------------------------------------------------------------------
\* The timer callback.

Due == timer.kind # "none" /\ timer.left = 0

\* Mutant: a callback does not look whether another one runs.
MayRunBeside == TRUE

MayRun == ~running

\* There is no handler: the wakes stay, and wait for one.
FireUnheard ==
    /\ Due
    /\ handler = 0
    /\ timer' = NoTimer
    /\ scheduled' = FALSE
    /\ UNCHANGED <<handler, handlers, pending, running, batch, seen>>

\* Mutant: a callback that finds another one running goes away.
FireBusyDropped ==
    /\ Due
    /\ handler # 0
    /\ running
    /\ scheduled' = TRUE
    /\ timer' = NoTimer
    /\ UNCHANGED <<handler, handlers, pending, running, batch, seen>>

FireBusy ==
    /\ Due
    /\ handler # 0
    /\ running
    /\ scheduled' = TRUE
    /\ timer' = [timer EXCEPT !.left = timer.delay]
    /\ UNCHANGED <<handler, handlers, pending, running, batch, seen>>

\* A callback takes all pending wakes and calls the handler for the first.  There
\* is one: a timer is armed only while wakes are pending.
Fire(b) ==
    /\ Due
    /\ handler # 0
    /\ MayRun
    /\ Some(pending)
    /\ Idle(b)
    /\ batch' = [batch EXCEPT ![b] =
          [of |-> handler, wakes |-> pending, delay |-> timer.delay,
           todo |-> {t \in Target : pending[t] # 0}]]
    /\ pending' = [t \in Target |-> 0]
    /\ running' = TRUE
    /\ timer' = NoTimer
    /\ scheduled' = FALSE
    /\ UNCHANGED <<handler, handlers, seen>>

-----------------------------------------------------------------------------
\* The answers of the handler.

\* The finally block of callback b, with these wakes pending and this timer
\* armed.  It does not ask whether its handler is still the one in place.
Finally(b, wakes, armed) ==
    /\ batch' = [batch EXCEPT ![b] = NoBatch]
    /\ running' = FALSE
    /\ timer' = IF Some(wakes) \/ scheduled
                THEN Schedule(armed, batch[b].delay, "normal")
                ELSE armed
    /\ late' = (late \/ batch[b].of # handler)

\* The next wake of the batch, or its end.
Advance(b, t, wakes, armed) ==
    \/ /\ batch[b].todo # {t}
       /\ batch' = [batch EXCEPT ![b].todo = @ \ {t}]
       /\ timer' = armed
       /\ UNCHANGED <<running, late>>
    \/ /\ batch[b].todo = {t}
       /\ Finally(b, wakes, armed)

\* The strongest wake of a target that is pending or in another callback.
Rest(b, t) ==
    Max({pending[t]} \cup {batch[c].wakes[t] : c \in {d \in Slot \ {b} : t \in batch[d].todo}})

\* The wake ran, failed, or was skipped for good.
Answered(b, t) ==
    /\ t \in batch[b].todo
    /\ Advance(b, t, pending, timer)
    /\ owed' = [owed EXCEPT ![t] = Rest(b, t)]
    /\ UNCHANGED <<handler, handlers, pending, scheduled, cool, early>>

\* A cool-down begins, unless the timer of an earlier one is armed.
CoolDown ==
    IF timer.kind = "retry"
    THEN UNCHANGED <<cool, early>>
    ELSE cool' = Retry /\ early' = (timer.kind # "none")

\* "requests-in-flight": the wake is filed again, for a retry.
Busy(b, t) ==
    /\ t \in batch[b].todo
    /\ pending' = File(pending, t, batch[b].wakes[t])
    /\ Advance(b, t, pending', Schedule(timer, Retry, "retry"))
    /\ CoolDown
    /\ UNCHANGED <<handler, handlers, scheduled, owed>>

\* Mutant: only the wake that failed is filed again.
ThrowsFilesOne(b, t) ==
    /\ t \in batch[b].todo
    /\ pending' = File(pending, t, batch[b].wakes[t])
    /\ Finally(b, pending', Schedule(timer, Retry, "retry"))
    /\ CoolDown
    /\ UNCHANGED <<handler, handlers, scheduled, owed>>

\* The handler throws: the whole batch is filed again.
Throws(b, t) ==
    /\ t \in batch[b].todo
    /\ pending' = FileAll(pending, b)
    /\ Finally(b, pending', Schedule(timer, Retry, "retry"))
    /\ CoolDown
    /\ UNCHANGED <<handler, handlers, scheduled, owed>>

HandlerReturns(b) == \E t \in Target : Answered(b, t) \/ Busy(b, t) \/ Throws(b, t)

\* A free slot stands for a fresh callback.
FirstIdle(b) == Idle(b) /\ \A c \in Slot : Idle(c) => b <= c

TimerFires ==
    \/ FireUnheard
    \/ FireBusy
    \/ \E b \in Slot : FirstIdle(b) /\ Fire(b)

Next ==
    \/ Tick
    \/ \E r \in Requests : Request(r[1], r[2], r[3])
    \/ SetHandler
    \/ Dispose
    \/ TimerFires
    \/ \E b \in Slot : HandlerReturns(b)

Spec == Init /\ [][Next]_vars

\* Time passes and timers fire.  The handler in place answers in the end, its
\* agent runs have a timeout; one of a former life need not.
Fairness ==
    /\ WF_vars(Tick)
    /\ WF_vars(TimerFires)
    /\ \A b \in Slot : WF_vars(batch[b].of = handler /\ HandlerReturns(b))

FairSpec == Spec /\ Fairness

-----------------------------------------------------------------------------
(***************************************************************************)
(* Correctness.                                                             *)
(***************************************************************************)

\* While there is a handler, pending wakes have a timer: neither a callback
\* that finds another one running, nor a disposed and replaced handler, nor a
\* timer that fired unheard leaves them behind (heartbeat-wake.ts:119-235).
WakeArmed == handler # 0 /\ Some(pending) => timer.kind # "none"

\* A request is neither lost nor weakened by coalescing, by busy answers, by
\* the failure of another wake of its batch, or by a change of the handler: it
\* is pending, or in a callback that has not dealt with it, with a reason at
\* least as strong.
WakeKept ==
    \A t \in Target :
        \/ pending[t] >= owed[t]
        \/ \E b \in Slot : t \in batch[b].todo /\ batch[b].wakes[t] >= owed[t]

\* A handler is not called for two batches at once, unless a batch of a former
\* handler has ended after it was replaced (heartbeat-wake.ts:187 then resets
\* `running`, which by now belongs to the handler in place).
OneBatch ==
    \A b, c \in Slot :
        /\ handler # 0 /\ b # c
        /\ ~Idle(b) /\ ~Idle(c)
        /\ batch[b].of = handler /\ batch[c].of = handler
        => late

BatchStarts(b) == Idle(b) /\ batch'[b].todo # {}

\* "Keep retry cooldown as a hard minimum delay" (heartbeat-wake.ts:123): no
\* batch starts before the cool-down of a busy handler is over, unless another
\* timer was already armed when it began.
CooldownKept == [][\A b \in Slot : BatchStarts(b) => cool = 0 \/ early]_vars

\* Every wake reaches a handler while there is one, whatever requests, busy
\* answers and failures come in between.
WakeDelivered == \A t \in Target : pending[t] # 0 ~> pending[t] = 0 \/ handler = 0
=============================================================================
