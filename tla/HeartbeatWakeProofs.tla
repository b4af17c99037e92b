------------------------- MODULE HeartbeatWakeProofs -------------------------
(***************************************************************************)
(* Proofs about HeartbeatWake, for any targets, delays, handlers and number *)
(* of callbacks.                                                            *)
(*                                                                          *)
(* WakeArmed and WakeKept are inductive with the types.  OneBatch needs to  *)
(* know that `running` is set while a batch of the handler in place is open,*)
(* and that a new handler has a number no batch has.  CooldownKept needs    *)
(* that the timer of the cool-down is the one armed, with no less time left *)
(* than the cool-down has.                                                  *)
(***************************************************************************)
EXTENDS HeartbeatWake, TLAPS

\* A batch is called by a handler that was set.
Numbered ==
    /\ handler <= handlers
    /\ \A b \in Slot : batch[b].of <= handlers

\* `running` is set while a batch of the handler in place is open.
RunningKnown ==
    \A b \in Slot :
        handler # 0 /\ ~Idle(b) /\ batch[b].of = handler => (running \/ late)

\* The armed timer is that of the cool-down, and ends no sooner.
CoolArmed == cool > 0 /\ ~early => timer.kind = "retry" /\ timer.left >= cool

WakeInv ==
    /\ TypeOK /\ WakeArmed /\ WakeKept
    /\ Numbered /\ RunningKnown /\ OneBatch /\ CoolArmed

-----------------------------------------------------------------------------
(* Operators *)

Timers == [kind : {"none", "normal", "retry"}, left : Nat, delay : Delay \cup {0}]
Batches == [of : 0 .. MaxHandlers, wakes : [Target -> Wake], todo : SUBSET Target,
            delay : Delay \cup {0}]

LEMMA ConstantTypes ==
  /\ Wake \subseteq Nat /\ 0 \in Wake
  /\ Delay \subseteq Nat /\ Default \in Delay /\ Retry \in Delay
  /\ Retry \in Nat /\ Retry > 0
  BY PriorityAssumption, DelayAssumption DEF Wake, Delay

LEMMA NoTimerTyped == NoTimer \in Timers
  BY DEF NoTimer, Timers

LEMMA NoBatchTyped == NoBatch \in Batches
  BY Bounds, ConstantTypes DEF NoBatch, Batches

LEMMA StrongerOfTwo ==
  ASSUME NEW p \in Wake, NEW q \in Wake
  PROVE  Stronger(p, q) \in Wake /\ Stronger(p, q) >= p /\ Stronger(p, q) >= q
  BY ConstantTypes DEF Stronger

\* What schedule leaves armed: a timer, and the retry timer if there was one.
LEMMA ScheduleArms ==
  ASSUME NEW armed \in Timers, NEW d \in Delay \cup {0}, NEW k \in {"normal", "retry"}
  PROVE  /\ Schedule(armed, d, k) \in Timers
         /\ Schedule(armed, d, k).kind # "none"
         /\ armed.kind = "retry" => Schedule(armed, d, k) = armed
         /\ armed.kind = "none" => Schedule(armed, d, k) = [kind |-> k, left |-> d, delay |-> d]
  <1>1. d \in Nat
    BY ConstantTypes
  <1>2. [kind |-> k, left |-> d, delay |-> d] \in Timers
    BY <1>1 DEF Timers
  <1> QED
    BY <1>2 DEF Schedule, Timers

\* The strongest of several wakes is one of them.
LEMMA StrongestIsOne ==
  ASSUME NEW S \in SUBSET Wake, S # {}
  PROVE  Max(S) \in S
  <1>1. \A x \in S : x = 0 \/ x = 1 \/ x = 2 \/ x = 3
    BY PriorityAssumption DEF Wake
  <1>2. \E x \in S : \A y \in S : x >= y
    <2>1. CASE 3 \in S
      BY <1>1, <2>1
    <2>2. CASE 3 \notin S /\ 2 \in S
      BY <1>1, <2>2
    <2>3. CASE 3 \notin S /\ 2 \notin S /\ 1 \in S
      BY <1>1, <2>3
    <2>4. CASE 3 \notin S /\ 2 \notin S /\ 1 \notin S
      BY <1>1, <2>4
    <2> QED
      BY <2>1, <2>2, <2>3, <2>4
  <1> QED
    BY <1>2 DEF Max

-----------------------------------------------------------------------------
(* Types *)

LEMMA TypesSuffice ==
  ASSUME handler' \in 0 .. MaxHandlers, handlers' \in 0 .. MaxHandlers,
         pending' \in [Target -> Wake], timer' \in Timers,
         scheduled' \in BOOLEAN, running' \in BOOLEAN,
         batch' \in [Slot -> Batches], owed' \in [Target -> Wake],
         cool' \in 0 .. Retry, early' \in BOOLEAN, late' \in BOOLEAN
  PROVE  TypeOK'
  BY DEF TypeOK, Timers, Batches

LEMMA TypesOpen ==
  ASSUME TypeOK
  PROVE  timer \in Timers /\ batch \in [Slot -> Batches]
  BY DEF TypeOK, Timers, Batches

LEMMA FiledTypes ==
  ASSUME TypeOK, NEW b \in Slot, NEW t \in Target, NEW p \in Wake
  PROVE  /\ File(pending, t, p) \in [Target -> Wake]
         /\ FileAll(pending, b) \in [Target -> Wake]
         /\ batch[b].wakes[t] \in Wake
  <1>1. batch[b].wakes \in [Target -> Wake] /\ pending \in [Target -> Wake]
    BY TypesOpen DEF TypeOK, Batches
  <1> QED
    BY <1>1, StrongerOfTwo DEF File, FileAll

LEMMA RestTyped ==
  ASSUME TypeOK, NEW b \in Slot, NEW t \in Target
  PROVE  /\ Rest(b, t) \in Wake
         /\ \/ Rest(b, t) = pending[t]
            \/ \E c \in Slot \ {b} : t \in batch[c].todo /\ Rest(b, t) = batch[c].wakes[t]
  <1> DEFINE S == {pending[t]} \cup {batch[c].wakes[t] : c \in {d \in Slot \ {b} : t \in batch[d].todo}}
  <1>1. S \in SUBSET Wake /\ S # {}
    BY FiledTypes, ConstantTypes DEF TypeOK
  <1>2. Max(S) \in S
    BY <1>1, StrongestIsOne
  <1> QED
    BY <1>1, <1>2 DEF Rest

\* What the end of an answer does to the timer, the batch and `running`.
LEMMA AdvanceTypes ==
  ASSUME TypeOK, NEW b \in Slot, NEW t \in Target, NEW armed \in Timers,
         NEW wakes \in [Target -> Wake], Advance(b, t, wakes, armed) \/ Finally(b, wakes, armed)
  PROVE  /\ timer' \in Timers /\ running' \in BOOLEAN /\ late' \in BOOLEAN
         /\ batch' \in [Slot -> Batches]
         /\ \A c \in Slot : c # b => batch'[c] = batch[c]
         /\ timer' = armed \/ timer' = Schedule(armed, batch[b].delay, "normal")
  <1>1. batch[b] \in Batches /\ batch[b].delay \in Delay \cup {0}
    BY TypesOpen DEF Batches
  <1>2. Schedule(armed, batch[b].delay, "normal") \in Timers
    BY <1>1, ScheduleArms
  <1>3. CASE Finally(b, wakes, armed)
    <2>1. timer' = armed \/ timer' = Schedule(armed, batch[b].delay, "normal")
      BY <1>3, Zenon DEF Finally
    <2>2. batch' = [batch EXCEPT ![b] = NoBatch] /\ running' \in BOOLEAN /\ late' \in BOOLEAN
      BY <1>3, Zenon DEF Finally
    <2> QED
      BY <1>2, <2>1, <2>2, TypesOpen, NoBatchTyped
  <1>4. CASE batch' = [batch EXCEPT ![b].todo = @ \ {t}] /\ timer' = armed /\ UNCHANGED <<running, late>>
    <2>1. [batch[b] EXCEPT !.todo = @ \ {t}] \in Batches
      BY <1>1 DEF Batches
    <2>2. batch' = [batch EXCEPT ![b] = [batch[b] EXCEPT !.todo = @ \ {t}]]
      BY <1>4
    <2> QED
      BY <1>4, <2>1, <2>2, TypesOpen DEF TypeOK
  <1> QED
    BY <1>3, <1>4 DEF Advance

LEMMA WakeTypes == TypeOK /\ [Next]_vars => TypeOK'
  <1> SUFFICES ASSUME TypeOK, [Next]_vars PROVE TypeOK'
    OBVIOUS
  <1>0. timer \in Timers /\ batch \in [Slot -> Batches]
    BY TypesOpen
  <1> USE ConstantTypes
  <1>1. CASE Tick
    <2>1. timer' \in Timers
      BY <1>0, <1>1 DEF Tick, Timers
    <2>2. early' \in BOOLEAN
      BY <1>1, Zenon DEF Tick
    <2>3. cool' \in 0 .. Retry
      BY <1>1 DEF Tick, TypeOK
    <2> QED
      BY <1>0, <1>1, <2>1, <2>2, <2>3, TypesSuffice DEF Tick, TypeOK
  <1>2. ASSUME NEW r \in Requests, Request(r[1], r[2], r[3]) PROVE TypeOK'
    <2>1. r[1] \in Target /\ r[2] \in Wake /\ r[3] \in Delay
      BY DelayAssumption DEF Wake, Delay
    <2>2. timer' \in Timers
      BY <1>0, <1>2, <2>1, ScheduleArms DEF Request
    <2>3. pending' \in [Target -> Wake] /\ owed' \in [Target -> Wake]
      BY <1>2, <2>1, StrongerOfTwo DEF Request, File, TypeOK
    <2> QED
      BY <1>0, <1>2, <2>2, <2>3, TypesSuffice DEF Request, TypeOK
  <1>3. CASE SetHandler
    <2>1. timer' \in Timers
      BY <1>3, NoTimerTyped, ScheduleArms DEF SetHandler
    <2>2. handlers' \in 0 .. MaxHandlers /\ handler' \in 0 .. MaxHandlers
      BY <1>3, Bounds DEF SetHandler, TypeOK
    <2>3. running' \in BOOLEAN /\ scheduled' \in BOOLEAN /\ early' \in BOOLEAN /\ late' \in BOOLEAN
      BY <1>3, Zenon DEF SetHandler
    <2>4. cool' \in 0 .. Retry
      BY <1>3 DEF SetHandler
    <2> QED
      BY <1>0, <1>3, <2>1, <2>2, <2>3, <2>4, TypesSuffice DEF SetHandler, TypeOK
  <1>4. CASE Dispose
    <2>1. handler' \in 0 .. MaxHandlers
      BY <1>4, Bounds DEF Dispose
    <2> QED
      BY <1>0, <1>4, <2>1, TypesSuffice DEF Dispose, seen, TypeOK
  <1>5. CASE FireUnheard
    <2>1. timer' \in Timers /\ scheduled' \in BOOLEAN
      BY <1>5, NoTimerTyped DEF FireUnheard
    <2> QED
      BY <1>0, <1>5, <2>1, TypesSuffice DEF FireUnheard, seen, TypeOK
  <1>6. CASE FireBusy
    <2>1. timer' \in Timers
      BY <1>0, <1>6 DEF FireBusy, Timers
    <2>2. scheduled' \in BOOLEAN
      BY <1>6, Zenon DEF FireBusy
    <2> QED
      BY <1>0, <1>6, <2>1, <2>2, TypesSuffice DEF FireBusy, seen, TypeOK
  <1>7. ASSUME NEW b \in Slot, Fire(b) PROVE TypeOK'
    <2> DEFINE new == [of |-> handler, wakes |-> pending, delay |-> timer.delay,
                       todo |-> {t \in Target : pending[t] # 0}]
    <2>1. new \in Batches
      BY <1>0 DEF TypeOK, Batches, Timers
    <2>2. batch' \in [Slot -> Batches]
      BY <1>0, <1>7, <2>1 DEF Fire
    <2>3. timer' \in Timers /\ pending' \in [Target -> Wake]
      BY <1>7, NoTimerTyped DEF Fire
    <2>4. running' \in BOOLEAN /\ scheduled' \in BOOLEAN
      BY <1>7, Zenon DEF Fire
    <2> QED
      BY <1>7, <2>2, <2>3, <2>4, TypesSuffice DEF Fire, seen, TypeOK
  <1>8. ASSUME NEW b \in Slot, NEW t \in Target, Answered(b, t) PROVE TypeOK'
    <2>1. /\ timer' \in Timers /\ running' \in BOOLEAN /\ late' \in BOOLEAN
          /\ batch' \in [Slot -> Batches]
      BY <1>0, <1>8, AdvanceTypes DEF Answered, TypeOK
    <2>2. owed' \in [Target -> Wake]
      BY <1>8, RestTyped DEF Answered, TypeOK
    <2> QED
      BY <1>8, <2>1, <2>2, TypesSuffice DEF Answered, TypeOK
  <1>9. ASSUME CoolDown PROVE cool' \in 0 .. Retry /\ early' \in BOOLEAN
    <2>1. CASE timer.kind = "retry"
      BY <1>9, <2>1 DEF CoolDown, TypeOK
    <2>2. CASE timer.kind # "retry"
      <3>1. cool' = Retry
        BY <1>9, <2>2 DEF CoolDown
      <3>2. early' \in BOOLEAN
        BY <1>9, <2>2, Zenon DEF CoolDown
      <3> QED
        BY <3>1, <3>2
    <2> QED
      BY <2>1, <2>2
  <1>10. Schedule(timer, Retry, "retry") \in Timers
    BY <1>0, ScheduleArms
  <1>11. ASSUME NEW b \in Slot, NEW t \in Target, Busy(b, t) \/ Throws(b, t) PROVE TypeOK'
    <2>1. pending' \in [Target -> Wake]
      BY <1>11, FiledTypes DEF Busy, Throws
    <2>2. /\ timer' \in Timers /\ running' \in BOOLEAN /\ late' \in BOOLEAN
          /\ batch' \in [Slot -> Batches]
      BY <1>10, <1>11, <2>1, AdvanceTypes DEF Busy, Throws
    <2>3. cool' \in 0 .. Retry /\ early' \in BOOLEAN
      BY <1>9, <1>11 DEF Busy, Throws
    <2> QED
      BY <1>11, <2>1, <2>2, <2>3, TypesSuffice DEF Busy, Throws, TypeOK
  <1>12. CASE UNCHANGED vars
    BY <1>0, <1>12, TypesSuffice DEF vars, wakeVars, seen, TypeOK
  <1> QED
    BY <1>1, <1>2, <1>3, <1>4, <1>5, <1>6, <1>7, <1>8, <1>11, <1>12
       DEF Next, TimerFires, HandlerReturns

-----------------------------------------------------------------------------
(* Steps *)

\* Only the callback that is given a batch has more to do than before.
LEMMA TodoShrinks ==
  ASSUME TypeOK, NEW b \in Slot, NEW t \in Target, t \in batch[b].todo,
         NEW armed \in Timers, NEW wakes \in [Target -> Wake],
         Advance(b, t, wakes, armed)
  PROVE  /\ batch'[b].todo = batch[b].todo \ {t}
         /\ batch'[b].todo # {} => batch'[b].wakes = batch[b].wakes
                                  /\ batch'[b].of = batch[b].of
                                  /\ running' = running /\ late' = late /\ timer' = armed
         /\ batch'[b].todo = {} => Finally(b, wakes, armed)
         /\ batch'[b].of <= batch[b].of
  <1>1. b \in DOMAIN batch /\ batch[b] \in Batches
    BY TypesOpen
  <1>2. CASE batch[b].todo = {t} /\ Finally(b, wakes, armed)
    <2>1. batch'[b] = NoBatch
      BY <1>1, <1>2 DEF Finally
    <2>2. NoBatch.todo = {} /\ NoBatch.of = 0
      BY DEF NoBatch
    <2> QED
      BY <1>1, <1>2, <2>1, <2>2 DEF Batches
  <1>3. CASE /\ batch[b].todo # {t} /\ batch' = [batch EXCEPT ![b].todo = @ \ {t}]
             /\ timer' = armed /\ UNCHANGED <<running, late>>
    <2>1. batch'[b] = [batch[b] EXCEPT !.todo = @ \ {t}]
      BY <1>1, <1>3
    <2>2. batch'[b].todo = batch[b].todo \ {t} /\ batch'[b].wakes = batch[b].wakes /\ batch'[b].of = batch[b].of
      BY <1>1, <2>1 DEF Batches
    <2>3. batch[b].todo \ {t} # {}
      BY <1>3
    <2>4. batch[b].of \in Nat
      BY <1>1 DEF Batches
    <2> QED
      BY <1>3, <2>2, <2>3, <2>4
  <1> QED
    BY <1>2, <1>3 DEF Advance

\* The end of callback b, whichever way.
LEMMA FinallyEffect ==
  ASSUME TypeOK, NEW b \in Slot, NEW armed \in Timers, NEW wakes \in [Target -> Wake],
         Finally(b, wakes, armed)
  PROVE  /\ batch'[b].todo = {} /\ batch'[b].of = 0
         /\ \A c \in Slot : c # b => batch'[c] = batch[c]
         /\ batch[b].of # handler => late'
         /\ late => late'
         /\ Some(wakes) => timer' = Schedule(armed, batch[b].delay, "normal")
  <1>1. batch' = [batch EXCEPT ![b] = NoBatch] /\ late' = (late \/ batch[b].of # handler)
    BY Zenon DEF Finally
  <1>2. batch'[b] = NoBatch /\ \A c \in Slot : c # b => batch'[c] = batch[c]
    BY <1>1, TypesOpen
  <1>3. (batch[b].of # handler => late') /\ (late => late')
    BY <1>1, Zenon
  <1>4. Some(wakes) => timer' = Schedule(armed, batch[b].delay, "normal")
    BY DEF Finally
  <1> QED
    BY <1>2, <1>3, <1>4 DEF NoBatch

\* The answers of a handler, as the invariant sees them.
Answer(b, t, wakes, armed) ==
    /\ t \in batch[b].todo
    /\ Advance(b, t, wakes, armed) \/ Finally(b, wakes, armed)
    /\ UNCHANGED <<handler, handlers>>

\* A batch that ends, or goes on, keeps what is known about batches.
LEMMA AnswerKeepsBatches ==
  ASSUME WakeInv, NEW b \in Slot, NEW t \in Target, NEW armed \in Timers,
         NEW wakes \in [Target -> Wake], Answer(b, t, wakes, armed)
  PROVE  Numbered' /\ RunningKnown' /\ OneBatch'
  <1>0. TypeOK /\ batch \in [Slot -> Batches] /\ handler \in Nat /\ handlers \in Nat
    BY TypesOpen DEF WakeInv, TypeOK
  <1>1. \A c \in Slot : batch[c].of \in Nat /\ batch[c].of <= handlers
    BY <1>0 DEF WakeInv, Numbered, Batches
  <1>2. handler' = handler /\ handlers' = handlers /\ ~Idle(b)
    BY DEF Answer, Idle
  <1>3. \A c \in Slot : c # b => batch'[c] = batch[c]
    BY <1>0, AdvanceTypes DEF Answer
  <1>4. CASE Finally(b, wakes, armed)
    <2>1. batch'[b].todo = {} /\ batch'[b].of = 0 /\ (late => late') /\ (batch[b].of # handler => late')
      BY <1>0, <1>4, FinallyEffect
    <2>2. Numbered'
      BY <1>0, <1>1, <1>2, <1>3, <2>1 DEF WakeInv, Numbered
    <2>3. ASSUME NEW c \in Slot, handler # 0, ~Idle(c)', batch'[c].of = handler
          PROVE  late'
      <3>1. c # b
        BY <2>1, <2>3 DEF Idle
      <3>2. ~Idle(c) /\ batch[c].of = handler
        BY <1>3, <2>3, <3>1 DEF Idle
      <3>3. CASE batch[b].of # handler
        BY <2>1, <3>3
      <3>4. CASE batch[b].of = handler
        BY <1>2, <2>1, <2>3, <3>1, <3>2, <3>4 DEF WakeInv, OneBatch
      <3> QED
        BY <3>3, <3>4
    <2>4. RunningKnown' /\ OneBatch'
      BY <1>2, <2>3, Zenon DEF RunningKnown, OneBatch
    <2> QED
      BY <2>2, <2>4
  <1>5. CASE ~Finally(b, wakes, armed)
    <2>1. Advance(b, t, wakes, armed) /\ t \in batch[b].todo
      BY <1>5 DEF Answer
    <2>2. batch'[b].todo # {}
      BY <1>0, <1>5, <2>1, TodoShrinks
    <2>3. batch'[b].of = batch[b].of /\ running' = running /\ late' = late
      BY <1>0, <2>1, <2>2, TodoShrinks
    <2>4. Numbered'
      BY <1>0, <1>1, <1>2, <1>3, <2>3 DEF WakeInv, Numbered
    <2>5. \A c \in Slot : (~Idle(c)' => ~Idle(c)) /\ batch'[c].of = batch[c].of
      BY <1>2, <1>3, <2>3 DEF Idle
    <2>6. RunningKnown'
      BY <1>2, <2>3, <2>5, Zenon DEF WakeInv, RunningKnown
    <2>7. OneBatch'
      BY <1>2, <2>3, <2>5, Zenon DEF WakeInv, OneBatch
    <2> QED
      BY <2>4, <2>6, <2>7
  <1> QED
    BY <1>4, <1>5

\* What an answer leaves armed keeps the timer of the cool-down.
LEMMA AnswerTimer ==
  ASSUME TypeOK, NEW b \in Slot, NEW t \in Target, NEW armed \in Timers,
         NEW wakes \in [Target -> Wake], Answer(b, t, wakes, armed)
  PROVE  /\ armed.kind # "none" => timer'.kind # "none"
         /\ armed.kind = "retry" => timer' = armed
  <1>1. batch[b].delay \in Delay \cup {0}
    BY TypesOpen DEF Batches
  <1>2. timer' = armed \/ timer' = Schedule(armed, batch[b].delay, "normal")
    BY AdvanceTypes DEF Answer
  <1> QED
    BY <1>1, <1>2, ScheduleArms

\* The three answers, with the wakes they leave pending and the timer they arm.
LEMMA AnswersAre ==
  ASSUME TypeOK, NEW b \in Slot, NEW t \in Target,
         Answered(b, t) \/ Busy(b, t) \/ Throws(b, t)
  PROVE  \E armed \in Timers :
            /\ pending' \in [Target -> Wake]
            /\ Answer(b, t, pending', armed)
            /\ \/ armed = timer /\ pending' = pending /\ UNCHANGED <<cool, early>>
               \/ armed = Schedule(timer, Retry, "retry") /\ CoolDown
  <1>1. timer \in Timers /\ pending \in [Target -> Wake] /\ Schedule(timer, Retry, "retry") \in Timers
    BY TypesOpen, ScheduleArms, ConstantTypes DEF TypeOK
  <1>2. CASE Answered(b, t)
    BY <1>1, <1>2 DEF Answered, Answer
  <1>3. CASE Busy(b, t) \/ Throws(b, t)
    <2>1. pending' = File(pending, t, batch[b].wakes[t]) \/ pending' = FileAll(pending, b)
      BY <1>3 DEF Busy, Throws
    <2>3. batch[b].wakes[t] \in Wake
      BY FiledTypes, ConstantTypes
    <2>4. pending' \in [Target -> Wake]
      BY <2>1, <2>3, FiledTypes
    <2>2. Answer(b, t, pending', Schedule(timer, Retry, "retry")) /\ CoolDown
      BY <1>3 DEF Busy, Throws, Answer
    <2> QED
      BY <1>1, <2>2, <2>4
  <1> QED
    BY <1>2, <1>3

LEMMA ArmedStep == WakeInv /\ [Next]_vars => WakeArmed'
  <1> SUFFICES ASSUME WakeInv, [Next]_vars PROVE WakeArmed'
    OBVIOUS
  <1>0. /\ TypeOK /\ TypeOK' /\ timer \in Timers /\ pending \in [Target -> Wake]
        /\ handler # 0 /\ Some(pending) => timer.kind # "none"
    BY WakeTypes, TypesOpen DEF WakeInv, TypeOK, WakeArmed
  <1> USE DEF WakeArmed
  <1>1. CASE Tick
    BY <1>0, <1>1 DEF Tick, Timers, Some
  <1>2. ASSUME NEW r \in Requests, Request(r[1], r[2], r[3]) PROVE WakeArmed'
    <2>1. r[3] \in Delay
      BY DelayAssumption DEF Delay
    <2> QED
      BY <1>0, <1>2, <2>1, ScheduleArms DEF Request
  <1>3. CASE SetHandler
    <2>1. Some(pending)' <=> Some(pending)
      BY <1>3 DEF SetHandler, Some
    <2>2. Schedule(NoTimer, Default, "normal").kind # "none"
      BY NoTimerTyped, ScheduleArms, ConstantTypes
    <2> QED
      BY <1>3, <2>1, <2>2 DEF SetHandler
  <1>4. CASE Dispose \/ FireUnheard
    BY <1>4 DEF Dispose, FireUnheard
  <1>5. CASE FireBusy
    BY <1>0, <1>5 DEF FireBusy, Due, Timers
  <1>6. ASSUME NEW b \in Slot, Fire(b) PROVE WakeArmed'
    BY <1>6 DEF Fire, Some
  <1>7. ASSUME NEW b \in Slot, HandlerReturns(b) PROVE WakeArmed'
    <2>1. PICK t \in Target : Answered(b, t) \/ Busy(b, t) \/ Throws(b, t)
      BY <1>7 DEF HandlerReturns
    <2>2. PICK armed \in Timers :
            /\ pending' \in [Target -> Wake]
            /\ Answer(b, t, pending', armed)
            /\ \/ armed = timer /\ pending' = pending
               \/ armed = Schedule(timer, Retry, "retry")
      BY <1>0, <2>1, AnswersAre
    <2>3. handler' = handler
      BY <2>2 DEF Answer
    <2>4. Some(pending') => Some(pending)'
      BY DEF Some
    <2>5. CASE armed = Schedule(timer, Retry, "retry")
      <3>1. armed.kind # "none"
        BY <1>0, <2>5, ScheduleArms, ConstantTypes
      <3> QED
        BY <1>0, <2>2, <3>1, AnswerTimer
    <2>6. CASE armed = timer /\ pending' = pending
      <3>1. Some(pending)' => Some(pending)
        BY <2>6 DEF Some
      <3>2. handler' # 0 /\ Some(pending)' => armed.kind # "none"
        BY <1>0, <2>3, <2>6, <3>1
      <3>3. armed.kind # "none" => timer'.kind # "none"
        BY <1>0, <2>2, AnswerTimer
      <3> QED
        BY <3>2, <3>3
    <2> QED
      BY <2>2, <2>5, <2>6
  <1>8. CASE UNCHANGED vars
    BY <1>0, <1>8 DEF vars, wakeVars, Some
  <1> QED
    BY <1>1, <1>2, <1>3, <1>4, <1>5, <1>6, <1>7, <1>8 DEF Next, TimerFires

LEMMA CoolStep == WakeInv /\ [Next]_vars => CoolArmed'
  <1> SUFFICES ASSUME WakeInv, [Next]_vars, cool' > 0, ~early' PROVE timer'.kind = "retry" /\ timer'.left >= cool'
    BY DEF CoolArmed
  <1>0. TypeOK /\ timer \in Timers /\ cool \in Nat /\ timer.left \in Nat
    BY TypesOpen DEF WakeInv, TypeOK, Timers
  <1>a. ASSUME cool > 0, ~early PROVE timer.kind = "retry" /\ timer.left >= cool
    BY <1>a DEF WakeInv, CoolArmed
  <1>1. CASE Tick
    <2>1. cool > 1 /\ cool' = cool - 1
      BY <1>0, <1>1 DEF Tick
    <2>2. ~early
      BY <1>1, <2>1, Zenon DEF Tick
    <2>3. timer.kind = "retry" /\ timer.left >= cool
      BY <1>0, <1>a, <2>1, <2>2
    <2>4. timer'.kind = timer.kind /\ timer'.left = timer.left - 1
      BY <1>0, <1>1, <2>1, <2>3 DEF Tick, Timers
    <2> QED
      BY <1>0, <2>1, <2>3, <2>4
  <1>2. ASSUME NEW r \in Requests, Request(r[1], r[2], r[3]) PROVE timer'.kind = "retry" /\ timer'.left >= cool'
    <2>1. r[3] \in Delay
      BY DelayAssumption DEF Delay
    <2>2. cool' = cool /\ early' = early
      BY <1>2 DEF Request
    <2>3. timer.kind = "retry" /\ timer.left >= cool
      BY <1>a, <2>2
    <2>4. timer' = timer
      BY <1>0, <1>2, <2>1, <2>3, ScheduleArms DEF Request
    <2> QED
      BY <2>2, <2>3, <2>4
  <1>3. CASE SetHandler
    BY <1>3 DEF SetHandler
  <1>4. CASE Dispose \/ UNCHANGED vars
    BY <1>a, <1>4 DEF Dispose, seen, vars, wakeVars
  <1>5. CASE TimerFires
    <2>1. Due /\ cool' = cool /\ early' = early
      BY <1>5 DEF TimerFires, FireUnheard, FireBusy, Fire, seen
    <2>2. timer.left >= cool /\ timer.left = 0
      BY <1>a, <2>1 DEF Due
    <2> QED
      BY <1>0, <2>1, <2>2
  <1>6. ASSUME NEW b \in Slot, HandlerReturns(b) PROVE timer'.kind = "retry" /\ timer'.left >= cool'
    <2>1. PICK t \in Target : Answered(b, t) \/ Busy(b, t) \/ Throws(b, t)
      BY <1>6 DEF HandlerReturns
    <2>2. PICK armed \in Timers :
            /\ pending' \in [Target -> Wake]
            /\ Answer(b, t, pending', armed)
            /\ \/ armed = timer /\ pending' = pending /\ UNCHANGED <<cool, early>>
               \/ armed = Schedule(timer, Retry, "retry") /\ CoolDown
      BY <1>0, <2>1, AnswersAre
    <2>3. armed.kind = "retry" /\ armed.left >= cool'
      <3>1. CASE armed = timer /\ UNCHANGED <<cool, early>>
        BY <1>a, <3>1
      <3>2. CASE armed = Schedule(timer, Retry, "retry") /\ CoolDown /\ timer.kind = "retry"
        <4>1. armed = timer /\ cool' = cool /\ early' = early
          BY <1>0, <3>2, ScheduleArms, ConstantTypes DEF CoolDown
        <4> QED
          BY <1>a, <4>1
      <3>3. CASE armed = Schedule(timer, Retry, "retry") /\ CoolDown /\ timer.kind # "retry"
        <4>1. cool' = Retry
          BY <3>3 DEF CoolDown
        <4>2. timer.kind = "none"
          BY <3>3, Zenon DEF CoolDown
        <4>3. armed = [kind |-> "retry", left |-> Retry, delay |-> Retry]
          BY <1>0, <3>3, <4>2, ScheduleArms, ConstantTypes
        <4> QED
          BY <4>1, <4>3, ConstantTypes
      <3> QED
        BY <2>2, <3>1, <3>2, <3>3
    <2>4. timer' = armed
      BY <1>0, <2>2, <2>3, AnswerTimer
    <2> QED
      BY <2>3, <2>4
  <1> QED
    BY <1>1, <1>2, <1>3, <1>4, <1>5, <1>6 DEF Next

LEMMA BatchesStep == WakeInv /\ [Next]_vars => Numbered' /\ RunningKnown' /\ OneBatch'
  <1> SUFFICES ASSUME WakeInv, [Next]_vars PROVE Numbered' /\ RunningKnown' /\ OneBatch'
    OBVIOUS
  <1>0. TypeOK /\ batch \in [Slot -> Batches] /\ handler \in Nat /\ handlers \in Nat
    BY TypesOpen DEF WakeInv, TypeOK
  <1>a. handler <= handlers /\ \A b \in Slot : batch[b].of \in Nat /\ batch[b].of <= handlers
    BY <1>0 DEF WakeInv, Numbered, Batches
  <1>1. CASE UNCHANGED <<handler, handlers, batch, running, late>>
    BY <1>1 DEF WakeInv, Numbered, RunningKnown, OneBatch, Idle
  <1>2. CASE SetHandler
    <2>1. handler' = handlers + 1 /\ handlers' = handlers + 1 /\ batch' = batch
      BY <1>2 DEF SetHandler
    <2>2. \A b \in Slot : batch'[b].of # handler'
      BY <1>0, <1>a, <2>1
    <2>3. Numbered'
      BY <1>0, <1>a, <2>1 DEF Numbered
    <2> QED
      BY <2>2, <2>3 DEF RunningKnown, OneBatch
  <1>3. CASE Dispose
    BY <1>0, <1>a, <1>3 DEF Dispose, Numbered, RunningKnown, OneBatch
  <1>4. ASSUME NEW b \in Slot, Fire(b) PROVE Numbered' /\ RunningKnown' /\ OneBatch'
    <2>1. /\ handler' = handler /\ handlers' = handlers /\ late' = late /\ running' = TRUE
          /\ batch'[b].of = handler /\ \A c \in Slot : c # b => batch'[c] = batch[c]
      BY <1>0, <1>4 DEF Fire, seen
    <2>2. ~running
      BY <1>4 DEF Fire, MayRun
    <2>3. Numbered'
      BY <1>0, <1>a, <2>1 DEF Numbered
    <2>4. RunningKnown'
      BY <2>1, Zenon DEF RunningKnown
    <2>5. ASSUME NEW c \in Slot, NEW d \in Slot, handler # 0, c # d,
                 ~Idle(c)', ~Idle(d)', batch'[c].of = handler, batch'[d].of = handler
          PROVE  late'
      <3>1. PICK e \in Slot : e # b /\ ~Idle(e)' /\ batch'[e].of = handler
        BY <2>5
      <3>2. ~Idle(e) /\ batch[e].of = handler
        BY <2>1, <3>1 DEF Idle
      <3>3. running \/ late
        BY <2>5, <3>2, Zenon DEF WakeInv, RunningKnown
      <3> QED
        BY <2>1, <2>2, <3>3, Zenon
    <2>6. OneBatch'
      BY <2>1, <2>5, Zenon DEF OneBatch
    <2> QED
      BY <2>3, <2>4, <2>6
  <1>5. ASSUME NEW b \in Slot, HandlerReturns(b) PROVE Numbered' /\ RunningKnown' /\ OneBatch'
    <2>1. PICK t \in Target : Answered(b, t) \/ Busy(b, t) \/ Throws(b, t)
      BY <1>5 DEF HandlerReturns
    <2>2. PICK armed \in Timers : pending' \in [Target -> Wake] /\ Answer(b, t, pending', armed)
      BY <1>0, <2>1, AnswersAre
    <2> QED
      BY <2>2, AnswerKeepsBatches
  <1>6. Tick \/ (\E r \in Requests : Request(r[1], r[2], r[3])) \/ FireUnheard \/ FireBusy \/ UNCHANGED vars
        => UNCHANGED <<handler, handlers, batch, running, late>>
    BY DEF Tick, Request, FireUnheard, FireBusy, seen, vars, wakeVars
  <1> QED
    BY <1>1, <1>2, <1>3, <1>4, <1>5, <1>6 DEF Next, TimerFires

\* Where a request is kept: pending, or in a batch that has not dealt with it.
InBatch(b, t) == t \in batch[b].todo /\ batch[b].wakes[t] >= owed[t]

LEMMA KeptStep == WakeInv /\ [Next]_vars => WakeKept'
  <1> SUFFICES ASSUME WakeInv, [Next]_vars PROVE WakeKept'
    OBVIOUS
  <1>0. /\ TypeOK /\ batch \in [Slot -> Batches] /\ timer \in Timers
        /\ pending \in [Target -> Wake] /\ owed \in [Target -> Wake]
        /\ \A t \in Target : pending[t] \in Nat /\ owed[t] \in Nat
    BY TypesOpen, ConstantTypes DEF WakeInv, TypeOK
  <1>a. \A t \in Target : pending[t] >= owed[t] \/ \E b \in Slot : InBatch(b, t)
    BY DEF WakeInv, WakeKept, InBatch
  <1>b. ASSUME \A t \in Target : pending'[t] >= owed'[t] \/ \E b \in Slot : InBatch(b, t)'
        PROVE  WakeKept'
    BY <1>b DEF WakeKept, InBatch
  <1>c. \A b \in Slot, t \in Target : batch[b].wakes[t] \in Wake /\ batch[b].wakes[t] \in Nat
    BY <1>0, FiledTypes, ConstantTypes
  <1>1. CASE UNCHANGED <<pending, owed, batch>>
    BY <1>1 DEF WakeInv, WakeKept
  <1>2. ASSUME NEW r \in Requests, Request(r[1], r[2], r[3]) PROVE WakeKept'
    <2> DEFINE t == r[1]  p == r[2]
    <2>1. t \in Target /\ p \in Wake
      BY DelayAssumption DEF Wake
    <2>2. /\ pending' = [pending EXCEPT ![t] = Stronger(p, pending[t])]
          /\ owed' = [owed EXCEPT ![t] = Stronger(p, owed[t])] /\ batch' = batch
      BY <1>2 DEF Request, File
    <2>3. p \in Nat
      BY <2>1, ConstantTypes
    <2> HIDE DEF t, p
    <2>4. ASSUME NEW u \in Target PROVE pending'[u] >= owed'[u] \/ \E b \in Slot : InBatch(b, u)'
      <3>1. CASE u # t
        <4>1. pending'[u] = pending[u] /\ owed'[u] = owed[u]
          BY <1>0, <2>2, <3>1
        <4> QED
          BY <1>a, <2>2, <4>1 DEF InBatch
      <3>2. CASE u = t
        <4>1. pending'[t] = Stronger(p, pending[t]) /\ owed'[t] = Stronger(p, owed[t])
          BY <1>0, <2>1, <2>2
        <4>2. CASE pending[t] >= owed[t]
          BY <1>0, <2>1, <2>3, <3>2, <4>1, <4>2 DEF Stronger
        <4>3. CASE p >= owed[t]
          BY <1>0, <2>1, <2>3, <3>2, <4>1, <4>3 DEF Stronger
        <4>4. CASE ~(p >= owed[t]) /\ ~(pending[t] >= owed[t])
          <5>1. owed'[t] = owed[t]
            BY <1>0, <2>1, <2>3, <4>1, <4>4 DEF Stronger
          <5> QED
            BY <1>a, <2>1, <2>2, <3>2, <4>4, <5>1 DEF InBatch
        <4> QED
          BY <4>2, <4>3, <4>4
      <3> QED
        BY <3>1, <3>2
    <2> QED
      BY <1>b, <2>4
  <1>3. ASSUME NEW b \in Slot, Fire(b) PROVE WakeKept'
    <2>1. /\ owed' = owed /\ batch[b].todo = {}
          /\ batch'[b].wakes = pending /\ batch'[b].todo = {t \in Target : pending[t] # 0}
          /\ \A c \in Slot : c # b => batch'[c] = batch[c]
          /\ \A t \in Target : pending'[t] = 0
      BY <1>0, <1>3 DEF Fire, Idle, seen
    <2>2. ASSUME NEW u \in Target PROVE pending'[u] >= owed'[u] \/ \E c \in Slot : InBatch(c, u)'
      <3>1. CASE pending[u] >= owed[u] /\ pending[u] # 0
        BY <2>1, <3>1 DEF InBatch
      <3>2. CASE pending[u] >= owed[u] /\ pending[u] = 0
        BY <1>0, <2>1, <3>2
      <3>3. ASSUME NEW c \in Slot, InBatch(c, u) PROVE InBatch(c, u)'
        BY <2>1, <3>3 DEF InBatch
      <3> QED
        BY <1>a, <3>1, <3>2, <3>3
    <2> QED
      BY <1>b, <2>2
  <1>4. ASSUME NEW b \in Slot, NEW t \in Target, Answered(b, t) PROVE WakeKept'
    <2>1. t \in batch[b].todo /\ Advance(b, t, pending, timer) /\ pending' = pending
      BY <1>4 DEF Answered
    <2>2. owed'[t] = Rest(b, t) /\ \A u \in Target : u # t => owed'[u] = owed[u]
      BY <1>0, <1>4 DEF Answered
    <2>3. \A c \in Slot : c # b => batch'[c] = batch[c]
      BY <1>0, <2>1, AdvanceTypes
    <2>4. ASSUME NEW u \in Target, u \in batch'[b].todo PROVE batch'[b].wakes = batch[b].wakes
      BY <1>0, <2>1, <2>4, TodoShrinks
    <2>5. batch'[b].todo = batch[b].todo \ {t}
      BY <1>0, <2>1, TodoShrinks
    <2>6. ASSUME NEW u \in Target PROVE pending'[u] >= owed'[u] \/ \E c \in Slot : InBatch(c, u)'
      <3>1. CASE u # t
        <4>1. ASSUME NEW c \in Slot, InBatch(c, u) PROVE InBatch(c, u)'
          <5>1. CASE c # b
            BY <2>2, <2>3, <3>1, <4>1, <5>1 DEF InBatch
          <5>2. CASE c = b
            BY <2>2, <2>4, <2>5, <3>1, <4>1, <5>2 DEF InBatch
          <5> QED
            BY <5>1, <5>2
        <4>2. pending[u] >= owed[u] => pending'[u] >= owed'[u]
          BY <2>1, <2>2, <3>1
        <4> QED
          BY <1>a, <4>1, <4>2
      <3>2. CASE u = t
        <4>1. CASE Rest(b, t) = pending[t]
          BY <1>0, <2>1, <2>2, <3>2, <4>1
        <4>2. ASSUME NEW c \in Slot \ {b}, t \in batch[c].todo, Rest(b, t) = batch[c].wakes[t]
              PROVE  InBatch(c, t)'
          BY <1>c, <2>2, <2>3, <4>2 DEF InBatch
        <4> QED
          BY <1>0, <3>2, <4>1, <4>2, RestTyped
      <3> QED
        BY <3>1, <3>2
    <2> QED
      BY <1>b, <2>6
  <1>5. ASSUME NEW b \in Slot, NEW t \in Target, Busy(b, t) PROVE WakeKept'
    <2>0. Schedule(timer, Retry, "retry") \in Timers
      BY <1>0, ScheduleArms, ConstantTypes
    <2>1. /\ t \in batch[b].todo /\ owed' = owed
          /\ pending' = [pending EXCEPT ![t] = Stronger(batch[b].wakes[t], pending[t])]
          /\ Advance(b, t, pending', Schedule(timer, Retry, "retry"))
      BY <1>5 DEF Busy, File
    <2>2. pending' \in [Target -> Wake]
      BY <1>0, <1>c, <2>1, StrongerOfTwo
    <2>3. \A c \in Slot : c # b => batch'[c] = batch[c]
      BY <1>0, <2>0, <2>1, <2>2, AdvanceTypes
    <2>4. ASSUME NEW u \in Target, u \in batch'[b].todo PROVE batch'[b].wakes = batch[b].wakes
      BY <1>0, <2>0, <2>1, <2>2, <2>4, TodoShrinks
    <2>5. batch'[b].todo = batch[b].todo \ {t}
      BY <1>0, <2>0, <2>1, <2>2, TodoShrinks
    <2>6. /\ pending'[t] >= batch[b].wakes[t] /\ pending'[t] >= pending[t]
          /\ \A u \in Target : u # t => pending'[u] = pending[u]
          /\ pending'[t] \in Nat
      BY <1>0, <1>c, <2>1, <2>2, StrongerOfTwo, ConstantTypes
    <2>7. ASSUME NEW u \in Target PROVE pending'[u] >= owed'[u] \/ \E c \in Slot : InBatch(c, u)'
      <3>1. pending[u] >= owed[u] => pending'[u] >= owed'[u]
        BY <1>0, <2>1, <2>6
      <3>2. ASSUME NEW c \in Slot, InBatch(c, u) PROVE pending'[u] >= owed'[u] \/ InBatch(c, u)'
        <4>1. CASE c # b
          BY <2>1, <2>3, <3>2, <4>1 DEF InBatch
        <4>2. CASE c = b /\ u # t
          BY <2>1, <2>4, <2>5, <3>2, <4>2 DEF InBatch
        <4>3. CASE c = b /\ u = t
          BY <1>0, <1>c, <2>1, <2>6, <3>2, <4>3 DEF InBatch
        <4> QED
          BY <4>1, <4>2, <4>3
      <3> QED
        BY <1>a, <3>1, <3>2
    <2> QED
      BY <1>b, <2>7
  <1>6. ASSUME NEW b \in Slot, NEW t \in Target, Throws(b, t) PROVE WakeKept'
    <2>0. Schedule(timer, Retry, "retry") \in Timers
      BY <1>0, ScheduleArms, ConstantTypes
    <2>1. /\ t \in batch[b].todo /\ owed' = owed /\ pending' = FileAll(pending, b)
          /\ Finally(b, pending', Schedule(timer, Retry, "retry"))
      BY <1>6 DEF Throws
    <2>2. pending' \in [Target -> Wake]
      BY <1>0, <2>1, FiledTypes
    <2>3. \A c \in Slot : c # b => batch'[c] = batch[c]
      BY <1>0, <2>0, <2>1, <2>2, FinallyEffect
    <2>4. \A u \in Target : pending'[u] >= batch[b].wakes[u] /\ pending'[u] >= pending[u] /\ pending'[u] \in Nat
      BY <1>0, <1>c, <2>1, <2>2, StrongerOfTwo, ConstantTypes DEF FileAll
    <2>5. ASSUME NEW u \in Target PROVE pending'[u] >= owed'[u] \/ \E c \in Slot : InBatch(c, u)'
      <3>1. pending[u] >= owed[u] => pending'[u] >= owed'[u]
        BY <1>0, <2>1, <2>4
      <3>2. ASSUME NEW c \in Slot, InBatch(c, u) PROVE pending'[u] >= owed'[u] \/ InBatch(c, u)'
        <4>1. CASE c # b
          BY <2>1, <2>3, <3>2, <4>1 DEF InBatch
        <4>2. CASE c = b
          BY <1>0, <1>c, <2>1, <2>4, <3>2, <4>2 DEF InBatch
        <4> QED
          BY <4>1, <4>2
      <3> QED
        BY <1>a, <3>1, <3>2
    <2> QED
      BY <1>b, <2>5
  <1>7. Tick \/ SetHandler \/ Dispose \/ FireUnheard \/ FireBusy \/ UNCHANGED vars
        => UNCHANGED <<pending, owed, batch>>
    BY DEF Tick, SetHandler, Dispose, FireUnheard, FireBusy, seen, vars, wakeVars
  <1> QED
    BY <1>1, <1>2, <1>3, <1>4, <1>5, <1>6, <1>7 DEF Next, TimerFires, HandlerReturns

-----------------------------------------------------------------------------
LEMMA WakeInitially == Init => WakeInv
  <1> SUFFICES ASSUME Init PROVE WakeInv
    OBVIOUS
  <1> USE ConstantTypes, Bounds DEF Init
  <1>1. TypeOK
    <2>1. timer \in Timers /\ batch \in [Slot -> Batches]
      BY NoTimerTyped, NoBatchTyped
    <2>2. scheduled \in BOOLEAN /\ running \in BOOLEAN /\ early \in BOOLEAN /\ late \in BOOLEAN
      BY Zenon
    <2> QED
      BY <2>1, <2>2 DEF TypeOK, Timers, Batches
  <1>2. WakeArmed /\ WakeKept
    BY DEF WakeArmed, WakeKept
  <1>3. Numbered /\ RunningKnown /\ OneBatch /\ CoolArmed
    BY DEF Numbered, RunningKnown, OneBatch, CoolArmed, NoBatch
  <1> QED
    BY <1>1, <1>2, <1>3 DEF WakeInv

LEMMA WakeAlways == Spec => []WakeInv
  <1>1. WakeInv /\ [Next]_vars => WakeInv'
    BY WakeTypes, ArmedStep, CoolStep, BatchesStep, KeptStep DEF WakeInv
  <1> QED
    BY <1>1, WakeInitially, PTL DEF Spec

\* Every state of the scheduler is well typed, for any targets, delays and bounds.
THEOREM WakeTypeCorrect == Spec => []TypeOK
  <1>1. WakeInv => TypeOK
    BY DEF WakeInv
  <1> QED
    BY <1>1, WakeAlways, PTL

\* While there is a handler, pending wakes have a timer.
THEOREM WakesHaveTimer == Spec => []WakeArmed
  <1>1. WakeInv => WakeArmed
    BY DEF WakeInv
  <1> QED
    BY <1>1, WakeAlways, PTL

\* A request is neither lost nor weakened before a handler has dealt with it.
THEOREM WakesAreKept == Spec => []WakeKept
  <1>1. WakeInv => WakeKept
    BY DEF WakeInv
  <1> QED
    BY <1>1, WakeAlways, PTL

\* The handler in place is not called for two batches at once, unless a batch of a
\* former handler has ended meanwhile.
THEOREM WakeOneBatch == Spec => []OneBatch
  <1>1. WakeInv => OneBatch
    BY DEF WakeInv
  <1> QED
    BY <1>1, WakeAlways, PTL

\* No batch starts within a cool-down, unless another timer was armed when it began.
THEOREM WakeCooldownKept == Spec => CooldownKept
  <1> DEFINE Kept == \A b \in Slot : BatchStarts(b) => (cool = 0 \/ early)
  <1>1. WakeInv /\ [Next]_vars => [Kept]_vars
    <2>1. SUFFICES ASSUME WakeInv, Next, NEW b \in Slot, BatchStarts(b) PROVE cool = 0 \/ early
      BY DEF vars
    <2>2. TypeOK /\ batch \in [Slot -> Batches] /\ batch[b].todo = {} /\ batch'[b].todo # {}
      BY <2>1, TypesOpen DEF WakeInv, BatchStarts, Idle
    <2>3. ASSUME NEW c \in Slot, Fire(c) PROVE cool = 0 \/ early
      <3>1. timer.left = 0 /\ cool \in Nat
        BY <2>2, <2>3, ConstantTypes DEF Fire, Due, TypeOK
      <3>2. cool > 0 => early
        BY <2>1, <3>1 DEF WakeInv, CoolArmed
      <3> QED
        BY <3>1, <3>2
    <2>4. ASSUME NEW c \in Slot, HandlerReturns(c) PROVE FALSE
      <3>1. PICK t \in Target : Answered(c, t) \/ Busy(c, t) \/ Throws(c, t)
        BY <2>4 DEF HandlerReturns
      <3>2. PICK armed \in Timers : pending' \in [Target -> Wake] /\ Answer(c, t, pending', armed)
        BY <2>2, <3>1, AnswersAre
      <3>3. c # b /\ batch'[b] = batch[b]
        BY <2>2, <3>2, AdvanceTypes DEF Answer
      <3> QED
        BY <2>2, <3>3
    <2>5. Tick \/ (\E r \in Requests : Request(r[1], r[2], r[3])) \/ SetHandler \/ Dispose \/ FireUnheard \/ FireBusy
          => batch' = batch
      BY DEF Tick, Request, SetHandler, Dispose, FireUnheard, FireBusy
    <2> QED
      BY <2>1, <2>2, <2>3, <2>4, <2>5 DEF Next, TimerFires
  <1> QED
    BY <1>1, WakeAlways, PTL DEF Spec, CooldownKept

=============================================================================
