------------------------- MODULE DeliveryQueueProofs -------------------------
(***************************************************************************)
(* Proofs about DeliveryQueue: the queue is a write-ahead log.              *)
(*                                                                          *)
(* An entry leaves the directory when it is acknowledged or moved to        *)
(* failed/.  That an acknowledged delivery has reached its recipient is not *)
(* visible in the file: the worker knows it.  So the invariant speaks of    *)
(* every worker: the payloads it has passed were sent, and one that is      *)
(* about to acknowledge has passed them all, or was aborted.                *)
(***************************************************************************)
EXTENDS DeliveryQueue, TLAPS

\* A sender that has not begun begins with the first payload.
IdleStartsFirst == \A d \in Delivery : pc[d] = "idle" => next[d] = 1

\* The payloads before the one a worker sends next have reached the recipient.
PassedReached ==
    \A w \in Worker :
        pc[w] = "sending" /\ Target(w) \notin BestEffort
        => \A i \in 1 .. Parts : i < next[w] => copies[Target(w)][i] > 0

\* A worker acknowledges what is complete, or was aborted.
AcksComplete ==
    \A w \in Worker :
        pc[w] = "acking" /\ Target(w) \notin BestEffort
        => Reached(Target(w)) \/ aborted[Target(w)]

DeliveryInv == TypeOK /\ IdleStartsFirst /\ PassedReached /\ AcksComplete /\ NotLost

-----------------------------------------------------------------------------
LEMMA TargetIsDelivery ==
  ASSUME TypeOK, NEW w \in Worker
  PROVE  Target(w) \in Delivery
BY DeliveryAssumption DEF TypeOK, Target, Worker

LEMMA NoEntryIsDelivery == noEntry \in Delivery
BY DeliveryAssumption DEF noEntry

LEMMA StepIsTyped ==
  ASSUME TypeOK, NEW w \in Worker, NEW s \in Steps, GoTo(w, s)
  PROVE  pc' \in [Worker -> Steps]
BY DEF TypeOK, GoTo

\* The copies of a payload after another one was sent.
OneMore(d, i) == [copies EXCEPT ![d][i] = IF @ = 2 THEN 2 ELSE @ + 1]

LEMMA OneMoreCopy ==
  ASSUME TypeOK, NEW d \in Delivery, NEW i \in 1 .. Parts
  PROVE  /\ OneMore(d, i) \in [Delivery -> [1 .. Parts -> 0 .. 2]]
         /\ OneMore(d, i)[d][i] > 0
         /\ \A e \in Delivery, j \in 1 .. Parts :
               copies[e][j] > 0 => OneMore(d, i)[e][j] > 0
  <1>1. copies \in [Delivery -> [1 .. Parts -> 0 .. 2]]
    BY DEF TypeOK
  <1>2. copies[d] \in [1 .. Parts -> 0 .. 2] /\ copies[d][i] \in 0 .. 2
    BY <1>1
  <1> DEFINE c == IF copies[d][i] = 2 THEN 2 ELSE copies[d][i] + 1
             row == [copies[d] EXCEPT ![i] = c]
  <1>3. c \in 0 .. 2 /\ c > 0
    BY <1>2
  <1>4. OneMore(d, i) = [copies EXCEPT ![d] = row]
    BY <1>1, <1>2 DEF OneMore
  <1> HIDE DEF c
  <1>5. row \in [1 .. Parts -> 0 .. 2] /\ row[i] = c
        /\ \A j \in 1 .. Parts : j # i => row[j] = copies[d][j]
    BY <1>2, <1>3
  <1> HIDE DEF row
  <1>6. OneMore(d, i) \in [Delivery -> [1 .. Parts -> 0 .. 2]]
    BY <1>1, <1>4, <1>5
  <1>7. OneMore(d, i)[d] = row
        /\ \A e \in Delivery : e # d => OneMore(d, i)[e] = copies[e]
    BY <1>1, <1>4
  <1> QED
    BY <1>3, <1>5, <1>6, <1>7

-----------------------------------------------------------------------------
LEMMA DeliveryInitially == Init => DeliveryInv
  <1> SUFFICES ASSUME Init PROVE DeliveryInv
    OBVIOUS
  <1> USE DeliveryAssumption DEF Init
  <1>1. entry \in [Recovery -> Delivery]
    BY NoEntryIsDelivery
  <1>2. pc \in [Worker -> Steps] /\ next \in [Worker -> 1 .. Parts + 1]
    BY DEF Steps
  <1>3. copies \in [Delivery -> [1 .. Parts -> 0 .. 2]]
    OBVIOUS
  <1>4. pending \in [Recovery -> SUBSET Entry]
    OBVIOUS
  <1>5. TypeOK
    <2>1. json \in [Delivery -> Nat \cup {-1}] /\ readCount \in [Worker -> Nat]
      OBVIOUS
    <2>2. /\ marker \in [Delivery -> BOOLEAN]
          /\ failedDir \in [Delivery -> BOOLEAN] /\ flawed \in [Worker -> BOOLEAN]
          /\ queued \in [Delivery -> BOOLEAN] /\ aborted \in [Delivery -> BOOLEAN]
          /\ late \in [Recovery -> BOOLEAN]
      BY Zenon
    <2>3. scan \in [Recovery -> {"due", "running", "over"}] /\ starts \in 0 .. MaxStarts
      BY DEF FirstOnly
    <2> QED
      BY <1>1, <1>2, <1>3, <1>4, <2>1, <2>2, <2>3 DEF TypeOK
  <1>6. IdleStartsFirst /\ PassedReached /\ AcksComplete
    BY DEF IdleStartsFirst, PassedReached, AcksComplete, Worker
  <1>7. NotLost
    BY DEF NotLost
  <1> QED
    BY <1>5, <1>6, <1>7 DEF DeliveryInv

-----------------------------------------------------------------------------
\* Each action keeps the types.
LEMMA DeliveryTypes == TypeOK /\ [Next]_vars => TypeOK'
  <1> SUFFICES ASSUME TypeOK, [Next]_vars PROVE TypeOK'
    OBVIOUS
  <1> USE DeliveryAssumption
  <1>1. ASSUME NEW d \in Delivery, Persist(d) PROVE TypeOK'
    <2>1. json' \in [Delivery -> Nat \cup {-1}]
      <3>1. json' = json \/ json' = [json EXCEPT ![d] = 0]
        BY <1>1 DEF Persist
      <3>2. json \in [Delivery -> Nat \cup {-1}] /\ 0 \in Nat \cup {-1}
        BY DEF TypeOK
      <3>3. [json EXCEPT ![d] = 0] \in [Delivery -> Nat \cup {-1}]
        BY <3>2
      <3> QED
        BY <3>1, <3>2, <3>3
    <2>2. queued' \in [Delivery -> BOOLEAN]
      <3>1. queued' = queued \/ queued' = [queued EXCEPT ![d] = TRUE]
        BY <1>1 DEF Persist
      <3> QED
        BY <3>1 DEF TypeOK
    <2>3. pc' \in [Worker -> Steps]
      BY <1>1 DEF TypeOK, Persist, GoTo, Steps
    <2> QED
      BY <1>1, <2>1, <2>2, <2>3 DEF TypeOK, Persist, scanVars, historyVars
  <1>2. ASSUME NEW w \in Worker, SendPart(w) PROVE TypeOK'
    <2>1. Target(w) \in Delivery
      BY TargetIsDelivery
    <2>2. next[w] \in 1 .. Parts /\ next[w] + 1 \in 1 .. Parts + 1
      BY <1>2 DEF SendPart, TypeOK
    <2>3. copies' \in [Delivery -> [1 .. Parts -> 0 .. 2]]
      <3>1. copies' \in {copies, OneMore(Target(w), next[w])}
        BY <1>2 DEF SendPart, OneMore
      <3> QED
        BY <3>1, <2>1, <2>2, OneMoreCopy DEF TypeOK
    <2>4. next' \in [Worker -> 1 .. Parts + 1]
      BY <1>2, <2>2 DEF SendPart, TypeOK
    <2>5. pc' \in [Worker -> Steps]
      <3>1. pc' = pc \/ \E s \in Steps : GoTo(w, s)
        BY <1>2 DEF SendPart, Threw, Steps
      <3> QED
        BY <3>1, StepIsTyped DEF TypeOK
    <2>6. flawed' \in [Worker -> BOOLEAN]
      <3> DEFINE b == flawed[w] \/ w \in WithOnError
      <3>1. flawed' = flawed \/ flawed' = [flawed EXCEPT ![w] = b]
        BY <1>2, Zenon DEF SendPart
      <3>2. b \in BOOLEAN
        BY Zenon
      <3> HIDE DEF b
      <3> QED
        BY <3>1, <3>2 DEF TypeOK
    <2>7. aborted' \in [Delivery -> BOOLEAN]
      BY <1>2, <2>1 DEF SendPart, TypeOK
    <2>8. UNCHANGED <<fileVars, readCount, queued, scanVars, starts>>
      BY <1>2 DEF SendPart
    <2> QED
      BY <2>3, <2>4, <2>5, <2>6, <2>7, <2>8 DEF TypeOK, fileVars, scanVars
  <1>3. ASSUME NEW w \in Worker, SentAll(w) PROVE TypeOK'
    <2>1. pc' \in [Worker -> Steps]
      <3>1. \E s \in Steps : GoTo(w, s)
        BY <1>3 DEF SentAll, Threw, Steps
      <3> QED
        BY <3>1, StepIsTyped
    <2>2. UNCHANGED <<fileVars, readCount, queued, scanVars, starts, historyVars>>
      BY <1>3 DEF SentAll
    <2>3. next' \in [Worker -> 1 .. Parts + 1]
      BY <1>3 DEF SentAll, TypeOK
    <2>4. flawed' \in [Worker -> BOOLEAN]
      BY <1>3 DEF SentAll, TypeOK
    <2> QED
      BY <2>1, <2>2, <2>3, <2>4 DEF TypeOK, fileVars, scanVars, historyVars
  <1>4. ASSUME NEW w \in Worker, AckRename(w) PROVE TypeOK'
    <2>1. Target(w) \in Delivery
      BY TargetIsDelivery
    <2>2. pc' \in [Worker -> Steps]
      BY <1>4 DEF AckRename, Ended, GoTo, TypeOK, Steps
    <2> QED
      BY <1>4, <2>1, <2>2 DEF AckRename, TypeOK, fileStepUnchanged, scanVars, historyVars
  <1>5. ASSUME NEW w \in Worker, AckUnlink(w) PROVE TypeOK'
    BY <1>5, TargetIsDelivery DEF AckUnlink, Ended, GoTo, TypeOK, Steps, fileStepUnchanged,
                                  scanVars, historyVars
  <1>6. ASSUME NEW w \in Worker, FailRead(w) PROVE TypeOK'
    <2>1. readCount' \in [Worker -> Nat]
      <3>1. \/ readCount' = readCount
            \/ Exists(Target(w)) /\ readCount' = [readCount EXCEPT ![w] = json[Target(w)]]
        BY <1>6 DEF FailRead
      <3>2. Exists(Target(w)) => json[Target(w)] \in Nat
        BY TargetIsDelivery DEF TypeOK, Exists
      <3> QED
        BY <3>1, <3>2 DEF TypeOK
    <2>2. pc' \in [Worker -> Steps]
      BY <1>6 DEF FailRead, Ended, GoTo, TypeOK, Steps
    <2> QED
      BY <1>6, <2>1, <2>2 DEF FailRead, TypeOK, fileVars, fileStepUnchanged, scanVars,
                              historyVars
  <1>7. ASSUME NEW w \in Worker, FailWrite(w) PROVE TypeOK'
    <2>1. json' \in [Delivery -> Nat \cup {-1}]
      BY <1>7, TargetIsDelivery DEF FailWrite, TypeOK
    <2>2. pc' \in [Worker -> Steps] /\ readCount' \in [Worker -> Nat]
      BY <1>7 DEF FailWrite, Ended, GoTo, TypeOK, Steps
    <2> QED
      BY <1>7, <2>1, <2>2 DEF FailWrite, TypeOK, fileStepUnchanged, scanVars, historyVars
  <1>8. ASSUME NEW r \in Recovery, MoveToFailed(r) PROVE TypeOK'
    <2>1. entry[r] \in Delivery /\ r \in Worker
      BY DEF TypeOK, Worker
    <2>2. json' \in [Delivery -> Nat \cup {-1}] /\ failedDir' \in [Delivery -> BOOLEAN]
      BY <1>8, <2>1 DEF MoveToFailed, TypeOK
    <2>3. pc' \in [Worker -> Steps]
      BY <1>8, <2>1, StepIsTyped DEF MoveToFailed, Steps
    <2> QED
      BY <1>8, <2>2, <2>3 DEF MoveToFailed, TypeOK, fileStepUnchanged, scanVars, historyVars
  <1>9. ASSUME NEW r \in Recovery, Load(r) PROVE TypeOK'
    <2>1. pending' \in [Recovery -> SUBSET Entry]
      <3> DEFINE found == {[id |-> d, retries |-> json[d]] : d \in {x \in Delivery : Exists(x)}}
      <3>1. found \in SUBSET Entry
        BY DEF Entry, TypeOK, Exists
      <3>2. pending' = [pending EXCEPT ![r] = found]
        BY <1>9 DEF Load
      <3> QED
        BY <3>1, <3>2 DEF TypeOK
    <2>2. marker' \in [Delivery -> BOOLEAN]
      BY <1>9, Zenon DEF Load
    <2>3. shared' \in SUBSET Delivery /\ scan' \in [Recovery -> {"due", "running", "over"}]
      BY <1>9 DEF Load, TypeOK
    <2>4. UNCHANGED <<pc, next, flawed, entry, late, scanUnchanged>>
      BY <1>9 DEF Load
    <2> QED
      BY <2>1, <2>2, <2>3, <2>4 DEF TypeOK, scanUnchanged, historyVars
  <1>10. ASSUME NEW r \in Recovery, NEW e \in pending[r], Take(r, e) PROVE TypeOK'
    <2>1. e.id \in Delivery /\ r \in Worker
      BY DEF TypeOK, Entry, Worker
    <2>2. pc' \in [Worker -> Steps]
      <3>1. \/ pc' = pc \/ GoTo(r, "reading") \/ GoTo(r, "moving") \/ GoTo(r, "sending")
        BY <1>10 DEF Take
      <3> QED
        BY <3>1 DEF GoTo, TypeOK, Steps
    <2>3. late' \in [Recovery -> BOOLEAN]
      <3>1. late' = late \/ late' = [late EXCEPT ![r] = pending[r] # {e}]
        BY <1>10 DEF Take
      <3>2. (pending[r] # {e}) \in BOOLEAN
        OBVIOUS
      <3> QED
        BY <3>1, <3>2 DEF TypeOK
    <2>4. next' \in [Worker -> 1 .. Parts + 1]
      BY <1>10, <2>1 DEF Take, TypeOK
    <2>5. pending' \in [Recovery -> SUBSET Entry] /\ entry' \in [Recovery -> Delivery]
      BY <1>10, <2>1 DEF Take, TypeOK
    <2>6. UNCHANGED <<marker, flawed, scan, shared, scanUnchanged>>
      BY <1>10 DEF Take
    <2> QED
      BY <2>2, <2>3, <2>4, <2>5, <2>6 DEF TypeOK, scanUnchanged, historyVars
  <1>11. ASSUME NEW r \in Recovery, RecoveryEnds(r) PROVE TypeOK'
    BY <1>11, NoEntryIsDelivery DEF RecoveryEnds, TypeOK, scanUnchanged, historyVars
  <1>12. CASE Crash
    <2>1. pc' \in [Worker -> Steps] /\ readCount' \in [Worker -> Nat]
      BY <1>12 DEF Crash, Steps
    <2>2. late' \in [Recovery -> BOOLEAN] /\ flawed' \in [Worker -> BOOLEAN]
      BY <1>12, Zenon DEF Crash
    <2>3. /\ scan' \in [Recovery -> {"due", "running", "over"}]
          /\ pending' \in [Recovery -> SUBSET Entry]
          /\ starts' \in 0 .. MaxStarts /\ shared' \in SUBSET Delivery
      BY <1>12 DEF Crash, TypeOK, FirstOnly
    <2>4. entry' \in [Recovery -> Delivery] /\ next' \in [Worker -> 1 .. Parts + 1]
      BY <1>12, NoEntryIsDelivery DEF Crash
    <2>5. UNCHANGED <<fileVars, queued, historyVars>>
      BY <1>12 DEF Crash
    <2> QED
      BY <2>1, <2>2, <2>3, <2>4, <2>5 DEF TypeOK, fileVars, historyVars
  <1>13. ASSUME NEW r \in Recovery, RestartInProcess(r) PROVE TypeOK'
    BY <1>13 DEF RestartInProcess, TypeOK, fileVars, historyVars
  <1>14. CASE UNCHANGED vars
    BY <1>14 DEF vars, TypeOK, fileVars, scanVars, historyVars
  <1> QED
    BY <1>1, <1>2, <1>3, <1>4, <1>5, <1>6, <1>7, <1>8, <1>9, <1>10, <1>11, <1>12, <1>13,
       <1>14 DEF Next

-----------------------------------------------------------------------------
(***************************************************************************)
(* What a step can do to the parts of the invariant.                        *)
(***************************************************************************)
\* What was received or aborted remains so.
LEMMA HistoryGrows ==
  ASSUME TypeOK, [Next]_vars
  PROVE  \A d \in Delivery : /\ \A i \in 1 .. Parts : copies[d][i] > 0 => copies'[d][i] > 0
                             /\ aborted[d] => aborted'[d]
  <1> USE DeliveryAssumption
  <1>1. ASSUME NEW w \in Worker, SendPart(w)
        PROVE  \A d \in Delivery :
                  /\ \A i \in 1 .. Parts : copies[d][i] > 0 => copies'[d][i] > 0
                  /\ aborted[d] => aborted'[d]
    <2>1. Target(w) \in Delivery /\ next[w] \in 1 .. Parts
      BY <1>1, TargetIsDelivery DEF SendPart, TypeOK
    <2>2. copies' \in {copies, OneMore(Target(w), next[w])}
      BY <1>1 DEF SendPart, OneMore
    <2>3. aborted' = aborted \/ aborted' = [aborted EXCEPT ![Target(w)] = TRUE]
      BY <1>1 DEF SendPart
    <2> QED
      BY <2>1, <2>2, <2>3, OneMoreCopy DEF TypeOK
  <1>2. CASE \A w \in Worker : ~SendPart(w)
    <2>1. UNCHANGED <<copies, aborted>>
      BY <1>2 DEF Next, vars, historyVars, fileStepUnchanged, scanUnchanged, Persist,
         SentAll, AckRename, AckUnlink, FailRead, FailWrite, MoveToFailed, Load, Take,
         RecoveryEnds, Crash, RestartInProcess
    <2> QED
      BY <2>1
  <1> QED
    BY <1>1, <1>2

\* A worker that sends has just begun, stays where it was, or has passed one
\* more payload.
Passes(w) ==
    /\ pc[w] = "sending" /\ Target(w)' = Target(w)
    /\ \/ next'[w] = next[w]
       \/ /\ next[w] \in 1 .. Parts /\ next'[w] = next[w] + 1
          /\ Target(w) \notin BestEffort => copies'[Target(w)][next[w]] > 0

LEMMA SendingBefore ==
  ASSUME TypeOK, IdleStartsFirst, [Next]_vars, NEW w \in Worker, pc'[w] = "sending"
  PROVE  next'[w] = 1 \/ Passes(w)
  <1> USE DeliveryAssumption
  <1>1. ASSUME NEW d \in Delivery, Persist(d) PROVE next'[w] = 1 \/ Passes(w)
    BY <1>1 DEF Persist, GoTo, IdleStartsFirst, Passes, Target, scanVars, Worker, TypeOK
  <1>2. ASSUME NEW v \in Worker, SendPart(v) PROVE Passes(w)
    <2>1. Target(v) \in Delivery /\ next[v] \in 1 .. Parts
      BY <1>2, TargetIsDelivery DEF SendPart, TypeOK
    <2>2. pc[w] = "sending" /\ Target(w)' = Target(w)
      <3>1. pc[v] = "sending" /\ entry' = entry
        BY <1>2 DEF SendPart, scanVars
      <3>2. pc' = pc \/ \E s \in Steps : GoTo(v, s)
        BY <1>2 DEF SendPart, Threw, Steps
      <3> QED
        BY <3>1, <3>2 DEF GoTo, TypeOK, Target
    <2>3. next'[w] = next[w] \/ (w = v /\ next'[w] = next[w] + 1)
      <3>1. next' = next \/ next' = [next EXCEPT ![v] = @ + 1]
        BY <1>2 DEF SendPart
      <3> QED
        BY <3>1 DEF TypeOK
    <2>4. CASE v = w /\ next' = [next EXCEPT ![w] = @ + 1] /\ Target(w) \notin BestEffort
      <3>1. copies' = OneMore(Target(w), next[w])
        <4>1. next[w] + 1 # next[w] /\ next'[w] = next[w] + 1
          BY <2>1, <2>4 DEF TypeOK
        <4> QED
          BY <1>2, <2>4, <4>1 DEF SendPart, OneMore
      <3> QED
        BY <2>1, <2>2, <2>4, <3>1, OneMoreCopy DEF Passes, TypeOK
    <2>5. CASE ~(v = w /\ next' = [next EXCEPT ![w] = @ + 1] /\ Target(w) \notin BestEffort)
      <3>1. next' = next \/ next' = [next EXCEPT ![v] = @ + 1]
        BY <1>2 DEF SendPart
      <3> QED
        BY <2>1, <2>2, <2>3, <2>5, <3>1 DEF Passes, TypeOK
    <2> QED
      BY <2>4, <2>5
  <1>3. ASSUME NEW v \in Worker, NEW s \in Steps \ {"sending"}, GoTo(v, s),
               entry' = entry, \A x \in Worker : x # v => next'[x] = next[x]
        PROVE  Passes(w)
    BY <1>3 DEF GoTo, Passes, Target, TypeOK, Steps
  <1>4. ASSUME NEW v \in Worker,
               SentAll(v) \/ AckRename(v) \/ AckUnlink(v) \/ FailRead(v) \/ FailWrite(v)
        PROVE  Passes(w)
    <2>1. entry' = entry /\ \A x \in Worker : x # v => next'[x] = next[x]
      BY <1>4 DEF SentAll, AckRename, AckUnlink, FailRead, FailWrite, fileStepUnchanged,
                  scanVars, TypeOK
    <2>2. \E s \in Steps \ {"sending"} : GoTo(v, s)
      BY <1>4 DEF SentAll, Threw, AckRename, AckUnlink, FailRead, FailWrite, Ended, Steps
    <2> QED
      BY <2>1, <2>2, <1>3
  <1>5. ASSUME NEW r \in Recovery, MoveToFailed(r) PROVE Passes(w)
    <2>1. r \in Worker /\ GoTo(r, "idle") /\ UNCHANGED <<next, entry>>
      BY <1>5 DEF MoveToFailed, fileStepUnchanged, scanVars, Worker
    <2> QED
      BY <2>1, <1>3 DEF Steps
  <1>6. ASSUME NEW r \in Recovery, NEW e \in pending[r], Take(r, e)
        PROVE  next'[w] = 1 \/ Passes(w)
    <2>1. CASE w = r
      BY <1>6, <2>1 DEF Take, TypeOK
    <2>2. CASE w # r
      <3>1. pc'[w] = pc[w] /\ next'[w] = next[w]
        BY <1>6, <2>2 DEF Take, GoTo, TypeOK
      <3>2. Target(w)' = Target(w)
        BY <1>6, <2>2 DEF Take, Target, TypeOK
      <3> QED
        BY <3>1, <3>2 DEF Passes
    <2> QED
      BY <2>1, <2>2
  <1>7. ASSUME NEW r \in Recovery, RecoveryEnds(r) PROVE Passes(w)
    <2>1. UNCHANGED <<pc, next>> /\ pc[r] = "idle" /\ w # r
      BY <1>7 DEF RecoveryEnds
    <2>2. Target(w)' = Target(w)
      BY <1>7, <2>1 DEF RecoveryEnds, Target, TypeOK
    <2> QED
      BY <2>1, <2>2 DEF Passes
  <1>8. CASE UNCHANGED <<pc, next, entry>>
    BY <1>8 DEF Passes, Target
  <1>9. CASE (\E r \in Recovery : Load(r) \/ RestartInProcess(r)) \/ UNCHANGED vars
    BY <1>8, <1>9 DEF Load, RestartInProcess, vars, scanVars
  <1>10. CASE Crash
    BY <1>10 DEF Crash
  <1> QED
    BY <1>1, <1>2, <1>4, <1>5, <1>6, <1>7, <1>9, <1>10 DEF Next

\* A worker that acknowledges did so before, or has sent every payload, or its
\* delivery was aborted.
LEMMA AckingBefore ==
  ASSUME TypeOK, [Next]_vars, NEW w \in Worker, pc'[w] = "acking"
  PROVE  /\ Target(w)' = Target(w)
         /\ \/ pc[w] = "acking"
            \/ pc[w] = "sending" /\ next[w] = Parts + 1
            \/ aborted'[Target(w)]
  <1> USE DeliveryAssumption
  <1> DEFINE Goal == /\ Target(w)' = Target(w)
                     /\ \/ pc[w] = "acking"
                        \/ pc[w] = "sending" /\ next[w] = Parts + 1
                        \/ aborted'[Target(w)]
  <1>1. ASSUME NEW v \in Worker, NEW s \in Steps \ {"acking"}, GoTo(v, s), entry' = entry
        PROVE  Goal
    BY <1>1 DEF GoTo, Target, TypeOK, Steps
  <1>2. CASE pc' = pc /\ entry' = entry
    BY <1>2 DEF Target
  <1>3. ASSUME NEW d \in Delivery, Persist(d) PROVE Goal
    BY <1>3, <1>1 DEF Persist, Worker, Steps, scanVars
  <1>4. ASSUME NEW v \in Worker, SendPart(v) PROVE Goal
    <2>1. entry' = entry
      BY <1>4 DEF SendPart, scanVars
    <2>2. \/ pc' = pc
          \/ \E s \in Steps \ {"acking"} : GoTo(v, s)
          \/ GoTo(v, "acking") /\ aborted' = [aborted EXCEPT ![Target(v)] = TRUE]
      <3>1. \/ pc' = pc \/ Threw(v)
            \/ GoTo(v, "done")
            \/ GoTo(v, "acking") /\ aborted' = [aborted EXCEPT ![Target(v)] = TRUE]
        BY <1>4 DEF SendPart
      <3> QED
        BY <3>1 DEF Threw, Steps
    <2>3. CASE GoTo(v, "acking") /\ aborted' = [aborted EXCEPT ![Target(v)] = TRUE]
      <3>1. Target(v) \in Delivery /\ aborted'[Target(v)]
        BY <2>3, TargetIsDelivery DEF TypeOK
      <3>2. CASE v = w
        BY <2>1, <3>1, <3>2 DEF Target
      <3>3. CASE v # w
        <4>1. pc[w] = "acking"
          BY <2>3, <3>3 DEF GoTo, TypeOK
        <4> QED
          BY <2>1, <4>1 DEF Target
      <3> QED
        BY <3>2, <3>3
    <2> QED
      BY <2>1, <2>2, <2>3, <1>1, <1>2
  <1>5. ASSUME NEW v \in Worker, SentAll(v) PROVE Goal
    <2>1. entry' = entry /\ pc[v] = "sending" /\ next[v] = Parts + 1
      BY <1>5 DEF SentAll, scanVars
    <2>2. \E s \in Steps : GoTo(v, s)
      BY <1>5 DEF SentAll, Threw, Steps
    <2> QED
      BY <2>1, <2>2 DEF GoTo, Target, TypeOK
  <1>6. ASSUME NEW v \in Worker,
               AckRename(v) \/ AckUnlink(v) \/ FailRead(v) \/ FailWrite(v)
        PROVE  Goal
    <2>1. entry' = entry
      BY <1>6 DEF AckRename, AckUnlink, FailRead, FailWrite, fileStepUnchanged, scanVars
    <2>2. \E s \in Steps \ {"acking"} : GoTo(v, s)
      BY <1>6 DEF AckRename, AckUnlink, FailRead, FailWrite, Ended, Steps
    <2> QED
      BY <2>1, <2>2, <1>1
  <1>7. ASSUME NEW r \in Recovery, MoveToFailed(r) PROVE Goal
    <2>1. r \in Worker /\ GoTo(r, "idle") /\ entry' = entry
      BY <1>7 DEF MoveToFailed, fileStepUnchanged, scanVars, Worker
    <2> QED
      BY <2>1, <1>1 DEF Steps
  <1>8. ASSUME NEW r \in Recovery, NEW e \in pending[r], Take(r, e) PROVE Goal
    <2>1. \/ pc' = pc \/ GoTo(r, "reading") \/ GoTo(r, "moving") \/ GoTo(r, "sending")
      BY <1>8 DEF Take
    <2>2. pc[r] = "idle"
      BY <1>8 DEF Take
    <2>3. w # r /\ pc[w] = "acking"
      BY <2>1, <2>2 DEF GoTo, TypeOK
    <2>4. Target(w)' = Target(w)
      BY <1>8, <2>3 DEF Take, Target, TypeOK
    <2> QED
      BY <2>3, <2>4
  <1>9. ASSUME NEW r \in Recovery, RecoveryEnds(r) PROVE Goal
    <2>1. pc' = pc /\ pc[r] = "idle" /\ w # r
      BY <1>9 DEF RecoveryEnds
    <2>2. Target(w)' = Target(w)
      BY <1>9, <2>1 DEF RecoveryEnds, Target, TypeOK
    <2> QED
      BY <2>1, <2>2
  <1>10. CASE (\E r \in Recovery : Load(r) \/ RestartInProcess(r)) \/ UNCHANGED vars
    BY <1>10, <1>2 DEF Load, RestartInProcess, vars, scanVars
  <1>11. ~Crash
    BY DEF Crash
  <1> QED
    BY <1>3, <1>4, <1>5, <1>6, <1>7, <1>8, <1>9, <1>10, <1>11 DEF Next

\* An entry leaves the directory for failed/ or by an acknowledgement.
LEMMA EntryLeaves ==
  ASSUME TypeOK, [Next]_vars, NEW d \in Delivery
  PROVE  /\ failedDir[d] => failedDir'[d]
         /\ queued'[d] => queued[d] \/ Exists(d)'
         /\ Exists(d) => \/ Exists(d)' \/ failedDir'[d]
                         \/ \E w \in Worker : Target(w) = d /\ pc[w] = "acking"
  <1> USE DeliveryAssumption
  <1> DEFINE Goal == /\ failedDir[d] => failedDir'[d]
                     /\ queued'[d] => queued[d] \/ Exists(d)'
                     /\ Exists(d) => \/ Exists(d)' \/ failedDir'[d]
                                     \/ \E w \in Worker : Target(w) = d /\ pc[w] = "acking"
  <1>1. CASE UNCHANGED <<json, failedDir, queued>>
    BY <1>1 DEF Exists
  <1>2. ASSUME NEW e \in Delivery, Persist(e) PROVE Goal
    <2>1. failedDir' = failedDir
      BY <1>2 DEF Persist
    <2>2. \/ UNCHANGED <<json, queued>>
          \/ json' = [json EXCEPT ![e] = 0] /\ queued' = [queued EXCEPT ![e] = TRUE]
      BY <1>2 DEF Persist
    <2>3. /\ queued'[d] => queued[d] \/ Exists(d)'
          /\ Exists(d) => Exists(d)'
      <3>1. CASE UNCHANGED <<json, queued>>
        BY <3>1 DEF Exists
      <3>2. CASE json' = [json EXCEPT ![e] = 0] /\ queued' = [queued EXCEPT ![e] = TRUE]
        <4>1. IF d = e THEN json'[d] = 0 ELSE json'[d] = json[d]
          BY <3>2 DEF TypeOK
        <4>2. d # e => queued'[d] = queued[d]
          BY <3>2 DEF TypeOK
        <4>3. d = e => Exists(d)'
          BY <4>1 DEF Exists
        <4>4. d # e => (Exists(d)' <=> Exists(d))
          BY <4>1 DEF Exists
        <4> QED
          BY <4>2, <4>3, <4>4
      <3> QED
        BY <2>2, <3>1, <3>2
    <2> QED
      BY <2>1, <2>3
  <1>3. ASSUME NEW w \in Worker, AckRename(w) PROVE Goal
    <2>1. UNCHANGED <<failedDir, queued>> /\ pc[w] = "acking"
      BY <1>3 DEF AckRename, fileStepUnchanged
    <2>2. json' = json \/ json' = [json EXCEPT ![Target(w)] = -1]
      BY <1>3 DEF AckRename
    <2> QED
      BY <2>1, <2>2, TargetIsDelivery DEF Exists, TypeOK
  <1>4. ASSUME NEW w \in Worker, FailWrite(w) PROVE Goal
    <2>1. UNCHANGED <<failedDir, queued>> /\ json' = [json EXCEPT ![Target(w)] = readCount[w] + 1]
      BY <1>4 DEF FailWrite, fileStepUnchanged
    <2>2. readCount[w] \in Nat
      BY DEF TypeOK
    <2> QED
      BY <2>1, <2>2, TargetIsDelivery DEF Exists, TypeOK
  <1>5. ASSUME NEW r \in Recovery, MoveToFailed(r) PROVE Goal
    <2>1. queued' = queued
      BY <1>5 DEF MoveToFailed, fileStepUnchanged
    <2>2. \/ UNCHANGED <<json, failedDir>>
          \/ /\ json' = [json EXCEPT ![entry[r]] = -1]
             /\ failedDir' = [failedDir EXCEPT ![entry[r]] = TRUE]
      BY <1>5 DEF MoveToFailed
    <2> QED
      BY <2>1, <2>2 DEF Exists, TypeOK
  <1>6. ASSUME NEW w \in Worker,
               SendPart(w) \/ SentAll(w) \/ AckUnlink(w) \/ FailRead(w)
        PROVE  Goal
    BY <1>6, <1>1 DEF SendPart, SentAll, AckUnlink, FailRead, fileVars, fileStepUnchanged
  <1>7. ASSUME NEW r \in Recovery, NEW e \in pending[r], Take(r, e) PROVE Goal
    BY <1>7, <1>1 DEF Take, scanUnchanged
  <1>8. CASE \/ \E r \in Recovery : Load(r) \/ RecoveryEnds(r) \/ RestartInProcess(r)
             \/ Crash \/ UNCHANGED vars
    BY <1>8, <1>1 DEF Load, RecoveryEnds, Crash, RestartInProcess, vars, fileVars,
                      scanUnchanged
  <1> QED
    BY <1>2, <1>3, <1>4, <1>5, <1>6, <1>7, <1>8 DEF Next

-----------------------------------------------------------------------------
LEMMA IdleStep == TypeOK /\ IdleStartsFirst /\ [Next]_vars => IdleStartsFirst'
  <1> SUFFICES ASSUME TypeOK, IdleStartsFirst, [Next]_vars,
                      NEW d \in Delivery, pc'[d] = "idle"
               PROVE  next'[d] = 1
    BY DEF IdleStartsFirst
  <1> USE DeliveryAssumption
  <1>1. d \in Worker /\ d \notin Recovery /\ next[d] \in 1 .. Parts + 1
    BY DEF Worker, TypeOK
  <1> DEFINE Kept == pc[d] = "idle" /\ next'[d] = next[d]
  <1>2. SUFFICES Kept \/ next'[d] = 1
    BY <1>2 DEF IdleStartsFirst
  <1>3. ASSUME NEW e \in Delivery, Persist(e) PROVE Kept
    BY <1>1, <1>3 DEF Persist, GoTo, TypeOK
  <1>4. ASSUME NEW w \in Worker, SendPart(w) PROVE Kept
    <2>1. pc[w] = "sending" /\ (next' = next \/ next' = [next EXCEPT ![w] = @ + 1])
      BY <1>4 DEF SendPart
    <2>2. pc' = pc \/ \E s \in Steps \ {"idle"} : GoTo(w, s)
      BY <1>4 DEF SendPart, Threw, Steps
    <2> QED
      BY <1>1, <2>1, <2>2 DEF GoTo, TypeOK
  <1>5. ASSUME NEW w \in Worker,
               SentAll(w) \/ AckRename(w) \/ AckUnlink(w) \/ FailRead(w) \/ FailWrite(w)
        PROVE  Kept
    <2>1. \E s \in Steps : GoTo(w, s) /\ (s = "idle" => w \in Recovery)
      BY <1>5 DEF SentAll, Threw, AckRename, AckUnlink, FailRead, FailWrite, Ended, Steps
    <2>2. w # d
      BY <1>1, <2>1 DEF GoTo, TypeOK
    <2>3. next'[d] = next[d]
      BY <1>1, <1>5, <2>2 DEF SentAll, AckRename, AckUnlink, FailRead, FailWrite,
                              fileStepUnchanged, TypeOK
    <2> QED
      BY <1>1, <2>1, <2>2, <2>3 DEF GoTo, TypeOK
  <1>6. ASSUME NEW r \in Recovery, NEW e \in pending[r], Take(r, e) PROVE Kept
    BY <1>1, <1>6 DEF Take, GoTo, TypeOK
  <1>7. ASSUME NEW r \in Recovery,
               MoveToFailed(r) \/ Load(r) \/ RecoveryEnds(r) \/ RestartInProcess(r)
        PROVE  Kept
    BY <1>1, <1>7 DEF MoveToFailed, GoTo, Load, RecoveryEnds, RestartInProcess, TypeOK,
                      fileStepUnchanged
  <1>8. CASE UNCHANGED vars
    BY <1>8 DEF vars
  <1>9. CASE Crash
    BY <1>1, <1>9 DEF Crash
  <1> QED
    BY <1>3, <1>4, <1>5, <1>6, <1>7, <1>8, <1>9 DEF Next

LEMMA DeliveryStep == DeliveryInv /\ [Next]_vars => DeliveryInv'
  <1> SUFFICES ASSUME DeliveryInv, [Next]_vars PROVE DeliveryInv'
    OBVIOUS
  <1> USE DeliveryAssumption
  <1>1. TypeOK /\ IdleStartsFirst /\ PassedReached /\ AcksComplete /\ NotLost
    BY DEF DeliveryInv
  <1>2. TypeOK' /\ IdleStartsFirst'
    BY <1>1, DeliveryTypes, IdleStep
  <1>3. PassedReached'
    <2> SUFFICES ASSUME NEW w \in Worker, pc'[w] = "sending", Target(w)' \notin BestEffort,
                        NEW i \in 1 .. Parts, i < next'[w]
                 PROVE  copies'[Target(w)'][i] > 0
      BY DEF PassedReached
    <2>1. Passes(w)
      BY <1>1, SendingBefore
    <2>2. Target(w)' = Target(w) /\ Target(w) \in Delivery /\ pc[w] = "sending"
      BY <1>1, <2>1, TargetIsDelivery DEF Passes
    <2>3. next[w] \in 1 .. Parts + 1
      BY <1>1 DEF TypeOK
    <2>4. i < next[w] \/ (i = next[w] /\ copies'[Target(w)][i] > 0)
      BY <2>1, <2>2, <2>3 DEF Passes
    <2>5. i < next[w] => copies[Target(w)][i] > 0
      BY <1>1, <2>2 DEF PassedReached
    <2> QED
      BY <1>1, <2>2, <2>4, <2>5, HistoryGrows
  <1>4. AcksComplete'
    <2> SUFFICES ASSUME NEW w \in Worker, pc'[w] = "acking", Target(w)' \notin BestEffort
                 PROVE  Reached(Target(w))' \/ aborted'[Target(w)']
      BY DEF AcksComplete
    <2>1. Target(w)' = Target(w) /\ Target(w) \in Delivery
      BY <1>1, AckingBefore, TargetIsDelivery
    <2>2. Reached(Target(w)) => Reached(Target(w))'
      BY <1>1, <2>1, HistoryGrows DEF Reached
    <2>3. CASE pc[w] = "acking"
      BY <1>1, <2>1, <2>2, <2>3, HistoryGrows DEF AcksComplete
    <2>4. CASE pc[w] = "sending" /\ next[w] = Parts + 1
      BY <1>1, <2>1, <2>2, <2>4 DEF PassedReached, Reached
    <2>5. CASE aborted'[Target(w)]
      BY <2>1, <2>5
    <2> QED
      BY <1>1, <2>3, <2>4, <2>5, AckingBefore
  <1>5. NotLost'
    <2> SUFFICES ASSUME NEW d \in Delivery, queued'[d], d \notin BestEffort, ~aborted'[d],
                        ~Reached(d)', ~Exists(d)', ~failedDir'[d]
                 PROVE  FALSE
      BY DEF NotLost
    <2>1. queued[d] /\ ~failedDir[d]
      BY <1>1, EntryLeaves
    <2>2. ~aborted[d] /\ ~Reached(d)
      BY <1>1, HistoryGrows DEF Reached
    <2>3. Exists(d)
      BY <1>1, <2>1, <2>2 DEF NotLost
    <2>4. PICK w \in Worker : Target(w) = d /\ pc[w] = "acking"
      BY <1>1, <2>3, EntryLeaves
    <2> QED
      BY <1>1, <2>2, <2>4 DEF AcksComplete
  <1> QED
    BY <1>2, <1>3, <1>4, <1>5 DEF DeliveryInv

THEOREM DeliveryInvariance == Spec => []DeliveryInv
  <1> QED
    BY DeliveryInitially, DeliveryStep, PTL DEF Spec

\* deliverOutboundPayloads and recoverPendingDeliveries keep the types of the
\* bookkeeping, whatever they interleave with.
THEOREM DeliveryTypeCorrect == Spec => []TypeOK
  <1>1. DeliveryInv => TypeOK
    BY DEF DeliveryInv
  <1> QED
    BY <1>1, DeliveryInvariance, PTL

\* The write-ahead promise of deliver.ts, for any number of deliveries and
\* payloads, any traffic during recovery and any number of crashes: an entry
\* leaves the directory only when the delivery reached the recipient, was
\* aborted or was moved to failed/.
THEOREM DeliveryNotLost == Spec => []NotLost
  <1>1. DeliveryInv => NotLost
    BY DEF DeliveryInv
  <1> QED
    BY <1>1, DeliveryInvariance, PTL

-----------------------------------------------------------------------------
(***************************************************************************)
(* An acknowledgement is final, and recovery gives up.  Both are promises   *)
(* about one worker at a time: as long as no recovery found an entry in the *)
(* hands of another worker, the entry has one worker, which knows what the  *)
(* file says.                                                               *)
(***************************************************************************)
\* While a recovery is not running it has no entries and works on none.
RecoveryAtRest ==
    \A r \in Recovery : scan[r] # "running" => pending[r] = {} /\ pc[r] = "idle"

\* A delivery that has not begun has no entry that anyone could have found.
IdleIsNew == \A d \in Delivery : pc[d] = "idle" => ~queued[d] /\ ~Exists(d) /\ d \notin shared

\* Only a worker with an entry does the bookkeeping of one.
BookedOnly ==
    \A w \in Worker :
        pc[w] \in {"acking", "unlinking", "reading", "writing"} => Booked(w)

\* A recovery has read each entry once, and not the one it works on.
EntriesOnce ==
    \A r \in Recovery :
        /\ \A e, f \in pending[r] : e.id = f.id => e = f
        /\ pc[r] # "idle" => \A e \in pending[r] : e.id # entry[r]

\* An entry a recovery has read, in the hands of nobody else, is its alone.
Holds(r, d) == (\E e \in pending[r] : e.id = d) \/ (pc[r] # "idle" /\ entry[r] = d)
RecoveryAlone ==
    \A d \in Delivery \ shared : \A r \in Recovery :
        Holds(r, d) => pc[d] = "done" /\ \A q \in Recovery : Holds(q, d) => q = r

\* What a recovery has read is still in the file.
PendingCurrent ==
    \A r \in Recovery : \A e \in pending[r] : e.id \in shared \/ json[e.id] = e.retries

\* A worker has the file, and the count it has read, until it renames it.
Active == {"sending", "acking", "reading", "writing", "moving"}
WorkedOnExists ==
    \A w \in Worker : Target(w) \notin shared /\ pc[w] \in Active /\ Booked(w)
                      => Exists(Target(w))
ReadIsCurrent ==
    \A w \in Worker : Target(w) \notin shared /\ pc[w] = "writing"
                      => json[Target(w)] = readCount[w]

OwnerInv ==
    /\ RecoveryAtRest /\ IdleIsNew /\ BookedOnly /\ EntriesOnce /\ RecoveryAlone
    /\ PendingCurrent /\ WorkedOnExists /\ ReadIsCurrent

\* A worker that is about to acknowledge, count or move away.
Busy(w) == pc[w] \notin {"idle", "done"}

LEMMA OwnerInitially == Init => OwnerInv
  <1> SUFFICES ASSUME Init PROVE OwnerInv
    OBVIOUS
  <1> USE DeliveryAssumption DEF Init
  <1>1. /\ \A w \in Worker : pc[w] = "idle"
        /\ Recovery \subseteq Worker /\ shared = {}
        /\ \A r \in Recovery : pending[r] = {}
        /\ \A d \in Delivery : json[d] = -1 /\ ~queued[d]
    BY Zenon DEF Worker
  <1>2. RecoveryAtRest /\ EntriesOnce /\ RecoveryAlone /\ PendingCurrent
    BY <1>1 DEF RecoveryAtRest, EntriesOnce, RecoveryAlone, Holds,
                    PendingCurrent
  <1>3. IdleIsNew
    BY <1>1 DEF IdleIsNew, Exists
  <1>4. BookedOnly /\ WorkedOnExists /\ ReadIsCurrent
    BY <1>1 DEF BookedOnly, WorkedOnExists, ReadIsCurrent, Active
  <1> QED
    BY <1>2, <1>3, <1>4 DEF OwnerInv

-----------------------------------------------------------------------------
(***************************************************************************)
(* A step of the sending or the bookkeeping touches one worker and the      *)
(* entry it works on.                                                       *)
(***************************************************************************)
Works(w) ==
    \/ SendPart(w) \/ SentAll(w) \/ AckRename(w) \/ AckUnlink(w)
    \/ FailRead(w) \/ FailWrite(w) \/ (w \in Recovery /\ MoveToFailed(w))

LEMMA WorksOnItsOwn ==
  ASSUME TypeOK, NEW w \in Worker, Works(w)
  PROVE  /\ Busy(w) /\ UNCHANGED <<scanVars, queued>>
         /\ \A v \in Worker : v # w => pc'[v] = pc[v] /\ readCount'[v] = readCount[v]
         /\ \A d \in Delivery : d # Target(w) => json'[d] = json[d] /\ copies'[d] = copies[d]
  <1> USE DeliveryAssumption
  <1>1. Busy(w) /\ UNCHANGED <<scanVars, queued>>
    BY DEF Works, Busy, SendPart, SentAll, AckRename, AckUnlink, FailRead, FailWrite,
           MoveToFailed, fileStepUnchanged
  <1>2. pc' = pc \/ \E s \in Steps : GoTo(w, s)
    <2>1. CASE SendPart(w) \/ SentAll(w)
      BY <2>1 DEF SendPart, SentAll, Threw, Steps
    <2>2. CASE ~(SendPart(w) \/ SentAll(w))
      BY <2>2 DEF Works, AckRename, AckUnlink, FailRead, FailWrite, MoveToFailed, Ended, Steps
    <2> QED
      BY <2>1, <2>2
  <1>3. \A v \in Worker : v # w => pc'[v] = pc[v]
    BY <1>2 DEF GoTo, TypeOK
  <1>4. readCount' = readCount \/ \E n : readCount' = [readCount EXCEPT ![w] = n]
    BY DEF Works, SendPart, SentAll, AckRename, AckUnlink, FailRead, FailWrite, MoveToFailed
  <1>5. \A v \in Worker : v # w => readCount'[v] = readCount[v]
    BY <1>4 DEF TypeOK
  <1>6. json' = json \/ \E n : json' = [json EXCEPT ![Target(w)] = n]
    BY DEF Works, SendPart, SentAll, AckRename, AckUnlink, FailRead, FailWrite, MoveToFailed,
           fileVars, Target
  <1>7. copies' = copies \/ copies' = OneMore(Target(w), next[w])
    BY DEF Works, SendPart, SentAll, AckRename, AckUnlink, FailRead, FailWrite, MoveToFailed,
           fileStepUnchanged, historyVars, OneMore
  <1>8. \A d \in Delivery : d # Target(w) => json'[d] = json[d] /\ copies'[d] = copies[d]
    BY <1>6, <1>7 DEF TypeOK, OneMore
  <1> QED
    BY <1>1, <1>3, <1>5, <1>8

\* Where the step leaves the worker: it keeps the file unless it renames it,
\* and has read what it is about to write.
LEMMA WorksUpToRename ==
  ASSUME TypeOK, BookedOnly, NEW w \in Worker, Works(w)
  PROVE  /\ pc'[w] = "idle" => w \in Recovery
         /\ pc'[w] \in {"acking", "unlinking", "reading", "writing"} => Booked(w)
         /\ pc'[w] \in Active =>
               pc[w] \in Active /\ json'[Target(w)] = json[Target(w)]
         /\ pc'[w] = "writing" => json[Target(w)] = readCount'[w] /\ Exists(Target(w))
  <1> USE DeliveryAssumption
  <1> DEFINE Goal == /\ pc'[w] = "idle" => w \in Recovery
                     /\ pc'[w] \in {"acking", "unlinking", "reading", "writing"} => Booked(w)
                     /\ pc'[w] \in Active =>
                           pc[w] \in Active /\ json'[Target(w)] = json[Target(w)]
                     /\ pc'[w] = "writing" =>
                           json[Target(w)] = readCount'[w] /\ Exists(Target(w))
  <1>1. CASE SendPart(w) \/ SentAll(w)
    <2>1. json' = json /\ pc[w] = "sending"
      BY <1>1 DEF SendPart, SentAll, fileVars
    <2>2. \/ pc' = pc \/ GoTo(w, "done")
          \/ Booked(w) /\ (GoTo(w, "acking") \/ GoTo(w, "reading"))
          \/ w \in Recovery /\ GoTo(w, "moving")
      <3>1. CASE SendPart(w)
        <4>1. \/ pc' = pc \/ Threw(w)
              \/ w \notin Recovery /\ GoTo(w, IF queued[w] THEN "acking" ELSE "done")
          BY <3>1, Zenon DEF SendPart, Target
        <4>2. w \notin Recovery /\ queued[w] => Booked(w)
          BY DEF Booked, Worker
        <4> QED
          BY <4>1, <4>2 DEF Threw
      <3>2. CASE SentAll(w)
        <4>1. \/ Threw(w) \/ GoTo(w, "done")
              \/ Booked(w) /\ (GoTo(w, "acking") \/ GoTo(w, "reading"))
          BY <3>2, Zenon DEF SentAll
        <4> QED
          BY <4>1 DEF Threw
      <3> QED
        BY <1>1, <3>1, <3>2
    <2> QED
      BY <2>1, <2>2 DEF Active, GoTo, TypeOK
  <1>2. CASE AckRename(w)
    <2>1. pc[w] = "acking" /\ Booked(w)
      BY <1>2 DEF AckRename, BookedOnly
    <2>2. \/ GoTo(w, "unlinking") \/ GoTo(w, Ended(w)) \/ GoTo(w, "done")
          \/ json' = json /\ GoTo(w, "reading")
      BY <1>2 DEF AckRename
    <2> QED
      BY <2>1, <2>2 DEF Active, GoTo, TypeOK, Ended
  <1>3. CASE AckUnlink(w) \/ FailWrite(w)
    <2>1. GoTo(w, Ended(w))
      BY <1>3 DEF AckUnlink, FailWrite
    <2> QED
      BY <2>1 DEF Active, GoTo, TypeOK, Ended
  <1>4. CASE FailRead(w)
    <2>1. pc[w] = "reading" /\ Booked(w) /\ json' = json
      BY <1>4 DEF FailRead, BookedOnly, fileVars
    <2>2. \/ GoTo(w, Ended(w))
          \/ /\ Exists(Target(w)) /\ GoTo(w, "writing")
             /\ readCount' = [readCount EXCEPT ![w] = json[Target(w)]]
      BY <1>4 DEF FailRead
    <2> QED
      BY <2>1, <2>2 DEF Active, GoTo, TypeOK, Ended
  <1>5. CASE w \in Recovery /\ MoveToFailed(w)
    BY <1>5 DEF MoveToFailed, Active, GoTo, TypeOK
  <1> QED
    BY <1>1, <1>2, <1>3, <1>4, <1>5 DEF Works

\* The steps of Next, by what they are about.
LEMMA DeliverySteps ==
  ASSUME [Next]_vars
  PROVE  \/ \E d \in Delivery : Persist(d)
         \/ \E w \in Worker : Works(w)
         \/ \E r \in Recovery : \/ Load(r) \/ (\E e \in pending[r] : Take(r, e))
                                \/ RecoveryEnds(r) \/ RestartInProcess(r)
         \/ Crash \/ UNCHANGED vars
BY DEF Next, Works, Worker

-----------------------------------------------------------------------------
\* An entry that no recovery found in other hands has at most one worker.
LEMMA OneWorker ==
  ASSUME TypeOK, OwnerInv, NEW v \in Worker, NEW w \in Worker, v # w,
         Busy(v), Busy(w), Target(w) \notin shared
  PROVE  Target(v) # Target(w)
  <1> USE DeliveryAssumption
  <1> SUFFICES ASSUME Target(v) = Target(w) PROVE FALSE
    OBVIOUS
  <1>1. Target(w) \in Delivery \ shared
    BY TargetIsDelivery
  <1>2. \A x \in {v, w} : x \in Recovery => Holds(x, Target(w))
    BY DEF Holds, Target, Busy
  <1>3. \A x \in {v, w} : x \notin Recovery => x = Target(w)
    BY DEF Target
  <1>4. v \in Recovery \/ w \in Recovery
    BY <1>3
  <1>5. pc[Target(w)] = "done"
    BY <1>1, <1>2, <1>4 DEF OwnerInv, RecoveryAlone
  <1>6. v \in Recovery /\ w \in Recovery
    BY <1>3, <1>5 DEF Busy
  <1> QED
    BY <1>1, <1>2, <1>6 DEF OwnerInv, RecoveryAlone

\* The step of one worker.
LEMMA WorkKeepsOwner ==
  ASSUME TypeOK, TypeOK', OwnerInv, NEW w \in Worker, Works(w)
  PROVE  OwnerInv'
  <1> USE DeliveryAssumption
  <1>1. /\ RecoveryAtRest /\ IdleIsNew /\ BookedOnly /\ EntriesOnce /\ RecoveryAlone
        /\ PendingCurrent /\ WorkedOnExists /\ ReadIsCurrent
    BY DEF OwnerInv
  <1>2. Busy(w) /\ UNCHANGED <<scan, pending, entry, late, shared, queued>>
    BY WorksOnItsOwn DEF scanVars
  <1>3. \A v \in Worker : v # w => pc'[v] = pc[v] /\ readCount'[v] = readCount[v]
    BY WorksOnItsOwn
  <1>4. \A d \in Delivery : d # Target(w) => json'[d] = json[d]
    BY WorksOnItsOwn
  <1>5. /\ pc'[w] = "idle" => w \in Recovery
        /\ pc'[w] \in {"acking", "unlinking", "reading", "writing"} => Booked(w)
        /\ pc'[w] \in Active => pc[w] \in Active /\ json'[Target(w)] = json[Target(w)]
        /\ pc'[w] = "writing" => json[Target(w)] = readCount'[w] /\ Exists(Target(w))
    BY <1>1, WorksUpToRename
  <1>6. \A v \in Worker : /\ Target(v)' = Target(v) /\ Target(v) \in Delivery
                          /\ Booked(v)' = Booked(v)
    BY <1>2, TargetIsDelivery DEF Target, Booked
  <1>7. \A v \in Worker : v # w /\ Busy(v) /\ Target(w) \notin shared
                          => Target(v) # Target(w)
    BY <1>2, OneWorker
  <1>7a. \A v \in Worker : v # w /\ Busy(v) /\ Target(v) \notin shared
                          => json'[Target(v)] = json[Target(v)]
    BY <1>2, <1>4, <1>6, <1>7
  <1>8. /\ Recovery \subseteq Worker
        /\ \A d \in Delivery : d \in Worker /\ d \notin Recovery /\ Target(d) = d
    BY DEF Worker, Target
  <1>9. \A r \in Recovery : /\ pc'[r] # "idle" => pc[r] # "idle"
                            /\ \A d \in Delivery : Holds(r, d)' => Holds(r, d)
    <2>1. \A r \in Recovery : pc'[r] # "idle" => pc[r] # "idle"
      BY <1>2, <1>3, <1>8 DEF Busy
    <2> QED
      BY <1>2, <2>1 DEF Holds
  <1>10. RecoveryAtRest'
    <2> SUFFICES ASSUME NEW r \in Recovery, scan[r] # "running"
                 PROVE  pending[r] = {} /\ pc'[r] = "idle"
      BY <1>2 DEF RecoveryAtRest
    <2> QED
      BY <1>1, <1>9 DEF RecoveryAtRest
  <1>11. IdleIsNew'
    <2> SUFFICES ASSUME NEW d \in Delivery, pc'[d] = "idle"
                 PROVE  ~queued[d] /\ ~Exists(d)' /\ d \notin shared
      BY <1>2 DEF IdleIsNew
    <2>1. d # w /\ pc[d] = "idle"
      BY <1>2, <1>3, <1>5, <1>8 DEF Busy
    <2>2. ~queued[d] /\ ~Exists(d) /\ d \notin shared
      BY <1>1, <2>1 DEF IdleIsNew
    <2>3. Target(w) # d
      <3> SUFFICES ASSUME Target(w) = d PROVE FALSE
        OBVIOUS
      <3>1. w \in Recovery /\ entry[w] = d
        BY <2>1 DEF Target
      <3> QED
        BY <1>1, <1>2, <2>1, <2>2, <3>1 DEF RecoveryAlone, Holds, Busy
    <2> QED
      BY <1>4, <2>2, <2>3 DEF Exists
  <1>12. BookedOnly'
    BY <1>1, <1>3, <1>5, <1>6 DEF BookedOnly
  <1>13. EntriesOnce'
    BY <1>1, <1>2, <1>9 DEF EntriesOnce
  <1>14. RecoveryAlone'
    <2> SUFFICES ASSUME NEW d \in Delivery \ shared, NEW r \in Recovery, Holds(r, d)'
                 PROVE  pc'[d] = "done" /\ \A q \in Recovery : Holds(q, d)' => q = r
      BY <1>2 DEF RecoveryAlone
    <2>1. pc[d] = "done" /\ \A q \in Recovery : Holds(q, d) => q = r
      BY <1>1, <1>9 DEF RecoveryAlone
    <2>2. pc'[d] = "done"
      BY <1>2, <1>3, <1>8, <2>1 DEF Busy
    <2> QED
      BY <1>9, <2>1, <2>2
  <1>15. PendingCurrent'
    <2> SUFFICES ASSUME NEW r \in Recovery, NEW e \in pending[r], e.id \notin shared
                 PROVE  json'[e.id] = e.retries
      BY <1>2 DEF PendingCurrent
    <2>1. e.id \in Delivery /\ json[e.id] = e.retries
      BY <1>1 DEF PendingCurrent, TypeOK, Entry
    <2>2. Holds(r, e.id)
      BY DEF Holds
    <2>3. pc[e.id] = "done" /\ \A q \in Recovery : Holds(q, e.id) => q = r
      BY <1>1, <2>1, <2>2 DEF RecoveryAlone
    <2>4. Target(w) # e.id
      <3> SUFFICES ASSUME Target(w) = e.id PROVE FALSE
        OBVIOUS
      <3>1. w \in Recovery /\ entry[w] = e.id /\ pc[w] # "idle"
        BY <1>2, <2>3 DEF Target, Busy
      <3>2. w = r
        BY <2>3, <3>1 DEF Holds
      <3> QED
        BY <1>1, <3>1, <3>2 DEF EntriesOnce
    <2> QED
      BY <1>4, <2>1, <2>4
  <1>16. WorkedOnExists'
    <2> SUFFICES ASSUME NEW v \in Worker, Target(v) \notin shared, pc'[v] \in Active, Booked(v)
                 PROVE  json'[Target(v)] >= 0
      BY <1>2, <1>6 DEF WorkedOnExists, Exists
    <2>1. pc[v] \in Active /\ json'[Target(v)] = json[Target(v)]
      BY <1>3, <1>5, <1>7a DEF Active, Busy
    <2> QED
      BY <1>1, <2>1 DEF WorkedOnExists, Exists
  <1>17. ReadIsCurrent'
    <2> SUFFICES ASSUME NEW v \in Worker, Target(v) \notin shared, pc'[v] = "writing"
                 PROVE  json'[Target(v)] = readCount'[v]
      BY <1>2, <1>6 DEF ReadIsCurrent
    <2>1. CASE v = w
      BY <1>5, <2>1 DEF Active
    <2>2. CASE v # w
      BY <1>1, <1>3, <1>7a, <2>2 DEF ReadIsCurrent, Busy
    <2> QED
      BY <2>1, <2>2
  <1> QED
    BY <1>10, <1>11, <1>12, <1>13, <1>14, <1>15, <1>16, <1>17 DEF OwnerInv

\* A new delivery: its entry appears, with no worker but its sender.
LEMMA PersistKeepsOwner ==
  ASSUME TypeOK, TypeOK', OwnerInv, NEW d \in Delivery, Persist(d)
  PROVE  OwnerInv'
  <1> USE DeliveryAssumption
  <1>1. /\ RecoveryAtRest /\ IdleIsNew /\ BookedOnly /\ EntriesOnce /\ RecoveryAlone
        /\ PendingCurrent /\ WorkedOnExists /\ ReadIsCurrent
    BY DEF OwnerInv
  <1>2. /\ pc[d] = "idle" /\ ~queued[d] /\ ~Exists(d) /\ d \notin shared
        /\ UNCHANGED <<scan, pending, entry, late, shared, readCount>>
    BY <1>1 DEF Persist, IdleIsNew, scanVars
  <1>3. /\ d \in Worker /\ Recovery \subseteq Worker
        /\ \A c \in Delivery : c \in Worker /\ c \notin Recovery
    BY DEF Worker
  <1>4. pc'[d] = "sending" /\ \A v \in Worker : v # d => pc'[v] = pc[v]
    BY <1>3 DEF Persist, GoTo, TypeOK
  <1>5. /\ \A c \in Delivery : c # d => json'[c] = json[c] /\ queued'[c] = queued[c]
        /\ queued'[d] => json'[d] >= 0
    <2>1. CASE UNCHANGED <<json, queued>>
      BY <1>2, <2>1
    <2>2. CASE json' = [json EXCEPT ![d] = 0] /\ queued' = [queued EXCEPT ![d] = TRUE]
      <3>1. json'[d] = 0 /\ \A c \in Delivery : c # d => json'[c] = json[c]
        BY <2>2 DEF TypeOK
      <3>2. \A c \in Delivery : c # d => queued'[c] = queued[c]
        BY <2>2 DEF TypeOK
      <3> QED
        BY <3>1, <3>2
    <2> QED
      BY <2>1, <2>2 DEF Persist
  <1>6. \A v \in Worker : Target(v)' = Target(v) /\ Target(v) \in Delivery
    BY <1>2, TargetIsDelivery DEF Target
  <1>7. \A r \in Recovery : ~Holds(r, d)
    BY <1>1, <1>2 DEF RecoveryAlone
  <1>8. \A v \in Worker : v # d /\ Busy(v) => Target(v) # d
    BY <1>7 DEF Target, Holds, Busy
  <1>9. \A r \in Recovery : /\ pc'[r] = pc[r]
                            /\ \A c \in Delivery : Holds(r, c)' = Holds(r, c)
    BY <1>2, <1>3, <1>4 DEF Holds
  <1>10. RecoveryAtRest' /\ EntriesOnce'
    BY <1>1, <1>2, <1>9 DEF RecoveryAtRest, EntriesOnce
  <1>11. IdleIsNew'
    <2> SUFFICES ASSUME NEW c \in Delivery, pc'[c] = "idle"
                 PROVE  ~queued'[c] /\ ~(json'[c] >= 0) /\ c \notin shared
      BY <1>2 DEF IdleIsNew, Exists
    <2> QED
      BY <1>1, <1>3, <1>4, <1>5 DEF IdleIsNew, Exists
  <1>12. \A v \in Worker : v # d => Booked(v)' = Booked(v)
    BY <1>3, <1>5 DEF Booked, Worker
  <1>13. BookedOnly'
    BY <1>1, <1>4, <1>12 DEF BookedOnly
  <1>14. RecoveryAlone'
    <2> SUFFICES ASSUME NEW c \in Delivery \ shared, NEW r \in Recovery, Holds(r, c)'
                 PROVE  pc'[c] = "done" /\ \A q \in Recovery : Holds(q, c)' => q = r
      BY <1>2 DEF RecoveryAlone
    <2>1. Holds(r, c) /\ c # d
      BY <1>7, <1>9
    <2>2. pc[c] = "done" /\ \A q \in Recovery : Holds(q, c) => q = r
      BY <1>1, <2>1 DEF RecoveryAlone
    <2> QED
      BY <1>3, <1>4, <1>9, <2>1, <2>2
  <1>15. PendingCurrent'
    <2> SUFFICES ASSUME NEW r \in Recovery, NEW e \in pending[r], e.id \notin shared
                 PROVE  json'[e.id] = e.retries
      BY <1>2 DEF PendingCurrent
    <2>1. e.id \in Delivery /\ e.id # d /\ json[e.id] = e.retries
      BY <1>1, <1>7 DEF PendingCurrent, TypeOK, Entry, Holds
    <2> QED
      BY <1>5, <2>1
  <1>16. WorkedOnExists'
    <2> SUFFICES ASSUME NEW v \in Worker, Target(v) \notin shared, pc'[v] \in Active,
                        Booked(v)'
                 PROVE  json'[Target(v)] >= 0
      BY <1>2, <1>6 DEF WorkedOnExists, Exists
    <2>1. CASE v = d
      BY <1>3, <1>5, <2>1 DEF Booked, Target
    <2>2. CASE v # d
      BY <1>1, <1>4, <1>5, <1>6, <1>8, <1>12, <2>2 DEF WorkedOnExists, Exists, Active, Busy
    <2> QED
      BY <2>1, <2>2
  <1>17. ReadIsCurrent'
    <2> SUFFICES ASSUME NEW v \in Worker, Target(v) \notin shared, pc'[v] = "writing"
                 PROVE  json'[Target(v)] = readCount[v]
      BY <1>2, <1>6 DEF ReadIsCurrent
    <2>1. v # d /\ pc[v] = "writing" /\ Target(v) # d
      BY <1>4, <1>8 DEF Busy
    <2> QED
      BY <1>1, <1>5, <1>6, <2>1 DEF ReadIsCurrent
  <1> QED
    BY <1>10, <1>11, <1>13, <1>14, <1>15, <1>16, <1>17 DEF OwnerInv

\* A recovery reads the directory.
LEMMA LoadKeepsOwner ==
  ASSUME TypeOK, TypeOK', OwnerInv, NEW r \in Recovery, Load(r)
  PROVE  OwnerInv'
  <1> USE DeliveryAssumption
  <1>1. /\ RecoveryAtRest /\ IdleIsNew /\ BookedOnly /\ EntriesOnce /\ RecoveryAlone
        /\ PendingCurrent /\ WorkedOnExists /\ ReadIsCurrent
    BY DEF OwnerInv
  <1>2. /\ scan[r] = "due" /\ scan' = [scan EXCEPT ![r] = "running"]
        /\ UNCHANGED <<json, pc, entry, readCount, queued>>
        /\ shared \subseteq shared'
    BY DEF Load, scanUnchanged
  <1>3. pc[r] = "idle" /\ scan'[r] = "running"
        /\ \A q \in Recovery : q # r => scan'[q] = scan[q] /\ pending'[q] = pending[q]
    BY <1>1, <1>2 DEF RecoveryAtRest, Load, TypeOK
  <1>4. \A e \in pending'[r] : /\ e.id \in Delivery /\ Exists(e.id)
                               /\ e = [id |-> e.id, retries |-> json[e.id]]
    <2>1. pending'[r] = {[id |-> d, retries |-> json[d]] : d \in {x \in Delivery : Exists(x)}}
      BY DEF Load, TypeOK
    <2> QED
      BY <2>1
  <1>5. \A d \in Delivery : Exists(d) /\ d \notin shared' =>
            pc[d] = "done" /\ \A q \in Recovery : ~Holds(q, d)
    <2> SUFFICES ASSUME NEW d \in Delivery, Exists(d), d \notin shared'
                 PROVE  pc[d] = "done" /\ \A q \in Recovery : ~Holds(q, d)
      OBVIOUS
    <2>1. ~InHands(d)
      BY DEF Load
    <2>2. pc[d] # "idle"
      BY <1>1 DEF IdleIsNew
    <2> QED
      BY <2>1, <2>2 DEF InHands, Holds
  <1>6. RecoveryAtRest'
    BY <1>1, <1>2, <1>3 DEF RecoveryAtRest
  <1>7. IdleIsNew'
    BY <1>1, <1>2 DEF IdleIsNew, Load, Exists
  <1>8. BookedOnly'
    BY <1>1, <1>2 DEF BookedOnly, Booked
  <1>9. EntriesOnce'
    <2> SUFFICES ASSUME NEW q \in Recovery
                 PROVE  /\ \A e, f \in pending'[q] : e.id = f.id => e = f
                        /\ pc[q] # "idle" => \A e \in pending'[q] : e.id # entry[q]
      BY <1>2 DEF EntriesOnce
    <2>1. CASE q = r
      BY <1>3, <1>4, <2>1
    <2>2. CASE q # r
      BY <1>1, <1>3, <2>2 DEF EntriesOnce
    <2> QED
      BY <2>1, <2>2
  <1>10. RecoveryAlone'
    <2> SUFFICES ASSUME NEW d \in Delivery \ shared', NEW q \in Recovery, Holds(q, d)'
                 PROVE  pc[d] = "done" /\ \A p \in Recovery : Holds(p, d)' => p = q
      BY <1>2 DEF RecoveryAlone
    <2>1. \A p \in Recovery : p # r => Holds(p, d)' = Holds(p, d)
      BY <1>2, <1>3 DEF Holds
    <2>2. Holds(r, d)' => pc[d] = "done" /\ \A p \in Recovery : ~Holds(p, d)
      BY <1>2, <1>3, <1>4, <1>5 DEF Holds
    <2>3. Holds(q, d) => pc[d] = "done" /\ \A p \in Recovery : Holds(p, d) => p = q
      BY <1>1, <1>2 DEF RecoveryAlone
    <2> QED
      BY <2>1, <2>2, <2>3
  <1>11. PendingCurrent'
    <2> SUFFICES ASSUME NEW q \in Recovery, NEW e \in pending'[q], e.id \notin shared'
                 PROVE  json[e.id] = e.retries
      BY <1>2 DEF PendingCurrent
    <2>1. CASE q = r
      BY <1>4, <2>1
    <2>2. CASE q # r
      BY <1>1, <1>2, <1>3, <2>2 DEF PendingCurrent
    <2> QED
      BY <2>1, <2>2
  <1>12. WorkedOnExists' /\ ReadIsCurrent'
    BY <1>1, <1>2 DEF WorkedOnExists, ReadIsCurrent, Target, Booked, Exists
  <1> QED
    BY <1>6, <1>7, <1>8, <1>9, <1>10, <1>11, <1>12 DEF OwnerInv

\* A recovery goes on to an entry it has read.
LEMMA TakeKeepsOwner ==
  ASSUME TypeOK, TypeOK', OwnerInv, NEW r \in Recovery, NEW e \in pending[r], Take(r, e)
  PROVE  OwnerInv'
  <1> USE DeliveryAssumption
  <1>1. /\ RecoveryAtRest /\ IdleIsNew /\ BookedOnly /\ EntriesOnce /\ RecoveryAlone
        /\ PendingCurrent /\ WorkedOnExists /\ ReadIsCurrent
    BY DEF OwnerInv
  <1>2. /\ scan[r] = "running" /\ pc[r] = "idle"
        /\ pending'[r] = pending[r] \ {e} /\ entry'[r] = e.id
        /\ \A q \in Recovery : q # r => pending'[q] = pending[q] /\ entry'[q] = entry[q]
        /\ UNCHANGED <<scan, shared, json, readCount, queued>>
    BY DEF Take, scanUnchanged, TypeOK
  <1>3. e.id \in Delivery /\ (e.id \in shared \/ Exists(e.id))
    <2>1. e.id \in Delivery /\ e.retries \in Nat
      BY DEF TypeOK, Entry
    <2> QED
      BY <1>1, <2>1 DEF PendingCurrent, Exists
  <1>4. r \in Worker /\ \A d \in Delivery : d \in Worker /\ d # r
    BY DEF Worker
  <1>5. /\ pc'[r] \in {"idle", "reading", "moving", "sending"}
        /\ \A v \in Worker : v # r => pc'[v] = pc[v]
    <2>1. \/ pc' = pc \/ GoTo(r, "reading") \/ GoTo(r, "moving") \/ GoTo(r, "sending")
      BY DEF Take
    <2> QED
      BY <1>2, <1>4, <2>1 DEF GoTo, TypeOK
  <1>6. \A v \in Worker : /\ v # r => Target(v)' = Target(v)
                          /\ Booked(v)' = Booked(v)
    BY <1>2 DEF Target, Booked
  <1>7. Target(r)' = e.id
    BY <1>2 DEF Target
  <1>8. RecoveryAtRest'
    <2> SUFFICES ASSUME NEW q \in Recovery, scan[q] # "running"
                 PROVE  pending'[q] = {} /\ pc'[q] = "idle"
      BY <1>2 DEF RecoveryAtRest
    <2>1. q # r /\ q \in Worker
      BY <1>2 DEF Worker
    <2> QED
      BY <1>1, <1>2, <1>5, <2>1 DEF RecoveryAtRest
  <1>9. IdleIsNew'
    BY <1>1, <1>2, <1>4, <1>5 DEF IdleIsNew, Exists
  <1>10. BookedOnly'
    <2> SUFFICES ASSUME NEW v \in Worker,
                        pc'[v] \in {"acking", "unlinking", "reading", "writing"}
                 PROVE  Booked(v)'
      BY DEF BookedOnly
    <2>1. CASE v = r
      BY <2>1 DEF Booked
    <2>2. CASE v # r
      BY <1>1, <1>5, <1>6, <2>2 DEF BookedOnly
    <2> QED
      BY <2>1, <2>2
  <1>11. EntriesOnce'
    <2> SUFFICES ASSUME NEW q \in Recovery
                 PROVE  /\ \A f, g \in pending'[q] : f.id = g.id => f = g
                        /\ pc'[q] # "idle" => \A f \in pending'[q] : f.id # entry'[q]
      BY DEF EntriesOnce
    <2>1. CASE q = r
      BY <1>1, <1>2, <2>1 DEF EntriesOnce
    <2>2. CASE q # r
      BY <1>1, <1>2, <1>5, <2>2 DEF EntriesOnce, Worker
    <2> QED
      BY <2>1, <2>2
  <1>12. RecoveryAlone'
    <2>1. \A q \in Recovery : \A d \in Delivery : Holds(q, d)' => Holds(q, d)
      <3> SUFFICES ASSUME NEW q \in Recovery, NEW d \in Delivery, Holds(q, d)'
                   PROVE  Holds(q, d)
        OBVIOUS
      <3>1. CASE q = r
        BY <1>2, <3>1 DEF Holds
      <3>2. CASE q # r
        BY <1>2, <1>5, <3>2 DEF Holds, Worker
      <3> QED
        BY <3>1, <3>2
    <2> SUFFICES ASSUME NEW d \in Delivery \ shared, NEW q \in Recovery, Holds(q, d)'
                 PROVE  pc'[d] = "done" /\ \A p \in Recovery : Holds(p, d)' => p = q
      BY <1>2 DEF RecoveryAlone
    <2>2. pc[d] = "done" /\ \A p \in Recovery : Holds(p, d) => p = q
      BY <1>1, <2>1 DEF RecoveryAlone
    <2> QED
      BY <1>4, <1>5, <2>1, <2>2
  <1>13. PendingCurrent'
    <2> SUFFICES ASSUME NEW q \in Recovery, NEW f \in pending'[q], f.id \notin shared
                 PROVE  json[f.id] = f.retries
      BY <1>2 DEF PendingCurrent
    <2> QED
      BY <1>1, <1>2 DEF PendingCurrent
  <1>14. WorkedOnExists'
    <2> SUFFICES ASSUME NEW v \in Worker, Target(v)' \notin shared, pc'[v] \in Active,
                        Booked(v)
                 PROVE  json[Target(v)'] >= 0
      BY <1>2, <1>6 DEF WorkedOnExists, Exists
    <2>1. CASE v = r
      BY <1>3, <1>7, <2>1 DEF Exists
    <2>2. CASE v # r
      BY <1>1, <1>5, <1>6, <2>2 DEF WorkedOnExists, Exists
    <2> QED
      BY <2>1, <2>2
  <1>15. ReadIsCurrent'
    BY <1>1, <1>2, <1>5, <1>6 DEF ReadIsCurrent
  <1> QED
    BY <1>8, <1>9, <1>10, <1>11, <1>12, <1>13, <1>14, <1>15 DEF OwnerInv

\* A recovery ends, or the next one is started.
LEMMA RestKeepsOwner ==
  ASSUME TypeOK, TypeOK', OwnerInv, NEW r \in Recovery, RecoveryEnds(r) \/ RestartInProcess(r)
  PROVE  OwnerInv'
  <1> USE DeliveryAssumption
  <1>1. /\ RecoveryAtRest /\ IdleIsNew /\ BookedOnly /\ EntriesOnce /\ RecoveryAlone
        /\ PendingCurrent /\ WorkedOnExists /\ ReadIsCurrent
    BY DEF OwnerInv
  <1>2. /\ UNCHANGED <<json, pc, readCount, queued, pending, shared>>
        /\ pending[r] = {} /\ pc[r] = "idle"
        /\ \A q \in Recovery : q # r => scan'[q] = scan[q] /\ entry'[q] = entry[q]
    BY <1>1 DEF RecoveryEnds, RestartInProcess, scanUnchanged, fileVars, RecoveryAtRest, TypeOK
  <1>3. RecoveryAtRest' /\ IdleIsNew' /\ BookedOnly' /\ EntriesOnce'
    BY <1>1, <1>2 DEF RecoveryAtRest, IdleIsNew, BookedOnly, EntriesOnce, Booked, Exists
  <1>4. \A q \in Recovery : \A d \in Delivery : Holds(q, d)' = Holds(q, d)
    BY <1>2 DEF Holds
  <1>5. RecoveryAlone' /\ PendingCurrent'
    BY <1>1, <1>2, <1>4 DEF RecoveryAlone, PendingCurrent
  <1>6. \A w \in Worker : Booked(w)' = Booked(w) /\ (pc[w] # "idle" => Target(w)' = Target(w))
    BY <1>2 DEF Target, Booked
  <1>7. WorkedOnExists' /\ ReadIsCurrent'
    BY <1>1, <1>2, <1>6 DEF WorkedOnExists, ReadIsCurrent, Exists, Active
  <1> QED
    BY <1>3, <1>5, <1>7 DEF OwnerInv

\* The process ends.
LEMMA CrashKeepsOwner ==
  ASSUME TypeOK, TypeOK', OwnerInv, Crash
  PROVE  OwnerInv'
  <1> USE DeliveryAssumption
  <1>1. IdleIsNew
    BY DEF OwnerInv
  <1>2. /\ UNCHANGED <<json, queued>> /\ shared' = {}
        /\ \A r \in Recovery : pending'[r] = {}
    BY DEF Crash, fileVars
  <1>3. /\ \A w \in Worker : pc'[w] \in {"idle", "done"}
        /\ \A d \in Delivery : pc'[d] = "idle" => pc[d] = "idle"
        /\ \A r \in Recovery : pc'[r] = "idle"
    BY DEF Crash, Worker
  <1>4. RecoveryAtRest' /\ EntriesOnce' /\ RecoveryAlone' /\ PendingCurrent'
    BY <1>2, <1>3 DEF RecoveryAtRest, EntriesOnce, RecoveryAlone, PendingCurrent, Holds
  <1>5. IdleIsNew'
    BY <1>1, <1>2, <1>3 DEF IdleIsNew, Exists
  <1>6. BookedOnly' /\ WorkedOnExists' /\ ReadIsCurrent'
    BY <1>3 DEF BookedOnly, WorkedOnExists, ReadIsCurrent, Active
  <1> QED
    BY <1>4, <1>5, <1>6 DEF OwnerInv

LEMMA OwnerStep == TypeOK /\ OwnerInv /\ [Next]_vars => OwnerInv'
  <1> SUFFICES ASSUME TypeOK, OwnerInv, [Next]_vars PROVE OwnerInv'
    OBVIOUS
  <1>1. TypeOK'
    BY DeliveryTypes
  <1>2. CASE UNCHANGED vars
    BY <1>2 DEF vars, fileVars, scanVars, OwnerInv, RecoveryAtRest, IdleIsNew, BookedOnly,
       EntriesOnce, RecoveryAlone, PendingCurrent, WorkedOnExists, ReadIsCurrent, Holds,
       Target, Booked, Exists
  <1> QED
    BY <1>1, <1>2, DeliverySteps, WorkKeepsOwner, PersistKeepsOwner, LoadKeepsOwner,
       TakeKeepsOwner, RestKeepsOwner, CrashKeepsOwner

LEMMA OwnerInvariance == Spec => [](TypeOK /\ OwnerInv)
  <1>1. DeliveryInv => TypeOK
    BY DEF DeliveryInv
  <1> QED
    BY <1>1, DeliveryInvariance, OwnerInitially, OwnerStep, PTL DEF Spec

-----------------------------------------------------------------------------
\* What a step may do to the entry of a delivery that has been acknowledged.
FinalStep == \A d \in Delivery \ shared : queued[d] /\ ~Exists(d)
                 => json'[d] = json[d] /\ copies'[d] = copies[d]

LEMMA FinalStepHolds == TypeOK /\ OwnerInv /\ [Next]_vars => FinalStep
  <1> SUFFICES ASSUME TypeOK, OwnerInv, [Next]_vars,
                      NEW d \in Delivery \ shared, queued[d], ~Exists(d)
               PROVE  json'[d] = json[d] /\ copies'[d] = copies[d]
    BY DEF FinalStep
  <1> USE DeliveryAssumption
  <1>1. ASSUME NEW c \in Delivery, Persist(c)
        PROVE  json'[d] = json[d] /\ copies'[d] = copies[d]
    <2>1. c # d /\ copies' = copies
      BY <1>1 DEF Persist, OwnerInv, IdleIsNew, historyVars
    <2>2. json' = json \/ json' = [json EXCEPT ![c] = 0]
      BY <1>1 DEF Persist
    <2> QED
      BY <2>1, <2>2 DEF TypeOK
  <1>2. ASSUME NEW w \in Worker, Works(w)
        PROVE  json'[d] = json[d] /\ copies'[d] = copies[d]
    <2>1. CASE d # Target(w)
      BY <1>2, <2>1, WorksOnItsOwn
    <2>2. CASE d = Target(w)
      <3>1. Booked(w)
        BY <2>2 DEF Booked, Target, Worker
      <3>2. pc[w] \notin Active
        BY <2>2, <3>1 DEF OwnerInv, WorkedOnExists
      <3>3. AckUnlink(w)
        BY <1>2, <3>2 DEF Works, Active, SendPart, SentAll, AckRename, FailRead, FailWrite,
                          MoveToFailed
      <3> QED
        BY <3>3 DEF AckUnlink, fileStepUnchanged, historyVars
    <2> QED
      BY <2>1, <2>2
  <1>3. CASE \/ \E r \in Recovery : \/ Load(r) \/ (\E e \in pending[r] : Take(r, e))
                                    \/ RecoveryEnds(r) \/ RestartInProcess(r)
             \/ Crash \/ UNCHANGED vars
    BY <1>3 DEF Load, Take, RecoveryEnds, Crash, RestartInProcess, vars, scanUnchanged, fileVars,
                historyVars
  <1> QED
    BY <1>1, <1>2, <1>3, DeliverySteps

\* The two-phase acknowledgement of delivery-queue-storage.ts, for any number
\* of deliveries, payloads, crashes, in-process restarts and recoveries at once:
\* the file of an entry that no recovery found in other hands does not come
\* back once it was renamed or moved away, and no payload of it is sent again.
THEOREM DeliveryAckedIsFinal == Spec => AckedIsFinal
  <1>1. TypeOK /\ OwnerInv /\ [Next]_vars => [FinalStep]_vars
    BY FinalStepHolds
  <1>2. ASSUME [][FinalStep]_vars PROVE AckedIsFinal
    BY <1>2, PTL DEF AckedIsFinal, FinalStep
  <1> QED
    BY <1>1, <1>2, OwnerInvariance, PTL DEF Spec

\* What a step may do to the retry count of an entry.
CountStep ==
    /\ \A r \in Recovery : pc[r] = "idle" /\ pc'[r] = "sending" =>
           json[entry'[r]] \in 0 .. MaxRetries - 1 \/ entry'[r] \in shared
    /\ \A d \in Delivery \ shared : Exists(d) /\ json'[d] >= 0 => json'[d] >= json[d]

LEMMA CountStepHolds == TypeOK /\ OwnerInv /\ [Next]_vars => CountStep
  <1> SUFFICES ASSUME TypeOK, OwnerInv, [Next]_vars PROVE CountStep
    OBVIOUS
  <1> USE DeliveryAssumption
  <1>1. ASSUME NEW r \in Recovery, pc[r] = "idle", pc'[r] = "sending"
        PROVE  json[entry'[r]] \in 0 .. MaxRetries - 1 \/ entry'[r] \in shared
    <2>1. r \in Worker
      BY DEF Worker
    <2>2. ASSUME NEW w \in Worker, Works(w) PROVE FALSE
      <3>1. CASE w = r
        BY <1>1, <2>2, <3>1, WorksOnItsOwn DEF Busy
      <3>2. CASE w # r
        BY <1>1, <2>1, <2>2, <3>2, WorksOnItsOwn
      <3> QED
        BY <3>1, <3>2
    <2>3. ASSUME NEW d \in Delivery, Persist(d) PROVE FALSE
      BY <1>1, <2>1, <2>3 DEF Persist, GoTo, TypeOK, Worker
    <2>4. ASSUME NEW q \in Recovery, Load(q) \/ RecoveryEnds(q) \/ RestartInProcess(q)
          PROVE  FALSE
      BY <1>1, <2>4 DEF Load, RecoveryEnds, RestartInProcess
    <2>5. ~(Crash \/ UNCHANGED vars)
      BY <1>1, <2>1 DEF Crash, vars
    <2>6. PICK q \in Recovery : \E e \in pending[q] : Take(q, e)
      BY <2>2, <2>3, <2>4, <2>5, DeliverySteps
    <2>7. PICK e \in pending[q] : Take(q, e)
      BY <2>6
    <2>8. q = r
      BY <1>1, <2>1, <2>7 DEF Take, GoTo, TypeOK
    <2>9. entry'[r] = e.id /\ e.retries \in Nat
      BY <2>7, <2>8 DEF Take, TypeOK, Entry
    <2>10. ~Exhausted(e)
      BY <1>1, <2>1, <2>7, <2>8 DEF Take, GoTo, TypeOK
    <2>11. e.retries \in 0 .. MaxRetries - 1
      BY <2>9, <2>10 DEF Exhausted
    <2> QED
      BY <2>8, <2>9, <2>11 DEF OwnerInv, PendingCurrent
  <1>2. ASSUME NEW d \in Delivery \ shared, Exists(d), json'[d] >= 0
        PROVE  json'[d] >= json[d]
    <2>1. json[d] \in Nat
      BY <1>2 DEF TypeOK, Exists
    <2>2. ASSUME NEW w \in Worker, Works(w) PROVE json'[d] >= json[d]
      <3>1. CASE d # Target(w)
        BY <2>1, <2>2, <3>1, WorksOnItsOwn
      <3>2. CASE d = Target(w) /\ FailWrite(w)
        <4>1. json'[d] = readCount[w] + 1
          BY <3>2 DEF FailWrite, TypeOK
        <4>2. readCount[w] = json[d]
          BY <3>2 DEF FailWrite, OwnerInv, ReadIsCurrent
        <4> QED
          BY <2>1, <4>1, <4>2
      <3>3. CASE ~FailWrite(w)
        <4>1. json' = json \/ json' = [json EXCEPT ![Target(w)] = -1]
          BY <2>2, <3>3 DEF Works, SendPart, SentAll, AckRename, AckUnlink, FailRead,
                            MoveToFailed, fileVars, Target
        <4>2. json'[d] = json[d] \/ json'[d] = -1
          BY <4>1 DEF TypeOK
        <4>3. json'[d] # -1
          BY <1>2
        <4> QED
          BY <2>1, <4>2, <4>3
      <3> QED
        BY <3>1, <3>2, <3>3
    <2>3. ASSUME NEW c \in Delivery, Persist(c) PROVE json'[d] >= json[d]
      <3>1. c # d
        BY <1>2, <2>3 DEF Persist, OwnerInv, IdleIsNew
      <3>2. json' = json \/ json' = [json EXCEPT ![c] = 0]
        BY <2>3 DEF Persist
      <3> QED
        BY <2>1, <3>1, <3>2 DEF TypeOK
    <2>4. CASE \/ \E r \in Recovery : \/ Load(r) \/ (\E e \in pending[r] : Take(r, e))
                                      \/ RecoveryEnds(r) \/ RestartInProcess(r)
               \/ Crash \/ UNCHANGED vars
      <3>1. json' = json
        BY <2>4 DEF Load, Take, RecoveryEnds, Crash, RestartInProcess, vars, scanUnchanged,
                    fileVars
      <3> QED
        BY <2>1, <3>1
    <2> QED
      BY <2>2, <2>3, <2>4, DeliverySteps
  <1> QED
    BY <1>1, <1>2 DEF CountStep

\* Recovery gives up, for any traffic during it, any number of crashes and of
\* recoveries at once: it sends an entry that was in nobody else's hands only
\* while the file counts fewer than MAX_RETRIES failures, and no failDelivery
\* makes that count fall.
THEOREM DeliveryGivesUp == Spec => GivesUp
  <1>1. TypeOK /\ OwnerInv /\ [Next]_vars => [CountStep]_vars
    BY CountStepHolds
  <1>2. ASSUME [][CountStep]_vars PROVE GivesUp
    BY <1>2, PTL DEF GivesUp, CountStep
  <1> QED
    BY <1>1, <1>2, OwnerInvariance, PTL DEF Spec
=============================================================================
