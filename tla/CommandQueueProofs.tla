------------------------- MODULE CommandQueueProofs -------------------------
(***************************************************************************)
(* Proofs about CommandQueue for every set of lanes and calls, every cap    *)
(* and every number of resets.                                              *)
(***************************************************************************)
EXTENDS CommandQueue, FiniteSetTheorems, SequenceTheorems, TLAPS

(***************************************************************************)
(* Lemmas about one run of the pump.                                        *)
(***************************************************************************)

\* The pump starts a prefix, and it stops only at the end of the queue or at
\* the cap (the two conditions of the `while` at line 116).
LEMMA SlotsBounds ==
  ASSUME NEW q \in Seq(Task), NEW a, IsFiniteSet(a), NEW m \in Nat
  PROVE  /\ Slots(q, a, m) \in 0 .. Len(q)
         /\ \/ Slots(q, a, m) = Len(q)
            \/ Slots(q, a, m) + Cardinality(a) = m
            \/ Slots(q, a, m) = 0 /\ Cardinality(a) >= m
         /\ Slots(q, a, m) > 0 => Slots(q, a, m) + Cardinality(a) <= m
  <1>1. Cardinality(a) \in Nat
    BY FS_CardinalityType
  <1>2. Len(q) \in Nat
    OBVIOUS
  <1> QED
    BY <1>1, <1>2 DEF Slots

\* A duplicate-free queue contributes as many entries as slots it fills.
LEMMA StartedCardinality ==
  ASSUME NEW q \in Seq(Task), NEW a, IsFiniteSet(a), NEW m \in Nat, Distinct(q)
  PROVE  /\ IsFiniteSet(Started(q, a, m))
         /\ Cardinality(Started(q, a, m)) = Slots(q, a, m)
  <1> DEFINE n == Slots(q, a, m)
             f == [i \in 1 .. n |-> q[i]]
  <1>1. n \in 0 .. Len(q)
    BY SlotsBounds
  <1>2. f \in Bijection(1 .. n, Started(q, a, m))
    <2>1. f \in [1 .. n -> Started(q, a, m)]
      BY DEF Started
    <2>2. \A i, j \in 1 .. n : f[i] = f[j] => i = j
      BY <1>1 DEF Distinct
    <2>3. \A t \in Started(q, a, m) : \E i \in 1 .. n : f[i] = t
      BY DEF Started
    <2> QED
      BY <2>1, <2>2, <2>3 DEF Bijection, Injection, Surjection, IsInjective
  <1>3. ExistsBijection(1 .. n, Started(q, a, m))
    BY <1>2 DEF ExistsBijection
  <1>4. IsFiniteSet(1 .. n) /\ Cardinality(1 .. n) = n
    BY <1>1, FS_Interval
  <1> QED
    BY <1>3, <1>4, FS_Bijection

\* What is left of the queue, entry by entry.
LEMMA RemainingEntries ==
  ASSUME NEW q \in Seq(Task), NEW a, IsFiniteSet(a), NEW m \in Nat
  PROVE  /\ Remaining(q, a, m) \in Seq(Task)
         /\ Len(Remaining(q, a, m)) = Len(q) - Slots(q, a, m)
         /\ \A i \in 1 .. Len(q) - Slots(q, a, m) :
                Remaining(q, a, m)[i] = q[i + Slots(q, a, m)]
  <1>1. Slots(q, a, m) \in 0 .. Len(q)
    BY SlotsBounds
  <1>2. \A i \in Slots(q, a, m) + 1 .. Len(q) : q[i] \in Task
    BY <1>1
  <1>3. Slots(q, a, m) + 1 \in Int /\ Len(q) \in Int
    BY <1>1
  <1> QED
    BY <1>1, <1>2, <1>3, SubSeqProperties DEF Remaining

\* The pump splits the queue: the entries it starts and the ones it leaves.
LEMMA PumpSplitsQueue ==
  ASSUME NEW q \in Seq(Task), NEW a, IsFiniteSet(a), NEW m \in Nat, Distinct(q)
  PROVE  /\ Remaining(q, a, m) \in Seq(Task)
         /\ Distinct(Remaining(q, a, m))
         /\ Started(q, a, m) \subseteq Entries(q)
         /\ Entries(Remaining(q, a, m)) = Entries(q) \ Started(q, a, m)
  <1> DEFINE n == Slots(q, a, m)
             r == Remaining(q, a, m)
  <1>1. n \in 0 .. Len(q) /\ Len(q) \in Nat
    BY SlotsBounds
  <1>2. /\ r \in Seq(Task)
        /\ Len(r) = Len(q) - n
        /\ \A i \in 1 .. Len(q) - n : r[i] = q[i + n]
    BY RemainingEntries
  <1>3. Started(q, a, m) = {q[i] : i \in 1 .. n}
    BY DEF Started
  <1> HIDE DEF n, r
  <1>4. Distinct(r)
    BY <1>1, <1>2 DEF Distinct
  <1>5. Started(q, a, m) \subseteq Entries(q)
    BY <1>1, <1>3 DEF Entries
  <1>6. ASSUME NEW t \in Entries(r)
        PROVE  t \in Entries(q) /\ t \notin Started(q, a, m)
    <2>1. PICK i \in 1 .. Len(q) - n : t = q[i + n]
      BY <1>1, <1>2 DEF Entries
    <2>2. i + n \in 1 .. Len(q) /\ i + n > n
      BY <1>1
    <2> QED
      BY <1>1, <1>3, <2>1, <2>2 DEF Entries, Distinct
  <1>7. ASSUME NEW t \in Entries(q), t \notin Started(q, a, m)
        PROVE  t \in Entries(r)
    <2>1. PICK i \in 1 .. Len(q) : t = q[i]
      BY DEF Entries
    <2>2. i > n
      BY <1>1, <1>3, <1>7, <2>1
    <2>3. i - n \in 1 .. Len(r) /\ r[i - n] = q[(i - n) + n] /\ (i - n) + n = i
      BY <1>1, <1>2, <2>2
    <2> QED
      BY <2>1, <2>3 DEF Entries
  <1> QED
    BY <1>2, <1>4, <1>5, <1>6, <1>7 DEF r

\* After the pump a lane has no waiting entry or no free slot.
LEMMA PumpFillsLane ==
  ASSUME NEW q \in Seq(Task), NEW a, IsFiniteSet(a), NEW m \in Nat,
         Distinct(q), Entries(q) \cap a = {}
  PROVE  /\ IsFiniteSet(a \cup Started(q, a, m))
         /\ Cardinality(a \cup Started(q, a, m)) = Cardinality(a) + Slots(q, a, m)
         /\ \/ Remaining(q, a, m) = << >>
            \/ Cardinality(a \cup Started(q, a, m)) >= m
         /\ Started(q, a, m) # {} => Cardinality(a \cup Started(q, a, m)) <= m
  <1>1. Slots(q, a, m) \in 0 .. Len(q)
    BY SlotsBounds
  <1>2. a \cap Started(q, a, m) = {}
    BY PumpSplitsQueue
  <1>3. /\ IsFiniteSet(Started(q, a, m))
        /\ Cardinality(Started(q, a, m)) = Slots(q, a, m)
    BY StartedCardinality
  <1>4. Cardinality(a) \in Nat
    BY FS_CardinalityType
  <1>5. /\ IsFiniteSet(a \cup Started(q, a, m))
        /\ Cardinality(a \cup Started(q, a, m)) = Cardinality(a) + Slots(q, a, m)
    <2>1. Cardinality(a \cap Started(q, a, m)) = 0
      BY <1>2, FS_EmptySet
    <2>2. /\ IsFiniteSet(a \cup Started(q, a, m))
          /\ Cardinality(a \cup Started(q, a, m)) =
                Cardinality(a) + Cardinality(Started(q, a, m))
                    - Cardinality(a \cap Started(q, a, m))
      BY <1>3, FS_Union
    <2> QED
      BY <1>1, <1>3, <1>4, <2>1, <2>2
  <1>6. ASSUME Slots(q, a, m) = Len(q)
        PROVE  Remaining(q, a, m) = << >>
    <2>1. Len(Remaining(q, a, m)) = 0 /\ Remaining(q, a, m) \in Seq(Task)
      BY <1>6, RemainingEntries
    <2> QED
      BY <2>1
  <1>7. ASSUME Slots(q, a, m) # Len(q)
        PROVE  Cardinality(a \cup Started(q, a, m)) >= m
    <2>1. \/ Slots(q, a, m) + Cardinality(a) = m
          \/ Slots(q, a, m) = 0 /\ Cardinality(a) >= m
      BY <1>7, SlotsBounds
    <2>2. Cardinality(a) + Slots(q, a, m) >= m
      BY <1>1, <1>4, <2>1
    <2> QED
      BY <1>5, <2>2
  <1>8. ASSUME Started(q, a, m) # {}
        PROVE  Cardinality(a \cup Started(q, a, m)) <= m
    <2>1. Slots(q, a, m) > 0
      BY <1>1, <1>8 DEF Started
    <2>2. Slots(q, a, m) + Cardinality(a) <= m
      BY <2>1, SlotsBounds
    <2> QED
      BY <1>1, <1>4, <1>5, <2>2
  <1> QED
    BY <1>5, <1>6, <1>7, <1>8

-----------------------------------------------------------------------------
(***************************************************************************)
(* The inductive invariant.  LaneAccounting alone is not inductive: a lane  *)
(* reset makes every running task a stale one, which needs that no task was *)
(* started in a generation later than its lane's; and the cardinalities the *)
(* cap speaks of need the active sets to be finite.                         *)
(***************************************************************************)
StartedInThePast ==
    \A t \in Task : taskGeneration[t] <= generation[LaneOf[t]]

ActiveFinite == \A l \in Lane : IsFiniteSet(active[l])

\* The accounting of an intermediate lane state, as a handler leaves it just
\* before it pumps.
Accounted(q, a, g, ph, tg) ==
    \A l \in Lane :
        /\ Distinct(q[l])
        /\ Entries(q[l]) = {t \in Task : LaneOf[t] = l /\ ph[t] = "queued"}
        /\ a[l] = {t \in Task : /\ LaneOf[t] = l
                                /\ ph[t] = "running" /\ tg[t] = g[LaneOf[t]]}

LEMMA AccountedIsLaneAccounting ==
  LaneAccounting <=> Accounted(queue, active, generation, phase, taskGeneration)
  BY DEF LaneAccounting, HoldsSlot, Accounted

\* The part of the invariant that a pump writes.
LaneInv ==
    /\ queue \in [Lane -> Seq(Task)]
    /\ active \in [Lane -> SUBSET Task]
    /\ maxConcurrent \in [Lane -> 1 .. MaxConcurrent]
    /\ generation \in [Lane -> 0 .. MaxGeneration]
    /\ phase \in [Task -> Phases]
    /\ taskGeneration \in [Task -> 0 .. MaxGeneration]
    /\ LaneAccounting
    /\ NoIdleSlot
    /\ StartedInThePast
    /\ ActiveFinite

QueueInv ==
    /\ gatewayDraining \in BOOLEAN
    /\ LaneInv
    /\ waiter \in {"idle", "polling", "drained", "timedOut"}
    /\ activeAtStart \in SUBSET Task

\* A lane state a handler may pump: accounted for, with a free slot next to a
\* waiting entry only in the lanes about to be pumped.
PumpReady(L, q, a, m, g, ph) ==
    /\ L \in SUBSET Lane
    /\ q \in [Lane -> Seq(Task)]
    /\ a \in [Lane -> SUBSET Task]
    /\ m \in [Lane -> 1 .. MaxConcurrent]
    /\ g \in [Lane -> 0 .. MaxGeneration]
    /\ ph \in [Task -> Phases]
    /\ taskGeneration \in [Task -> 0 .. MaxGeneration]
    /\ Accounted(q, a, g, ph, taskGeneration)
    /\ \A l \in Lane : IsFiniteSet(a[l])
    /\ \A l \in Lane \ L : q[l] # << >> => Cardinality(a[l]) >= m[l]
    /\ \A t \in Task : taskGeneration[t] <= g[LaneOf[t]]

\* What one pump of the lanes L makes of an accounted lane state.
LEMMA PumpPreserves ==
  ASSUME NEW L, NEW q, NEW a, NEW m, NEW g, NEW ph,
         PumpReady(L, q, a, m, g, ph), PumpFrom(L, q, a, m, g, ph)
  PROVE  /\ LaneInv'
         /\ \A l \in Lane : active'[l] \ a[l] # {}
                               => Cardinality(active'[l]) <= maxConcurrent'[l]
         /\ \A t \in Task : \/ phase'[t] = ph[t] /\ taskGeneration'[t] = taskGeneration[t]
                            \/ /\ phase'[t] = "running" /\ ph[t] = "queued"
                               /\ taskGeneration'[t] = g[LaneOf[t]]
         /\ generation' = g
  <1> USE LaneOfAssumption, BoundAssumption DEF PumpReady
  <1> DEFINE st == [l \in Lane |-> Started(q[l], a[l], m[l])]
             re == [l \in Lane |-> Remaining(q[l], a[l], m[l])]
             starts == UNION {st[l] : l \in L}
  <1>1. /\ queue' = [l \in Lane |-> IF l \in L THEN re[l] ELSE q[l]]
        /\ active' = [l \in Lane |-> IF l \in L THEN a[l] \cup st[l] ELSE a[l]]
        /\ maxConcurrent' = m
        /\ generation' = g
        /\ phase' = [t \in Task |-> IF t \in starts THEN "running" ELSE ph[t]]
        /\ taskGeneration' = [t \in Task |->
                        IF t \in starts THEN g[LaneOf[t]] ELSE taskGeneration[t]]
    BY DEF PumpFrom
  <1>2. ASSUME NEW l \in Lane
        PROVE  /\ re[l] \in Seq(Task)
               /\ Distinct(re[l])
               /\ st[l] \subseteq Entries(q[l])
               /\ Entries(re[l]) = Entries(q[l]) \ st[l]
               /\ IsFiniteSet(a[l] \cup st[l])
               /\ re[l] = << >> \/ Cardinality(a[l] \cup st[l]) >= m[l]
               /\ st[l] # {} => Cardinality(a[l] \cup st[l]) <= m[l]
    <2>1. q[l] \in Seq(Task) /\ IsFiniteSet(a[l]) /\ m[l] \in Nat
      OBVIOUS
    <2>2. Distinct(q[l]) /\ Entries(q[l]) \cap a[l] = {}
      BY DEF Accounted
    <2>3. re[l] = Remaining(q[l], a[l], m[l]) /\ st[l] = Started(q[l], a[l], m[l])
      OBVIOUS
    <2> HIDE DEF re, st
    <2>4. /\ re[l] \in Seq(Task)
          /\ Distinct(re[l])
          /\ st[l] \subseteq Entries(q[l])
          /\ Entries(re[l]) = Entries(q[l]) \ st[l]
      <3>1. /\ Remaining(q[l], a[l], m[l]) \in Seq(Task)
            /\ Distinct(Remaining(q[l], a[l], m[l]))
            /\ Started(q[l], a[l], m[l]) \subseteq Entries(q[l])
            /\ Entries(Remaining(q[l], a[l], m[l])) =
                  Entries(q[l]) \ Started(q[l], a[l], m[l])
        BY <2>1, <2>2, PumpSplitsQueue
      <3> QED
        BY <2>3, <3>1
    <2>5. /\ IsFiniteSet(a[l] \cup st[l])
          /\ re[l] = << >> \/ Cardinality(a[l] \cup st[l]) >= m[l]
          /\ st[l] # {} => Cardinality(a[l] \cup st[l]) <= m[l]
      BY <2>1, <2>2, <2>3, PumpFillsLane
    <2> QED
      BY <2>4, <2>5
  <1> HIDE DEF st, re
  <1>3. \A l \in Lane : Entries(q[l]) = {t \in Task : LaneOf[t] = l /\ ph[t] = "queued"}
    BY DEF Accounted
  <1>4. \A t \in starts : t \in Task /\ LaneOf[t] \in L /\ t \in st[LaneOf[t]]
                          /\ ph[t] = "queued"
    <2> TAKE t \in starts
    <2>1. PICK l \in L : t \in st[l]
      OBVIOUS
    <2>2. t \in Entries(q[l])
      BY <1>2, <2>1
    <2> QED
      BY <1>3, <2>1, <2>2
  <1>5. \A l \in L : \A t \in st[l] : t \in starts /\ LaneOf[t] = l
    BY <1>2, <1>3
  <1> HIDE DEF starts
  <1>6. /\ queue' \in [Lane -> Seq(Task)]
        /\ maxConcurrent' \in [Lane -> 1 .. MaxConcurrent]
        /\ generation' \in [Lane -> 0 .. MaxGeneration]
        /\ phase' \in [Task -> Phases]
        /\ taskGeneration' \in [Task -> 0 .. MaxGeneration]
    BY <1>1, <1>2 DEF Phases
  <1>7. active' \in [Lane -> SUBSET Task]
    <2>1. \A l \in Lane : st[l] \subseteq Task
      BY <1>2, <1>3
    <2> QED
      BY <1>1, <2>1
  <1>8. StartedInThePast'
    BY <1>1, <1>6 DEF StartedInThePast
  <1>9. ActiveFinite' /\ NoIdleSlot'
    BY <1>1, <1>2 DEF ActiveFinite, NoIdleSlot
  <1>10. LaneAccounting'
    <2> SUFFICES ASSUME NEW l \in Lane
                 PROVE  /\ Distinct(queue'[l])
                        /\ Entries(queue'[l]) =
                              {t \in Task : LaneOf[t] = l /\ phase'[t] = "queued"}
                        /\ active'[l] =
                              {t \in Task : /\ LaneOf[t] = l
                                            /\ phase'[t] = "running"
                                            /\ taskGeneration'[t] = generation'[LaneOf[t]]}
      BY DEF LaneAccounting, HoldsSlot, Distinct, Entries
    <2>1. /\ Distinct(q[l])
          /\ a[l] = {t \in Task : /\ LaneOf[t] = l
                                  /\ ph[t] = "running"
                                  /\ taskGeneration[t] = g[LaneOf[t]]}
      BY DEF Accounted
    <2>2. Distinct(queue'[l])
      BY <1>1, <1>2, <2>1
    <2>3. Entries(queue'[l]) = {t \in Task : LaneOf[t] = l /\ phase'[t] = "queued"}
      <3>1. CASE l \in L
        <4>1. queue'[l] = re[l]
          BY <1>1, <3>1
        <4>2. Entries(re[l]) = {t \in Task : LaneOf[t] = l /\ ph[t] = "queued"} \ st[l]
          BY <1>2, <1>3
        <4>3. \A t \in Task : LaneOf[t] = l => (t \in starts <=> t \in st[l])
          BY <1>4, <1>5, <3>1
        <4> QED
          BY <1>1, <4>1, <4>2, <4>3
      <3>2. CASE l \notin L
        <4>1. queue'[l] = q[l]
          BY <1>1, <3>2
        <4>2. \A t \in Task : LaneOf[t] = l => phase'[t] = ph[t]
          BY <1>1, <1>4, <3>2
        <4> QED
          BY <1>3, <4>1, <4>2
      <3> QED
        BY <3>1, <3>2
    <2>4. active'[l] = {t \in Task : /\ LaneOf[t] = l
                                     /\ phase'[t] = "running"
                                     /\ taskGeneration'[t] = generation'[LaneOf[t]]}
      <3>1. CASE l \in L
        <4>1. active'[l] = a[l] \cup st[l]
          BY <1>1, <3>1
        <4>2. \A t \in Task : LaneOf[t] = l => (t \in starts <=> t \in st[l])
          BY <1>4, <1>5, <3>1
        <4>3. \A t \in st[l] : t \in Task /\ LaneOf[t] = l
          BY <1>4, <1>5, <3>1
        <4> QED
          BY <1>1, <2>1, <4>1, <4>2, <4>3
      <3>2. CASE l \notin L
        <4>1. active'[l] = a[l]
          BY <1>1, <3>2
        <4>2. \A t \in Task : LaneOf[t] = l =>
                 phase'[t] = ph[t] /\ taskGeneration'[t] = taskGeneration[t]
          BY <1>1, <1>4, <3>2
        <4> QED
          BY <1>1, <2>1, <4>1, <4>2
      <3> QED
        BY <3>1, <3>2
    <2> QED
      BY <2>2, <2>3, <2>4
  <1>11. LaneInv'
    BY <1>6, <1>7, <1>8, <1>9, <1>10 DEF LaneInv
  <1>12. \A l \in Lane : active'[l] \ a[l] # {}
                          => Cardinality(active'[l]) <= maxConcurrent'[l]
    BY <1>1, <1>2
  <1>13. \A t \in Task : \/ phase'[t] = ph[t] /\ taskGeneration'[t] = taskGeneration[t]
                         \/ /\ phase'[t] = "running" /\ ph[t] = "queued"
                            /\ taskGeneration'[t] = g[LaneOf[t]]
    BY <1>1, <1>4
  <1> QED
    BY <1>1, <1>11, <1>12, <1>13

\* What a step does to the entries.  No step starts an entry over the cap,
\* moves a started entry back, restarts a settled one, or turns a lane's
\* generation back; only the entries in T are queued or refused by it, and only
\* those in U settle by it.
LifecycleStep(T, U) ==
    /\ \A t \in Task :
          /\ phase[t] \in Settled => phase'[t] = phase[t]
          /\ phase[t] = "running" => /\ phase'[t] \in {"running"} \cup Outcomes
                                     /\ taskGeneration'[t] = taskGeneration[t]
          /\ phase'[t] = "running" => \/ phase[t] = "running"
                                      \/ taskGeneration'[t] = generation'[LaneOf[t]]
    /\ \A t \in Task \ T : phase[t] = "new" => phase'[t] = "new"
    /\ \A t \in Task \ U : phase[t] = "running" => phase'[t] = "running"
    /\ \A l \in Lane : generation'[l] >= generation[l]

StepOK(T, U) == StartsWithinCap /\ LifecycleStep(T, U)

\* A handler that only frees slots and keeps the phases in order before it pumps.
Orderly(a, g, ph, T, U) ==
    /\ \A l \in Lane : a[l] \subseteq active[l] /\ g[l] >= generation[l]
    /\ \A t \in Task :
            /\ phase[t] \in Settled => ph[t] = phase[t]
            /\ phase[t] = "running" => ph[t] \in {"running"} \cup Outcomes
            /\ ph[t] = "running" => phase[t] = "running"
    /\ \A t \in Task \ T : phase[t] = "new" => ph[t] = "new"
    /\ \A t \in Task \ U : phase[t] = "running" => ph[t] = "running"

\* The pump at the end of an orderly handler is such a step.
LEMMA PumpStepOK ==
  ASSUME NEW L, NEW q, NEW a, NEW m, NEW g, NEW ph,
         PumpReady(L, q, a, m, g, ph), PumpFrom(L, q, a, m, g, ph),
         NEW T, NEW U, Orderly(a, g, ph, T, U)
  PROVE  LaneInv' /\ StepOK(T, U)
  <1>1. /\ LaneInv'
        /\ \A l \in Lane : active'[l] \ a[l] # {}
                              => Cardinality(active'[l]) <= maxConcurrent'[l]
        /\ \A t \in Task : \/ phase'[t] = ph[t] /\ taskGeneration'[t] = taskGeneration[t]
                           \/ /\ phase'[t] = "running" /\ ph[t] = "queued"
                              /\ taskGeneration'[t] = g[LaneOf[t]]
        /\ generation' = g
    BY PumpPreserves
  <1>2. StartsWithinCap
    BY <1>1 DEF StartsWithinCap, Orderly
  <1>3. LifecycleStep(T, U)
    BY <1>1 DEF LifecycleStep, Settled, Outcomes, Orderly
  <1> QED
    BY <1>1, <1>2, <1>3 DEF StepOK

-----------------------------------------------------------------------------
(***************************************************************************)
(* The invariant holds initially and every operation preserves it.          *)
(***************************************************************************)
LEMMA QueueInitInv == QueueInit => QueueInv
  <1> SUFFICES ASSUME QueueInit
               PROVE  QueueInv
    OBVIOUS
  <1> USE LaneOfAssumption, BoundAssumption DEF QueueInit
  <1>1. LaneAccounting
    BY DEF LaneAccounting, HoldsSlot, Distinct, Entries
  <1>2. NoIdleSlot /\ StartedInThePast
    BY DEF NoIdleSlot, StartedInThePast
  <1>3. ActiveFinite
    BY FS_EmptySet DEF ActiveFinite
  <1>4. /\ queue \in [Lane -> Seq(Task)]
        /\ active \in [Lane -> SUBSET Task]
    OBVIOUS
  <1>5. /\ maxConcurrent \in [Lane -> 1 .. MaxConcurrent]
        /\ generation \in [Lane -> 0 .. MaxGeneration]
        /\ taskGeneration \in [Task -> 0 .. MaxGeneration]
    OBVIOUS
  <1>6. phase \in [Task -> Phases]
    BY DEF Phases
  <1>7. LaneInv
    BY <1>1, <1>2, <1>3, <1>4, <1>5, <1>6 DEF LaneInv
  <1> QED
    BY <1>7 DEF QueueInv

LEMMA QueueInvTypeOK == QueueInv => QueueTypeOK
  BY DEF QueueInv, LaneInv, QueueTypeOK

LEMMA EnqueueInv ==
  ASSUME QueueInv, NEW t \in Task, Enqueue(t)
  PROVE  QueueInv' /\ StepOK({t}, {})
  <1> USE LaneOfAssumption, BoundAssumption
  <1> DEFINE l == LaneOf[t]
             q == [queue EXCEPT ![l] = Append(@, t)]
             ph == [phase EXCEPT ![t] = "queued"]
  <1>1. /\ phase[t] = "new" /\ l \in Lane
        /\ QueueTypeOK /\ LaneAccounting /\ NoIdleSlot /\ StartedInThePast /\ ActiveFinite
    BY QueueInvTypeOK DEF Enqueue, QueueInv, LaneInv
  <1>2. CASE gatewayDraining
    <2>1. /\ phase' = [phase EXCEPT ![t] = "refused"]
          /\ UNCHANGED <<gatewayDraining, queue, active, maxConcurrent, generation,
                         taskGeneration, waiter, activeAtStart>>
      BY <1>2 DEF Enqueue, waitVars
    <2>2. LaneAccounting'
      BY <1>1, <2>1 DEF LaneAccounting, HoldsSlot, QueueTypeOK
    <2>3. StepOK({t}, {})
      BY <1>1, <2>1 DEF QueueTypeOK, StepOK, StartsWithinCap, LifecycleStep, Settled, Outcomes
    <2>4. phase' \in [Task -> Phases]
      BY <1>1, <2>1 DEF QueueTypeOK, Phases, Settled
    <2>5. NoIdleSlot' /\ StartedInThePast' /\ ActiveFinite'
      BY <1>1, <2>1 DEF NoIdleSlot, StartedInThePast, ActiveFinite
    <2>6. LaneInv'
      BY <1>1, <2>1, <2>2, <2>4, <2>5 DEF LaneInv, QueueTypeOK
    <2> QED
      BY <1>1, <2>1, <2>3, <2>6 DEF QueueInv, QueueTypeOK
  <1>3. CASE ~gatewayDraining
    <2>1. /\ PumpFrom({l}, q, active, maxConcurrent, generation, ph)
          /\ UNCHANGED <<gatewayDraining, waiter, activeAtStart>>
      BY <1>3 DEF Enqueue, waitVars
    <2>2. /\ q \in [Lane -> Seq(Task)] /\ ph \in [Task -> Phases]
          /\ active \in [Lane -> SUBSET Task]
          /\ maxConcurrent \in [Lane -> 1 .. MaxConcurrent]
          /\ generation \in [Lane -> 0 .. MaxGeneration]
          /\ taskGeneration \in [Task -> 0 .. MaxGeneration]
      BY <1>1 DEF QueueTypeOK, Phases
    <2>3. Accounted(q, active, generation, ph, taskGeneration)
      <3> SUFFICES ASSUME NEW k \in Lane
                   PROVE  /\ Distinct(q[k])
                          /\ Entries(q[k]) =
                               {u \in Task : LaneOf[u] = k /\ ph[u] = "queued"}
                          /\ active[k] =
                               {u \in Task : /\ LaneOf[u] = k
                                             /\ ph[u] = "running"
                                             /\ taskGeneration[u] = generation[LaneOf[u]]}
        BY DEF Accounted
      <3>1. /\ Distinct(queue[k]) /\ queue[k] \in Seq(Task)
            /\ Entries(queue[k]) = {u \in Task : LaneOf[u] = k /\ phase[u] = "queued"}
            /\ active[k] = {u \in Task : LaneOf[u] = k /\ HoldsSlot(u)}
        BY <1>1 DEF LaneAccounting, QueueTypeOK
      <3>2. active[k] = {u \in Task : /\ LaneOf[u] = k
                                      /\ ph[u] = "running"
                                      /\ taskGeneration[u] = generation[LaneOf[u]]}
        BY <1>1, <3>1 DEF HoldsSlot, QueueTypeOK
      <3>3. CASE k = l
        <4>1. q[k] = Append(queue[k], t)
          BY <1>1, <3>3 DEF QueueTypeOK
        <4>2. t \notin Entries(queue[k])
          BY <1>1, <3>1
        <4>3. Entries(q[k]) = Entries(queue[k]) \cup {t}
          BY <3>1, <4>1 DEF Entries
        <4>4. Distinct(q[k])
          BY <3>1, <4>1, <4>2 DEF Distinct, Entries
        <4>5. {u \in Task : LaneOf[u] = k /\ ph[u] = "queued"} =
              {u \in Task : LaneOf[u] = k /\ phase[u] = "queued"} \cup {t}
          BY <1>1, <3>3 DEF QueueTypeOK
        <4> QED
          BY <3>1, <3>2, <4>3, <4>4, <4>5
      <3>4. CASE k # l
        <4>1. q[k] = queue[k]
          BY <1>1, <3>4 DEF QueueTypeOK
        <4>2. {u \in Task : LaneOf[u] = k /\ ph[u] = "queued"} =
              {u \in Task : LaneOf[u] = k /\ phase[u] = "queued"}
          BY <1>1, <3>4 DEF QueueTypeOK
        <4> QED
          BY <3>1, <3>2, <4>1, <4>2
      <3> QED
        BY <3>3, <3>4
    <2>4. \A k \in Lane \ {l} : q[k] # << >> => Cardinality(active[k]) >= maxConcurrent[k]
      BY <1>1 DEF NoIdleSlot, QueueTypeOK
    <2>5. /\ \A k \in Lane : IsFiniteSet(active[k])
          /\ \A u \in Task : taskGeneration[u] <= generation[LaneOf[u]]
      BY <1>1 DEF ActiveFinite, StartedInThePast
    <2>7. Orderly(active, generation, ph, {t}, {})
      BY <1>1 DEF QueueTypeOK, Settled, Outcomes, Orderly
    <2> HIDE DEF q, ph, l
    <2>6. {l} \in SUBSET Lane
      BY <1>1
    <2> QED
      <3>1. LaneInv' /\ StepOK({t}, {})
        <4>1. PumpReady({l}, q, active, maxConcurrent, generation, ph)
          BY <2>2, <2>3, <2>4, <2>5, <2>6 DEF PumpReady
        <4> QED
          BY <2>1, <2>7, <4>1, PumpStepOK
      <3> QED
        BY <2>1, <3>1 DEF QueueInv
  <1> QED
    BY <1>2, <1>3

LEMMA CompleteInv ==
  ASSUME QueueInv, NEW t \in Task, NEW o \in Outcomes, Complete(t, o)
  PROVE  QueueInv' /\ StepOK({}, {t})
  <1> USE LaneOfAssumption, BoundAssumption
  <1> DEFINE l == LaneOf[t]
             a == [active EXCEPT ![l] = @ \ {t}]
             ph == [phase EXCEPT ![t] = o]
  <1>1. /\ phase[t] = "running" /\ l \in Lane
        /\ LaneAccounting /\ NoIdleSlot /\ StartedInThePast /\ ActiveFinite
        /\ UNCHANGED <<gatewayDraining, waiter, activeAtStart>>
    BY DEF Complete, QueueInv, LaneInv, waitVars
  <1>2. /\ queue \in [Lane -> Seq(Task)]
        /\ active \in [Lane -> SUBSET Task]
        /\ maxConcurrent \in [Lane -> 1 .. MaxConcurrent]
        /\ generation \in [Lane -> 0 .. MaxGeneration]
        /\ phase \in [Task -> Phases]
        /\ taskGeneration \in [Task -> 0 .. MaxGeneration]
    BY DEF QueueInv, LaneInv
  <1>3. ph \in [Task -> Phases] /\ o \notin {"queued", "running"}
    BY <1>2 DEF Phases, Settled, Outcomes
  <1>4. CASE taskGeneration[t] = generation[l]
    <2>1. PumpFrom({l}, queue, a, maxConcurrent, generation, ph)
      BY <1>4 DEF Complete
    <2>2. a \in [Lane -> SUBSET Task]
      BY <1>1, <1>2
    <2>3. Accounted(queue, a, generation, ph, taskGeneration)
      <3> SUFFICES ASSUME NEW k \in Lane
                   PROVE  /\ Distinct(queue[k])
                          /\ Entries(queue[k]) =
                               {u \in Task : LaneOf[u] = k /\ ph[u] = "queued"}
                          /\ a[k] = {u \in Task :
                                       /\ LaneOf[u] = k
                                       /\ ph[u] = "running"
                                       /\ taskGeneration[u] = generation[LaneOf[u]]}
        BY DEF Accounted
      <3>1. /\ Distinct(queue[k])
            /\ Entries(queue[k]) = {u \in Task : LaneOf[u] = k /\ phase[u] = "queued"}
            /\ active[k] = {u \in Task : LaneOf[u] = k /\ HoldsSlot(u)}
        BY <1>1 DEF LaneAccounting
      <3>2. {u \in Task : LaneOf[u] = k /\ ph[u] = "queued"} =
            {u \in Task : LaneOf[u] = k /\ phase[u] = "queued"}
        BY <1>1, <1>2, <1>3
      <3>3. a[k] = active[k] \ {t}
        BY <1>1, <1>2, <3>1
      <3>4. \A u \in Task : ph[u] = "running" <=> u # t /\ phase[u] = "running"
        BY <1>2, <1>3
      <3> QED
        BY <3>1, <3>2, <3>3, <3>4 DEF HoldsSlot
    <2>4. \A k \in Lane \ {l} : queue[k] # << >> => Cardinality(a[k]) >= maxConcurrent[k]
      BY <1>1, <1>2 DEF NoIdleSlot
    <2>5. \A k \in Lane : IsFiniteSet(a[k])
      <3> TAKE k \in Lane
      <3>1. IsFiniteSet(active[k]) /\ a[k] \in SUBSET active[k]
        BY <1>1, <1>2 DEF ActiveFinite
      <3> QED
        BY <3>1, FS_Subset
    <2>6. \A u \in Task : taskGeneration[u] <= generation[LaneOf[u]]
      BY <1>1 DEF StartedInThePast
    <2>7. {l} \in SUBSET Lane
      BY <1>1
    <2>8. Orderly(a, generation, ph, {}, {t})
      BY <1>1, <1>2 DEF Settled, Outcomes, Orderly
    <2> HIDE DEF a, ph, l
    <2>9. LaneInv' /\ StepOK({}, {t})
      <3>1. PumpReady({l}, queue, a, maxConcurrent, generation, ph)
        BY <1>2, <1>3, <2>2, <2>3, <2>4, <2>5, <2>6, <2>7 DEF PumpReady
      <3> QED
        BY <2>1, <2>8, <3>1, PumpStepOK
    <2> QED
      BY <1>1, <2>9 DEF QueueInv
  <1>5. CASE taskGeneration[t] # generation[l]
    <2>1. /\ phase' = ph
          /\ UNCHANGED <<queue, active, maxConcurrent, generation, taskGeneration>>
      BY <1>5 DEF Complete
    <2>2. LaneAccounting'
      <3> SUFFICES ASSUME NEW k \in Lane
                   PROVE  /\ Distinct(queue[k])
                          /\ Entries(queue[k]) =
                               {u \in Task : LaneOf[u] = k /\ ph[u] = "queued"}
                          /\ active[k] = {u \in Task :
                                            /\ LaneOf[u] = k
                                            /\ ph[u] = "running"
                                            /\ taskGeneration[u] = generation[LaneOf[u]]}
        BY <2>1 DEF LaneAccounting, HoldsSlot
      <3>1. /\ Distinct(queue[k])
            /\ Entries(queue[k]) = {u \in Task : LaneOf[u] = k /\ phase[u] = "queued"}
            /\ active[k] = {u \in Task : LaneOf[u] = k /\ HoldsSlot(u)}
        BY <1>1 DEF LaneAccounting
      <3>2. \A u \in Task : ph[u] = "queued" <=> phase[u] = "queued"
        BY <1>1, <1>2, <1>3
      <3>3. \A u \in Task : ph[u] = "running" <=> u # t /\ phase[u] = "running"
        BY <1>2, <1>3
      <3> QED
        BY <1>5, <3>1, <3>2, <3>3 DEF HoldsSlot
    <2>3. NoIdleSlot' /\ StartedInThePast' /\ ActiveFinite'
      BY <1>1, <2>1 DEF NoIdleSlot, StartedInThePast, ActiveFinite
    <2>4. LaneInv'
      BY <1>2, <1>3, <2>1, <2>2, <2>3 DEF LaneInv
    <2>5. StepOK({}, {t})
      BY <1>1, <1>2, <1>3, <2>1
      DEF StepOK, StartsWithinCap, LifecycleStep, Settled, Outcomes
    <2> QED
      BY <1>1, <2>4, <2>5 DEF QueueInv
  <1> QED
    BY <1>4, <1>5

LEMMA SetConcurrencyInv ==
  ASSUME QueueInv, NEW l \in Lane, NEW n \in 0 .. MaxConcurrent, SetConcurrency(l, n)
  PROVE  QueueInv' /\ StepOK({}, {})
  <1> USE LaneOfAssumption, BoundAssumption
  <1> DEFINE m == [maxConcurrent EXCEPT ![l] = IF n < 1 THEN 1 ELSE n]
  <1>1. /\ PumpFrom({l}, queue, active, m, generation, phase)
        /\ UNCHANGED <<gatewayDraining, waiter, activeAtStart>>
    BY DEF SetConcurrency, waitVars
  <1>2. /\ queue \in [Lane -> Seq(Task)]
        /\ active \in [Lane -> SUBSET Task]
        /\ maxConcurrent \in [Lane -> 1 .. MaxConcurrent]
        /\ generation \in [Lane -> 0 .. MaxGeneration]
        /\ phase \in [Task -> Phases]
        /\ taskGeneration \in [Task -> 0 .. MaxGeneration]
        /\ LaneAccounting /\ NoIdleSlot /\ StartedInThePast /\ ActiveFinite
    BY DEF QueueInv, LaneInv
  <1>3. m \in [Lane -> 1 .. MaxConcurrent]
    BY <1>2
  <1>4. Accounted(queue, active, generation, phase, taskGeneration)
    BY <1>2, AccountedIsLaneAccounting
  <1>5. /\ \A k \in Lane \ {l} : queue[k] # << >> => Cardinality(active[k]) >= m[k]
        /\ \A k \in Lane : IsFiniteSet(active[k])
        /\ \A u \in Task : taskGeneration[u] <= generation[LaneOf[u]]
        /\ {l} \in SUBSET Lane
    BY <1>2 DEF NoIdleSlot, ActiveFinite, StartedInThePast
  <1>6. Orderly(active, generation, phase, {}, {})
    BY <1>2 DEF Orderly
  <1> HIDE DEF m
  <1>7. LaneInv' /\ StepOK({}, {})
    <2>1. PumpReady({l}, queue, active, m, generation, phase)
      BY <1>2, <1>3, <1>4, <1>5 DEF PumpReady
    <2> QED
      BY <1>1, <1>6, <2>1, PumpStepOK
  <1> QED
    BY <1>1, <1>7 DEF QueueInv

LEMMA ClearInv ==
  ASSUME QueueInv, NEW l \in Lane, Clear(l)
  PROVE  QueueInv' /\ StepOK({}, {})
  <1> USE LaneOfAssumption, BoundAssumption
  <1>1. /\ queue' = [queue EXCEPT ![l] = <<>>]
        /\ phase' = [t \in Task |->
                        IF t \in Entries(queue[l]) THEN "cleared" ELSE phase[t]]
        /\ UNCHANGED <<gatewayDraining, active, maxConcurrent, generation,
                       taskGeneration, waiter, activeAtStart>>
    BY DEF Clear, waitVars
  <1>2. /\ queue \in [Lane -> Seq(Task)]
        /\ active \in [Lane -> SUBSET Task]
        /\ maxConcurrent \in [Lane -> 1 .. MaxConcurrent]
        /\ generation \in [Lane -> 0 .. MaxGeneration]
        /\ phase \in [Task -> Phases]
        /\ taskGeneration \in [Task -> 0 .. MaxGeneration]
        /\ LaneAccounting /\ NoIdleSlot /\ StartedInThePast /\ ActiveFinite
    BY DEF QueueInv, LaneInv
  <1>3. queue' \in [Lane -> Seq(Task)]
    BY <1>1, <1>2
  <1>4. phase' \in [Task -> Phases]
    BY <1>1, <1>2 DEF Phases, Settled
  <1>5. LaneAccounting'
    <2> SUFFICES ASSUME NEW k \in Lane
                 PROVE  /\ Distinct(queue'[k])
                        /\ Entries(queue'[k]) =
                             {t \in Task : LaneOf[t] = k /\ phase'[t] = "queued"}
                        /\ active[k] = {t \in Task :
                                          /\ LaneOf[t] = k
                                          /\ phase'[t] = "running"
                                          /\ taskGeneration[t] = generation[LaneOf[t]]}
      BY <1>1 DEF LaneAccounting, HoldsSlot, Distinct, Entries
    <2>1. /\ Distinct(queue[k])
          /\ Entries(queue[k]) = {t \in Task : LaneOf[t] = k /\ phase[t] = "queued"}
          /\ active[k] = {t \in Task : LaneOf[t] = k /\ HoldsSlot(t)}
          /\ Entries(queue[l]) = {t \in Task : LaneOf[t] = l /\ phase[t] = "queued"}
      BY <1>2 DEF LaneAccounting
    <2>2. \A t \in Task : phase'[t] = "running" <=> phase[t] = "running"
      BY <1>1, <1>2, <2>1
    <2>3. \A t \in Task : phase'[t] = "queued" <=> phase[t] = "queued" /\ LaneOf[t] # l
      BY <1>1, <1>2, <2>1
    <2>4. Distinct(queue'[k]) /\ (k = l => Entries(queue'[k]) = {})
      BY <1>1, <1>2, <2>1 DEF Distinct, Entries
    <2>5. k # l => Entries(queue'[k]) = Entries(queue[k])
      BY <1>1, <1>2
    <2> QED
      BY <2>1, <2>2, <2>3, <2>4, <2>5 DEF HoldsSlot
  <1>6. NoIdleSlot' /\ StartedInThePast' /\ ActiveFinite'
    BY <1>1, <1>2 DEF NoIdleSlot, StartedInThePast, ActiveFinite
  <1>7. LaneInv'
    BY <1>1, <1>2, <1>3, <1>4, <1>5, <1>6 DEF LaneInv
  <1>8. StepOK({}, {})
    <2>1. \A t \in Task : phase'[t] = phase[t] \/ phase[t] = "queued"
      BY <1>1, <1>2 DEF LaneAccounting
    <2>2. \A t \in Task : phase'[t] = phase[t] \/ phase'[t] = "cleared"
      BY <1>1, <1>2
    <2>3. \A k \in Lane : generation'[k] >= generation[k]
      <3> TAKE k \in Lane
      <3>1. generation'[k] = generation[k] /\ generation[k] \in 0 .. MaxGeneration
        BY <1>1, <1>2
      <3> QED
        BY <3>1
    <2>5. /\ \A t \in Task : phase[t] # "queued" => phase'[t] = phase[t]
          /\ \A t \in Task : phase'[t] = "running" => phase[t] = "running"
          /\ taskGeneration' = taskGeneration
      BY <1>1, <2>1, <2>2
    <2>6. LifecycleStep({}, {})
      BY <2>3, <2>5 DEF LifecycleStep, Settled, Outcomes
    <2>4. StartsWithinCap
      BY <1>1 DEF StartsWithinCap
    <2> QED
      BY <2>4, <2>6 DEF StepOK
  <1> QED
    BY <1>1, <1>7, <1>8 DEF QueueInv

LEMMA ResetInv ==
  ASSUME QueueInv, Reset
  PROVE  QueueInv' /\ StepOK({}, {})
  <1> USE LaneOfAssumption, BoundAssumption
  <1> DEFINE L == {l \in Lane : queue[l] # <<>>}
             a == [l \in Lane |-> {}]
             g == [l \in Lane |-> generation[l] + 1]
  <1>1. /\ PumpFrom(L, queue, a, maxConcurrent, g, phase)
        /\ gatewayDraining' = FALSE
        /\ UNCHANGED <<waiter, activeAtStart>>
        /\ \A l \in Lane : generation[l] < MaxGeneration
    BY DEF Reset, waitVars
  <1>2. /\ queue \in [Lane -> Seq(Task)]
        /\ active \in [Lane -> SUBSET Task]
        /\ maxConcurrent \in [Lane -> 1 .. MaxConcurrent]
        /\ generation \in [Lane -> 0 .. MaxGeneration]
        /\ phase \in [Task -> Phases]
        /\ taskGeneration \in [Task -> 0 .. MaxGeneration]
        /\ LaneAccounting /\ StartedInThePast
    BY DEF QueueInv, LaneInv
  <1>3. /\ a \in [Lane -> SUBSET Task]
        /\ g \in [Lane -> 0 .. MaxGeneration]
    BY <1>1, <1>2
  <1>4. \A t \in Task : taskGeneration[t] < g[LaneOf[t]]
    <2> TAKE t \in Task
    <2>1. taskGeneration[t] <= generation[LaneOf[t]] /\ g[LaneOf[t]] = generation[LaneOf[t]] + 1
      BY <1>2 DEF StartedInThePast
    <2> QED
      BY <1>2, <2>1
  <1>5. Accounted(queue, a, g, phase, taskGeneration)
    <2>1. \A t \in Task : taskGeneration[t] # g[LaneOf[t]]
      <3> TAKE t \in Task
      <3>1. taskGeneration[t] < g[LaneOf[t]]
        BY <1>4
      <3>2. LaneOf[t] \in Lane /\ taskGeneration[t] \in Nat
        BY <1>2
      <3>3. g[LaneOf[t]] \in Nat
        BY <1>2, <3>2
      <3> HIDE DEF g
      <3> QED
        BY <3>1, <3>2, <3>3
    <2>2. \A l \in Lane : a[l] = {}
      OBVIOUS
    <2> HIDE DEF L, a, g
    <2> SUFFICES ASSUME NEW l \in Lane
                 PROVE  /\ Distinct(queue[l])
                        /\ Entries(queue[l]) = {t \in Task : LaneOf[t] = l /\ phase[t] = "queued"}
                        /\ a[l] = {t \in Task : /\ LaneOf[t] = l
                                                /\ phase[t] = "running"
                                                /\ taskGeneration[t] = g[LaneOf[t]]}
      BY DEF Accounted
    <2>3. /\ Distinct(queue[l])
          /\ Entries(queue[l]) = {t \in Task : LaneOf[t] = l /\ phase[t] = "queued"}
      BY <1>2 DEF LaneAccounting
    <2>4. {t \in Task : /\ LaneOf[t] = l
                        /\ phase[t] = "running"
                        /\ taskGeneration[t] = g[LaneOf[t]]} = {}
      BY <2>1
    <2> QED
      BY <2>2, <2>3, <2>4
  <1>6. /\ \A l \in Lane \ L : queue[l] # << >> => Cardinality(a[l]) >= maxConcurrent[l]
        /\ L \in SUBSET Lane
        /\ \A l \in Lane : IsFiniteSet(a[l])
        /\ \A t \in Task : taskGeneration[t] <= g[LaneOf[t]]
    <2>1. \A l \in Lane \ L : queue[l] = << >>
      OBVIOUS
    <2>2. \A t \in Task : taskGeneration[t] <= g[LaneOf[t]]
      <3> TAKE t \in Task
      <3>1. taskGeneration[t] < g[LaneOf[t]]
        BY <1>4
      <3>2. LaneOf[t] \in Lane /\ taskGeneration[t] \in Nat
        BY <1>2
      <3>3. g[LaneOf[t]] \in Nat
        BY <1>2, <3>2
      <3> HIDE DEF g
      <3> QED
        BY <3>1, <3>2, <3>3
    <2>3. \A l \in Lane : IsFiniteSet(a[l])
      BY FS_EmptySet
    <2> QED
      BY <2>1, <2>2, <2>3
  <1>7. Orderly(a, g, phase, {}, {})
    BY <1>2 DEF Orderly
  <1> HIDE DEF L, a, g
  <1>8. LaneInv' /\ StepOK({}, {})
    <2>1. PumpReady(L, queue, a, maxConcurrent, g, phase)
      BY <1>2, <1>3, <1>5, <1>6 DEF PumpReady
    <2> QED
      BY <1>1, <1>7, <2>1, PumpStepOK
  <1> QED
    BY <1>1, <1>8 DEF QueueInv

\* The remaining operations do not touch a lane.
LEMMA OthersInv ==
  ASSUME QueueInv, MarkDraining \/ WaitStart \/ WaitPoll \/ UNCHANGED queueVars
  PROVE  QueueInv' /\ StepOK({}, {})
  <1>1. UNCHANGED laneVars
    BY DEF MarkDraining, WaitStart, WaitPoll, queueVars
  <1>2. LaneInv'
    <2>1. LaneInv
      BY DEF QueueInv
    <2>2. LaneAccounting' /\ NoIdleSlot' /\ StartedInThePast' /\ ActiveFinite'
      BY <1>1, <2>1 DEF laneVars, LaneInv, LaneAccounting, HoldsSlot, NoIdleSlot,
                        StartedInThePast, ActiveFinite
    <2> QED
      BY <1>1, <2>1, <2>2 DEF laneVars, LaneInv
  <1>3. /\ gatewayDraining' \in BOOLEAN
        /\ waiter' \in {"idle", "polling", "drained", "timedOut"}
        /\ activeAtStart' \in SUBSET Task
    <2>1. ActiveTasks \in SUBSET Task
      BY DEF QueueInv, LaneInv, ActiveTasks
    <2>2. CASE MarkDraining
      BY <2>2 DEF QueueInv, MarkDraining, waitVars
    <2>3. CASE WaitStart
      BY <2>1, <2>3 DEF QueueInv, WaitStart
    <2>4. CASE WaitPoll
      BY <2>4 DEF QueueInv, WaitPoll
    <2>5. CASE UNCHANGED queueVars
      BY <2>5 DEF QueueInv, queueVars, waitVars
    <2> QED
      BY <2>2, <2>3, <2>4, <2>5
  <1>4. StepOK({}, {})
    BY <1>1 DEF QueueInv, LaneInv, laneVars, StepOK, StartsWithinCap, LifecycleStep
  <1> QED
    BY <1>2, <1>3, <1>4 DEF QueueInv

-----------------------------------------------------------------------------
(***************************************************************************)
(* The theorems.                                                            *)
(***************************************************************************)
LEMMA WeakenStep ==
  ASSUME NEW T, NEW U, StepOK(T, U)
  PROVE  StepOK(Task, Task)
  BY DEF StepOK, LifecycleStep

LEMMA QueueStepInv == QueueInv /\ [QueueNext]_queueVars => QueueInv' /\ StepOK(Task, Task)
  <1> SUFFICES ASSUME QueueInv, [QueueNext]_queueVars
               PROVE  QueueInv' /\ StepOK(Task, Task)
    OBVIOUS
  <1>1. ASSUME NEW t \in Task, Enqueue(t)
        PROVE  QueueInv' /\ StepOK(Task, Task)
    BY <1>1, EnqueueInv, WeakenStep
  <1>2. ASSUME NEW t \in Task, NEW o \in Outcomes, Complete(t, o)
        PROVE  QueueInv' /\ StepOK(Task, Task)
    BY <1>2, CompleteInv, WeakenStep
  <1>3. ASSUME NEW l \in Lane, NEW n \in 0 .. MaxConcurrent, SetConcurrency(l, n)
        PROVE  QueueInv' /\ StepOK(Task, Task)
    BY <1>3, SetConcurrencyInv, WeakenStep
  <1>4. ASSUME NEW l \in Lane, Clear(l)
        PROVE  QueueInv' /\ StepOK(Task, Task)
    BY <1>4, ClearInv, WeakenStep
  <1>5. CASE Reset
    BY <1>5, ResetInv, WeakenStep
  <1>6. CASE MarkDraining \/ WaitStart \/ WaitPoll \/ UNCHANGED queueVars
    BY <1>6, OthersInv, WeakenStep
  <1> QED
    BY <1>1, <1>2, <1>3, <1>4, <1>5, <1>6 DEF QueueNext

\* The invariant holds in every reachable state.
THEOREM QueueInvariance == QueueSpec => []QueueInv
  BY QueueInitInv, QueueStepInv, PTL DEF QueueSpec

\* Type correctness of the lanes, for any lanes, calls, caps and resets.
THEOREM QueueTypeCorrect == QueueSpec => []TypeOK
  BY QueueInvariance, QueueInvTypeOK, PTL DEF TypeOK

\* An entry is queued in exactly one place and holds a slot of its lane
\* exactly while it runs in the lane's current generation.
THEOREM QueueAccounting == QueueSpec => []LaneAccounting
  <1>1. QueueInv => LaneAccounting
    BY DEF QueueInv, LaneInv
  <1> QED
    BY <1>1, QueueInvariance, PTL

\* No entry is ever left waiting next to a free slot.
THEOREM QueueWorkConserving == QueueSpec => []NoIdleSlot
  <1>1. QueueInv => NoIdleSlot
    BY DEF QueueInv, LaneInv
  <1> QED
    BY <1>1, QueueInvariance, PTL

\* No operation starts an entry over its lane's cap.
THEOREM QueueCapRespected == QueueSpec => CapRespected
  <1>1. QueueInv /\ [QueueNext]_queueVars => [StartsWithinCap]_queueVars
    BY QueueStepInv DEF StepOK
  <1> QED
    BY <1>1, QueueInvariance, PTL DEF QueueSpec, CapRespected

\* An entry that was cleared, refused or finished never runs again.
THEOREM QueueSettledIsFinal == QueueSpec => SettledIsFinal
  <1>1. QueueInv /\ [QueueNext]_queueVars
        => [\A t \in Task : phase[t] \in Settled => phase'[t] = phase[t]]_queueVars
    BY QueueStepInv DEF StepOK, LifecycleStep
  <1> QED
    BY <1>1, QueueInvariance, PTL DEF QueueSpec, SettledIsFinal

-----------------------------------------------------------------------------
(***************************************************************************)
(* waitForActiveTasks.  DrainedIsTrue needs that the ids the call           *)
(* snapshotted belong to entries that have started: otherwise one of them   *)
(* could start after the answer.                                            *)
(***************************************************************************)
SnapshotStarted ==
    \A t \in activeAtStart : phase[t] \in {"running"} \cup Settled

WaitInv == SnapshotStarted /\ DrainedIsTrue

LEMMA WaitStepInv ==
  ASSUME QueueInv, WaitInv, [QueueNext]_queueVars
  PROVE  WaitInv'
  <1> USE LaneOfAssumption
  <1>1. /\ LaneAccounting /\ StartedInThePast
        /\ generation \in [Lane -> 0 .. MaxGeneration]
        /\ taskGeneration \in [Task -> 0 .. MaxGeneration]
        /\ activeAtStart \in SUBSET Task
    BY DEF QueueInv, LaneInv
  <1>2. /\ generation' \in [Lane -> 0 .. MaxGeneration]
        /\ LifecycleStep(Task, Task)
    BY QueueStepInv DEF QueueInv, LaneInv, StepOK
  <1>3. \A l \in Lane, t \in Task :
            t \in active[l] <=> LaneOf[t] = l /\ HoldsSlot(t)
    BY <1>1 DEF LaneAccounting
  <1>4. CASE WaitStart
    <2>1. /\ activeAtStart' = ActiveTasks
          /\ waiter' = IF ActiveTasks = {} THEN "drained" ELSE "polling"
          /\ UNCHANGED <<phase, taskGeneration, generation>>
      BY <1>4 DEF WaitStart, laneVars
    <2>2. \A t \in ActiveTasks : phase[t] = "running"
      <3> TAKE t \in ActiveTasks
      <3>1. PICK l \in Lane : t \in active[l]
        BY DEF ActiveTasks
      <3>2. t \in Task
        BY <3>1 DEF QueueInv, LaneInv
      <3> QED
        BY <1>3, <3>1, <3>2 DEF HoldsSlot
    <2> QED
      BY <2>1, <2>2 DEF WaitInv, SnapshotStarted, DrainedIsTrue
  <1>5. CASE WaitPoll
    <2>1. /\ waiter' = "drained" => ActiveTasks \cap activeAtStart = {}
          /\ UNCHANGED <<activeAtStart, phase, taskGeneration, generation>>
      BY <1>5 DEF WaitPoll, laneVars
    <2>2. ASSUME waiter' = "drained", NEW t \in activeAtStart, phase[t] = "running"
          PROVE  taskGeneration[t] < generation[LaneOf[t]]
      <3>1. t \in Task /\ LaneOf[t] \in Lane /\ t \notin active[LaneOf[t]]
        BY <1>1, <2>1, <2>2 DEF ActiveTasks
      <3>2. taskGeneration[t] # generation[LaneOf[t]]
        BY <1>3, <2>2, <3>1 DEF HoldsSlot
      <3>3. /\ taskGeneration[t] <= generation[LaneOf[t]]
            /\ taskGeneration[t] \in Nat /\ generation[LaneOf[t]] \in Nat
        BY <1>1, <3>1 DEF StartedInThePast
      <3> QED
        BY <3>2, <3>3
    <2> QED
      BY <2>1, <2>2 DEF WaitInv, SnapshotStarted, DrainedIsTrue
  <1>6. CASE ~WaitStart /\ ~WaitPoll
    <2>1. UNCHANGED <<waiter, activeAtStart>>
      BY <1>6 DEF QueueNext, queueVars, waitVars, Enqueue, Complete, SetConcurrency,
                  Clear, MarkDraining, Reset
    <2>2. SnapshotStarted'
      BY <1>1, <1>2, <2>1 DEF WaitInv, SnapshotStarted, LifecycleStep, Settled, Outcomes
    <2>3. ASSUME waiter = "drained", NEW t \in activeAtStart, phase'[t] = "running"
          PROVE  taskGeneration'[t] < generation'[LaneOf[t]]
      <3>1. t \in Task /\ LaneOf[t] \in Lane /\ phase[t] \in {"running"} \cup Settled
        BY <1>1 DEF WaitInv, SnapshotStarted
      <3>2. phase[t] = "running" /\ taskGeneration'[t] = taskGeneration[t]
        BY <1>2, <2>3, <3>1 DEF LifecycleStep, Settled, Outcomes
      <3>3. taskGeneration[t] < generation[LaneOf[t]]
        BY <2>3, <3>2 DEF WaitInv, DrainedIsTrue
      <3>4. /\ generation[LaneOf[t]] <= generation'[LaneOf[t]]
            /\ taskGeneration[t] \in Nat
            /\ generation[LaneOf[t]] \in Nat /\ generation'[LaneOf[t]] \in Nat
        BY <1>1, <1>2, <3>1 DEF LifecycleStep
      <3> QED
        BY <3>2, <3>3, <3>4
    <2> QED
      BY <2>1, <2>2, <2>3 DEF WaitInv, DrainedIsTrue
  <1> QED
    BY <1>4, <1>5, <1>6

\* A drained verdict is never given while a snapshotted task still runs in
\* its lane's current generation.
THEOREM QueueDrainedIsTrue == QueueSpec => []DrainedIsTrue
  <1>1. QueueInit => WaitInv
    BY DEF QueueInit, WaitInv, SnapshotStarted, DrainedIsTrue
  <1>2. QueueInv /\ WaitInv /\ [QueueNext]_queueVars => WaitInv'
    BY WaitStepInv
  <1>3. WaitInv => DrainedIsTrue
    BY DEF WaitInv
  <1> QED
    BY <1>1, <1>2, <1>3, QueueInvariance, PTL DEF QueueSpec

-----------------------------------------------------------------------------
(***************************************************************************)
(* First in, first out.  Whatever an operation does, it leaves of a lane's  *)
(* queue, or of the queue with a new entry at its end, what follows some    *)
(* prefix; and what is left of a queue is in the order it had.              *)
(***************************************************************************)
Suffix(s, q) == \E n \in 0 .. Len(q) : s = SubSeq(q, n + 1, Len(q))

\* t waits in front of u.
Before(t, u, q) == \E i, j \in 1 .. Len(q) : i < j /\ q[i] = t /\ q[j] = u

LEMMA SuffixKeepsOrder ==
  ASSUME NEW q \in Seq(Task), Distinct(q), NEW s, Suffix(s, q),
         NEW t, NEW u, Before(t, u, q), t \in Entries(s)
  PROVE  Before(t, u, s)
  <1>1. PICK n \in 0 .. Len(q) : s = SubSeq(q, n + 1, Len(q))
    BY DEF Suffix
  <1>2. PICK i, j \in 1 .. Len(q) : i < j /\ q[i] = t /\ q[j] = u
    BY DEF Before
  <1>3. /\ Len(q) \in Nat /\ n + 1 \in Int
        /\ \A k \in n + 1 .. Len(q) : q[k] \in Task
    BY <1>1
  <1>4. Len(s) = Len(q) - n /\ \A k \in 1 .. Len(q) - n : s[k] = q[k + n]
    BY <1>1, <1>3, SubSeqProperties
  <1>5. PICK k \in 1 .. Len(q) - n : t = q[k + n]
    BY <1>3, <1>4 DEF Entries
  <1>6. k + n = i
    <2>1. k + n \in 1 .. Len(q)
      BY <1>3, <1>5
    <2> QED
      BY <1>2, <1>5, <2>1 DEF Distinct
  <1>7. i - n \in 1 .. Len(s) /\ j - n \in 1 .. Len(s) /\ i - n < j - n
    BY <1>2, <1>3, <1>4, <1>5, <1>6
  <1>8. s[i - n] = q[i] /\ s[j - n] = q[j]
    <2>1. (i - n) + n = i /\ (j - n) + n = j
      BY <1>2, <1>3
    <2> QED
      BY <1>4, <1>7, <2>1
  <1> QED
    BY <1>2, <1>7, <1>8 DEF Before

LEMMA WholeIsSuffix ==
  ASSUME NEW q \in Seq(Task)
  PROVE  Suffix(q, q) /\ Suffix(<<>>, q)
  <1>1. 0 \in 0 .. Len(q) /\ Len(q) \in 0 .. Len(q) /\ Len(q) \in Nat
    OBVIOUS
  <1>2. q = SubSeq(q, 0 + 1, Len(q))
    OBVIOUS
  <1>3. <<>> = SubSeq(q, Len(q) + 1, Len(q))
    OBVIOUS
  <1> QED
    BY <1>1, <1>2, <1>3 DEF Suffix

\* The pump takes a prefix.
LEMMA PumpLeavesSuffix ==
  ASSUME NEW L, NEW q \in [Lane -> Seq(Task)], NEW a, NEW m \in [Lane -> Nat], NEW g, NEW ph,
         \A l \in Lane : IsFiniteSet(a[l]), PumpFrom(L, q, a, m, g, ph)
  PROVE  \A l \in Lane : Suffix(queue'[l], q[l])
  <1> SUFFICES ASSUME NEW l \in Lane PROVE Suffix(queue'[l], q[l])
    OBVIOUS
  <1>1. q[l] \in Seq(Task) /\ m[l] \in Nat /\ IsFiniteSet(a[l])
    OBVIOUS
  <1>2. queue'[l] = IF l \in L THEN Remaining(q[l], a[l], m[l]) ELSE q[l]
    BY DEF PumpFrom
  <1>3. Slots(q[l], a[l], m[l]) \in 0 .. Len(q[l])
    BY <1>1, SlotsBounds
  <1> QED
    BY <1>1, <1>2, <1>3, WholeIsSuffix DEF Remaining, Suffix

\* What every operation does to the queues.
LEMMA QueuesShift ==
  ASSUME QueueInv, [QueueNext]_queueVars
  PROVE  \/ \A l \in Lane : Suffix(queue'[l], queue[l])
         \/ \E x \in Task :
               /\ phase[x] = "new"
               /\ \A l \in Lane : Suffix(queue'[l], IF l = LaneOf[x] THEN Append(queue[l], x)
                                                               ELSE queue[l])
  <1> USE LaneOfAssumption, BoundAssumption
  <1> DEFINE Shift == \A l \in Lane : Suffix(queue'[l], queue[l])
  <1>1. /\ queue \in [Lane -> Seq(Task)]
        /\ maxConcurrent \in [Lane -> Nat] /\ active \in [Lane -> SUBSET Task]
        /\ \A l \in Lane : IsFiniteSet(active[l])
    BY DEF QueueInv, LaneInv, ActiveFinite
  <1>2. queue' = queue => Shift
    BY <1>1, WholeIsSuffix
  <1>3. ASSUME NEW x \in Task, Enqueue(x), ~gatewayDraining
        PROVE  \E y \in Task :
                 /\ phase[y] = "new"
                 /\ \A l \in Lane : Suffix(queue'[l], IF l = LaneOf[y] THEN Append(queue[l], y)
                                                                 ELSE queue[l])
    <2> DEFINE q == [queue EXCEPT ![LaneOf[x]] = Append(@, x)]
               ph == [phase EXCEPT ![x] = "queued"]
    <2>1. phase[x] = "new" /\ PumpFrom({LaneOf[x]}, q, active, maxConcurrent, generation, ph)
      BY <1>3 DEF Enqueue
    <2>2. q \in [Lane -> Seq(Task)]
      BY <1>1
    <2>3. \A l \in Lane : q[l] = IF l = LaneOf[x] THEN Append(queue[l], x) ELSE queue[l]
      BY <1>1
    <2> HIDE DEF q, ph
    <2>4. \A l \in Lane : Suffix(queue'[l], q[l])
      BY <1>1, <2>1, <2>2, PumpLeavesSuffix
    <2> QED
      BY <2>1, <2>3, <2>4
  <1>4. ASSUME NEW x \in Task, Enqueue(x), gatewayDraining PROVE Shift
    BY <1>2, <1>4 DEF Enqueue
  <1>5. ASSUME NEW x \in Task, NEW o \in Outcomes, Complete(x, o) PROVE Shift
    <2> DEFINE a == [active EXCEPT ![LaneOf[x]] = @ \ {x}]
    <2>1. \/ queue' = queue
          \/ PumpFrom({LaneOf[x]}, queue, a, maxConcurrent, generation,
                      [phase EXCEPT ![x] = o])
      BY <1>5 DEF Complete
    <2>2. \A l \in Lane : IsFiniteSet(a[l])
      <3> TAKE l \in Lane
      <3>1. a[l] \in SUBSET active[l]
        BY <1>1
      <3> QED
        BY <1>1, <3>1, FS_Subset
    <2> HIDE DEF a
    <2> QED
      BY <1>1, <1>2, <2>1, <2>2, PumpLeavesSuffix
  <1>6. ASSUME NEW l \in Lane, NEW n \in 0 .. MaxConcurrent, SetConcurrency(l, n) PROVE Shift
    <2> DEFINE m == [maxConcurrent EXCEPT ![l] = IF n < 1 THEN 1 ELSE n]
    <2>1. PumpFrom({l}, queue, active, m, generation, phase)
      BY <1>6 DEF SetConcurrency
    <2>2. m \in [Lane -> Nat]
      BY <1>1
    <2> HIDE DEF m
    <2> QED
      BY <1>1, <2>1, <2>2, PumpLeavesSuffix
  <1>7. ASSUME NEW l \in Lane, Clear(l) PROVE Shift
    BY <1>1, <1>7, WholeIsSuffix DEF Clear
  <1>8. CASE Reset
    <2> DEFINE a == [l \in Lane |-> {}]
               g == [l \in Lane |-> generation[l] + 1]
    <2>1. PumpFrom({l \in Lane : queue[l] # <<>>}, queue, a, maxConcurrent, g, phase)
      BY <1>8 DEF Reset
    <2>2. \A l \in Lane : IsFiniteSet(a[l])
      BY FS_EmptySet
    <2> HIDE DEF a, g
    <2> QED
      BY <1>1, <2>1, <2>2, PumpLeavesSuffix
  <1>9. CASE MarkDraining \/ WaitStart \/ WaitPoll \/ UNCHANGED queueVars
    BY <1>2, <1>9 DEF MarkDraining, WaitStart, WaitPoll, queueVars, laneVars
  <1> QED
    BY <1>3, <1>4, <1>5, <1>6, <1>7, <1>8, <1>9 DEF QueueNext

\* An entry that has not been submitted stays so in every other operation.
LEMMA NewStaysNew ==
  ASSUME QueueInv, [QueueNext]_queueVars, NEW u \in Task, phase[u] = "new",
         ~(Enqueue(u) /\ ~gatewayDraining)
  PROVE  phase'[u] \in {"new", "refused"}
  <1>1. ASSUME NEW x \in Task, Enqueue(x), x # u PROVE phase'[u] = "new"
    BY <1>1, EnqueueInv DEF StepOK, LifecycleStep
  <1>2. CASE Enqueue(u) /\ gatewayDraining
    <2>1. phase' = [phase EXCEPT ![u] = "refused"] /\ phase \in [Task -> Phases]
      BY <1>2 DEF Enqueue, QueueInv, LaneInv
    <2> QED
      BY <2>1
  <1>3. ASSUME NEW x \in Task, NEW o \in Outcomes, Complete(x, o) PROVE phase'[u] = "new"
    BY <1>3, CompleteInv DEF StepOK, LifecycleStep
  <1>4. ASSUME NEW l \in Lane, NEW n \in 0 .. MaxConcurrent, SetConcurrency(l, n)
        PROVE  phase'[u] = "new"
    BY <1>4, SetConcurrencyInv DEF StepOK, LifecycleStep
  <1>5. ASSUME NEW l \in Lane, Clear(l) PROVE phase'[u] = "new"
    BY <1>5, ClearInv DEF StepOK, LifecycleStep
  <1>6. CASE Reset
    BY <1>6, ResetInv DEF StepOK, LifecycleStep
  <1>7. CASE MarkDraining \/ WaitStart \/ WaitPoll \/ UNCHANGED queueVars
    BY <1>7, OthersInv DEF StepOK, LifecycleStep
  <1> QED
    BY <1>1, <1>2, <1>3, <1>4, <1>5, <1>6, <1>7 DEF QueueNext

\* The queue an operation shifts has no entry twice.
LEMMA AppendedDistinct ==
  ASSUME QueueInv, NEW x \in Task, phase[x] = "new"
  PROVE  /\ Append(queue[LaneOf[x]], x) \in Seq(Task)
         /\ Distinct(Append(queue[LaneOf[x]], x))
  <1> DEFINE q == queue[LaneOf[x]]
  <1>1. LaneOf[x] \in Lane
    BY LaneOfAssumption
  <1>2. q \in Seq(Task) /\ Distinct(q) /\ x \notin Entries(q)
    BY <1>1 DEF QueueInv, LaneInv, LaneAccounting
  <1> HIDE DEF q
  <1>3. Append(q, x) \in Seq(Task) /\ Distinct(Append(q, x))
    BY <1>2 DEF Distinct, Entries
  <1> QED
    BY <1>3 DEF q

\* The step that NoOvertaking speaks of.
FifoStep ==
    \A t, u \in Task :
        /\ LaneOf[t] = LaneOf[u] /\ t # u
        /\ phase[t] = "queued" /\ phase'[t] = "queued"
        /\ Ahead(t, u) \/ phase[u] = "new"
        => Ahead(t, u)' \/ phase'[u] \in {"new", "refused"}

LEMMA FifoStepHolds == QueueInv /\ [QueueNext]_queueVars => FifoStep
  <1> SUFFICES ASSUME QueueInv, [QueueNext]_queueVars, NEW t \in Task, NEW u \in Task,
                      LaneOf[t] = LaneOf[u], t # u,
                      phase[t] = "queued", phase'[t] = "queued",
                      Ahead(t, u) \/ phase[u] = "new",
                      phase'[u] \notin {"new", "refused"}
               PROVE  Ahead(t, u)'
    BY DEF FifoStep
  <1> DEFINE l == LaneOf[t]
  <1>1. l \in Lane
    BY LaneOfAssumption
  <1>2. /\ queue[l] \in Seq(Task) /\ Distinct(queue[l])
        /\ t \in Entries(queue[l]) /\ t \in Entries(queue'[l])
    BY <1>1, QueueStepInv DEF QueueInv, LaneInv, LaneAccounting
  <1>3. Ahead(t, u) <=> Before(t, u, queue[l])
    BY DEF Ahead, Before
  <1>4. Ahead(t, u)' <=> Before(t, u, queue'[l])
    BY DEF Ahead, Before
  <1>5. CASE phase[u] = "new" /\ Enqueue(u) /\ ~gatewayDraining
    <2> DEFINE q == [queue EXCEPT ![l] = Append(@, u)]
    <2>1. PumpFrom({l}, q, active, maxConcurrent, generation, [phase EXCEPT ![u] = "queued"])
      BY <1>5 DEF Enqueue
    <2>2. /\ q \in [Lane -> Seq(Task)] /\ q[l] = Append(queue[l], u)
          /\ maxConcurrent \in [Lane -> Nat] /\ \A k \in Lane : IsFiniteSet(active[k])
      BY <1>1, BoundAssumption DEF QueueInv, LaneInv, ActiveFinite
    <2> HIDE DEF q
    <2>3. Suffix(queue'[l], Append(queue[l], u))
      BY <1>1, <2>1, <2>2, PumpLeavesSuffix
    <2>4. Before(t, u, Append(queue[l], u))
      BY <1>2 DEF Before, Entries
    <2>5. Append(queue[l], u) \in Seq(Task) /\ Distinct(Append(queue[l], u))
      BY <1>5, AppendedDistinct
    <2> QED
      BY <1>2, <1>4, <2>3, <2>4, <2>5, SuffixKeepsOrder
  <1>6. CASE Ahead(t, u) /\ Suffix(queue'[l], queue[l])
    BY <1>2, <1>3, <1>4, <1>6, SuffixKeepsOrder
  <1>7. CASE Ahead(t, u) /\ ~Suffix(queue'[l], queue[l])
    <2>1. PICK x \in Task : /\ phase[x] = "new" /\ l = LaneOf[x]
                           /\ Suffix(queue'[l], Append(queue[l], x))
      BY <1>1, <1>7, QueuesShift
    <2>2. Append(queue[l], x) \in Seq(Task) /\ Distinct(Append(queue[l], x))
      BY <2>1, AppendedDistinct
    <2>3. Before(t, u, Append(queue[l], x))
      BY <1>2, <1>3, <1>7 DEF Before
    <2> QED
      BY <1>2, <1>4, <2>1, <2>2, <2>3, SuffixKeepsOrder
  <1>8. CASE phase[u] = "new" /\ ~(Enqueue(u) /\ ~gatewayDraining)
    <2>1. phase'[u] \in {"new", "refused"}
      BY <1>8, NewStaysNew
    <2> QED
      BY <2>1
  <1> QED
    BY <1>5, <1>6, <1>7, <1>8

\* FIFO in every lane, for any lanes, caps, clears and resets: an entry that is
\* behind another one, or comes later, does not start before it and does not get
\* in front of it.
THEOREM QueueNoOvertaking == QueueSpec => NoOvertaking
  <1>1. QueueInv /\ [QueueNext]_queueVars => [FifoStep]_queueVars
    BY FifoStepHolds
  <1>2. ASSUME [][FifoStep]_queueVars PROVE NoOvertaking
    BY <1>2, PTL DEF NoOvertaking, FifoStep
  <1> QED
    BY <1>1, <1>2, QueueInvariance, PTL DEF QueueSpec

=============================================================================
