-------------------------- MODULE CronServiceProofs --------------------------
(***************************************************************************)
(* Proofs about CronService, for any jobs, schedules, manual runs and limits.*)
(*                                                                          *)
(* Every change of the jobs is one of a few (JobsChange), and what each does*)
(* to a next run gives the two properties of steps.  A claim sets the mark  *)
(* of its job, and a mark that is cleared under a claim is observed: so two *)
(* claims of a job whose mark was left alone are one (Claims).              *)
(* SchedulerAlive rests on what no next run means after the start: a one-   *)
(* shot that has succeeded, which no maintenance brings back (NextKnown).   *)
(***************************************************************************)
EXTENDS CronService, FiniteSetTheorems, TLAPS

JobType == [kind : Kind, stored : {"unborn", "stored", "gone"}, enabled : BOOLEAN,
            when : Nat, next : Nat, mark : BOOLEAN, last : Nat,
            status : {"none", "ok", "skipped", "error"}, errors : Nat]

RunType == [at : {"idle", "ready", "waiting", "running", "ended"},
            began : Nat, ended : Nat, outcome : Outcome \cup {"none"}]

\* The types of what the other parts are about, without the bounds of a run.
Shaped ==
    /\ now \in Nat
    /\ job \in [Job -> JobType]
    /\ run \in [Owner -> [Job -> RunType]]
    /\ deferred \in Seq(Job)

Executes(o, j) == run[o][j].at # "idle"

\* A process that is down holds nothing; a tick lasts as long as its batch.
Asleep ==
    /\ phase = "stopped" => ~timer /\ ~ticking /\ \A o \in Owner, j \in Job : ~Executes(o, j)
    /\ ~Free("tick") => ticking

\* A claimed job is marked, and has one claimant, unless its mark was cleared.
Claims ==
    /\ \A j \in Job : job[j].stored = "unborn" => ~job[j].mark
    /\ \A o \in Owner, j \in Job : j \notin unmarked /\ Claimed(o, j) => job[j].mark
    /\ \A o, p \in Owner, j \in Job :
          j \notin unmarked /\ Claimed(o, j) /\ Claimed(p, j) => o = p

ClaimInv == Shaped /\ Asleep /\ Claims /\ MarkClaimed

\* A one-shot that is not due again, whenever it is asked for.
NeverAgain(r) == r.kind = "at" /\ ComputeNext(r, 0) = 0

NextKnown ==
    ~overlap /\ phase = "started" =>
        \A j \in Job : Stored(j) /\ job[j].enabled /\ job[j].next = 0 => NeverAgain(job[j])

-----------------------------------------------------------------------------
(* Operators *)

LEMMA ConstantTypes ==
  /\ Period \in Nat \ {0} /\ At \in Nat \ {0} /\ Backoff \in Nat \ {0}
  /\ Stagger \in Nat \ {0} /\ MaxMissed \in Nat /\ MaxRetries \in Nat /\ MinRefireGap \in Nat
  /\ Outcome \subseteq {"ok", "skipped", "transient", "permanent"}
  /\ "tick" \notin Manual /\ "catchup" \notin Manual
  /\ "tick" \in Owner /\ "catchup" \in Owner /\ Manual \subseteq Owner
  BY CronConstants DEF Owner

LEMMA IdleTyped == Idle \in RunType
  BY DEF Idle, RunType

\* s is the job r but for its next run and its mark.
Same(r, s) ==
    /\ s.kind = r.kind /\ s.stored = r.stored /\ s.enabled = r.enabled
    /\ s.when = r.when /\ s.last = r.last /\ s.status = r.status

LEMMA WithNext ==
  ASSUME NEW r \in JobType, NEW n \in Nat
  PROVE  LET s == [r EXCEPT !.next = n]
         IN s \in JobType /\ Same(r, s) /\ s.next = n /\ s.mark = r.mark
  BY DEF JobType, Same

LEMMA WithMark ==
  ASSUME NEW r \in JobType, NEW b \in BOOLEAN
  PROVE  LET s == [r EXCEPT !.mark = b]
         IN s \in JobType /\ Same(r, s) /\ s.next = r.next /\ s.mark = b
  BY DEF JobType, Same

LEMMA WithoutEnabled ==
  ASSUME NEW r \in JobType
  PROVE  LET s == [r EXCEPT !.enabled = FALSE]
         IN /\ s \in JobType
            /\ s.kind = r.kind /\ s.stored = r.stored /\ s.mark = r.mark
  BY DEF JobType

\* A job that is disabled keeps neither its next run nor its mark.
LEMMA WithNeither ==
  ASSUME NEW r \in JobType
  PROVE  LET s == [r EXCEPT !.next = 0, !.mark = FALSE]
         IN s \in JobType /\ Same(r, s) /\ s.next = 0 /\ s.mark = FALSE
  <1>1. [r EXCEPT !.next = 0, !.mark = FALSE] = [[r EXCEPT !.next = 0] EXCEPT !.mark = FALSE]
    BY DEF JobType
  <1> DEFINE m == [r EXCEPT !.next = 0]
  <1>2. m \in JobType /\ Same(r, m) /\ m.next = 0
    BY WithNext
  <1> HIDE DEF m
  <1>3. LET s == [m EXCEPT !.mark = FALSE]
        IN s \in JobType /\ Same(m, s) /\ s.next = 0 /\ s.mark = FALSE
    BY <1>2, WithMark
  <1> QED
    BY <1>1, <1>2, <1>3 DEF m, Same

\* A next run is a time; only a one-shot may have none.
LEMMA NextRun ==
  ASSUME NEW r \in JobType, NEW t \in Nat
  PROVE  /\ ComputeNext(r, t) \in Nat
         /\ r.enabled /\ ComputeNext(r, t) = 0 => NeverAgain(r)
         /\ Spent(r) => ComputeNext(r, t) = 0
  <1>1. \A a \in Nat : Grid(a, t) \in Nat /\ (Grid(a, t) # 0 \/ t < a)
    <2> TAKE a \in Nat
    <2>1. CASE t < a
      BY <2>1 DEF Grid
    <2>2. CASE t >= a
      <3> DEFINE steps == (t - a + Period - 1) \div Period
                 k == IF steps > 1 THEN steps ELSE 1
      <3>1. steps \in Int
        BY ConstantTypes
      <3> HIDE DEF steps
      <3>2. k \in Nat /\ k > 0
        BY <3>1
      <3> HIDE DEF k
      <3>3. k * Period \in Nat /\ k * Period > 0
        BY <3>2, ConstantTypes
      <3>4. Grid(a, t) = a + k * Period
        BY <2>2 DEF Grid, k, steps
      <3> QED
        BY <3>3, <3>4
    <2> QED
      BY <2>1, <2>2
  <1>2. /\ (t \div Period + 1) * Period \in Nat
        /\ (t \div Period + 1) * Period > 0
    <2>1. t \div Period + 1 \in Nat /\ t \div Period + 1 > 0
      BY ConstantTypes
    <2> QED
      BY <2>1, ConstantTypes
  <1>3. \A a \in Nat : Grid(a, t) # 0
    BY <1>1 DEF Grid
  <1> QED
    BY <1>1, <1>2, <1>3, ConstantTypes DEF ComputeNext, NeverAgain, Spent, JobType, Kind

\* A next run does not depend on the mark, nor on the next run there was.
LEMMA NextOfSame ==
  ASSUME NEW r \in JobType, NEW s \in JobType, Same(r, s)
  PROVE  NeverAgain(r) => NeverAgain(s)
  BY DEF NeverAgain, Same, ComputeNext, JobType

LEMMA MaintainedEffect ==
  ASSUME NEW jobs \in [Job -> JobType], now \in Nat, NEW expired \in BOOLEAN
  PROVE  /\ Maintained(jobs, expired) \in [Job -> JobType]
         /\ \A j \in Job :
              LET r == jobs[j]
                  s == Maintained(jobs, expired)[j]
              IN /\ Same(r, s)
                 /\ s.mark => r.mark
                 /\ r.stored # "stored" => s = r
                 /\ s.stored = "stored" /\ s.enabled /\ s.next = 0 => NeverAgain(s)
                 /\ s.stored = "stored" /\ s.next # r.next
                      => ~r.enabled \/ r.next = 0 \/ (expired /\ r.last >= r.next)
                 /\ Spent(s) /\ s.next # 0 => Spent(r) /\ r.next # 0
                 /\ s.enabled /\ s.next # 0 => r.next # 0 \/ ~NeverAgain(r)
  <1> SUFFICES ASSUME NEW j \in Job
               PROVE  LET r == jobs[j]
                          s == Maintained(jobs, expired)[j]
                      IN /\ s \in JobType
                         /\ Same(r, s)
                         /\ s.mark => r.mark
                         /\ r.stored # "stored" => s = r
                         /\ s.stored = "stored" /\ s.enabled /\ s.next = 0 => NeverAgain(s)
                         /\ s.stored = "stored" /\ s.next # r.next
                              => ~r.enabled \/ r.next = 0 \/ (expired /\ r.last >= r.next)
                         /\ Spent(s) /\ s.next # 0 => Spent(r) /\ r.next # 0
                         /\ s.enabled /\ s.next # 0 => r.next # 0 \/ ~NeverAgain(r)
    BY DEF Maintained
  <1> DEFINE r == jobs[j]
             s == Maintained(jobs, expired)[j]
  <1>1. r \in JobType
    OBVIOUS
  <1> HIDE DEF r
  <1>2. CASE r.stored # "stored"
    <2>1. s = r
      BY <1>2 DEF Maintained, r
    <2> QED
      BY <1>1, <1>2, <2>1 DEF Same, Spent, r
  <1>3. CASE r.stored = "stored" /\ ~r.enabled
    <2>1. s = [r EXCEPT !.next = 0, !.mark = FALSE]
      BY <1>3 DEF Maintained, r
    <2>2. s \in JobType /\ Same(r, s) /\ s.next = 0 /\ s.mark = FALSE
      BY <1>1, <2>1, WithNeither
    <2> QED
      BY <1>1, <1>3, <2>2 DEF Same, Spent, r
  <1>4. CASE /\ r.stored = "stored" /\ r.enabled
             /\ r.next = 0 \/ (expired /\ now >= r.next /\ ~r.mark /\ r.last >= r.next)
    <2>1. s = [r EXCEPT !.next = ComputeNext(r, now)]
      BY <1>4 DEF Maintained, r
    <2> DEFINE n == ComputeNext(r, now)
    <2>2. /\ n \in Nat
          /\ n = 0 => NeverAgain(r)
          /\ Spent(r) => n = 0
      BY <1>1, <1>4, NextRun
    <2>3. n # 0 => ~NeverAgain(r)
      BY DEF NeverAgain, ComputeNext
    <2> HIDE DEF n
    <2>4. s \in JobType /\ Same(r, s) /\ s.next = n /\ s.mark = r.mark
      BY <1>1, <2>1, <2>2, WithNext DEF n
    <2>5. Spent(s) => Spent(r)
      BY <2>4 DEF Spent, Same
    <2>6. NeverAgain(r) => NeverAgain(s)
      BY <1>1, <2>4, NextOfSame
    <2> QED
      BY <1>4, <2>2, <2>3, <2>4, <2>5, <2>6 DEF r, Same
  <1>5. CASE /\ r.stored = "stored" /\ r.enabled
             /\ ~(r.next = 0 \/ (expired /\ now >= r.next /\ ~r.mark /\ r.last >= r.next))
    <2>1. s = r
      BY <1>5 DEF Maintained, r
    <2> QED
      BY <1>1, <1>5, <2>1 DEF Same, Spent, r
  <1> QED
    BY <1>1, <1>2, <1>3, <1>4, <1>5 DEF JobType

LEMMA RecomputedEffect ==
  ASSUME Shaped
  PROVE  /\ Recomputed \in [Job -> JobType]
         /\ \A j \in Job :
              LET s == Recomputed[j]
              IN /\ Same(job[j], s)
                 /\ s.mark => job[j].mark
                 /\ ~Stored(j) => s = job[j]
                 /\ s.stored = "stored" /\ s.enabled /\ s.next = 0 => NeverAgain(s)
                 /\ Spent(s) /\ s.next # 0 => Spent(job[j]) /\ job[j].next # 0
  <1> SUFFICES ASSUME NEW j \in Job
               PROVE  LET r == job[j]
                          s == Recomputed[j]
                      IN /\ s \in JobType
                         /\ Same(r, s)
                         /\ s.mark => r.mark
                         /\ r.stored # "stored" => s = r
                         /\ s.stored = "stored" /\ s.enabled /\ s.next = 0 => NeverAgain(s)
                         /\ Spent(s) /\ s.next # 0 => Spent(r) /\ r.next # 0
    BY DEF Recomputed, Stored
  <1> DEFINE r == job[j]
             s == Recomputed[j]
  <1>1. r \in JobType /\ now \in Nat
    BY DEF Shaped
  <1> HIDE DEF r
  <1>2. CASE r.stored # "stored"
    <2>1. s = r
      BY <1>2 DEF Recomputed, Stored, r
    <2> QED
      BY <1>1, <1>2, <2>1 DEF Same, Spent, r
  <1>3. CASE r.stored = "stored" /\ ~r.enabled
    <2>1. s = [r EXCEPT !.next = 0, !.mark = FALSE]
      BY <1>3 DEF Recomputed, Stored, r
    <2>2. s \in JobType /\ Same(r, s) /\ s.next = 0 /\ s.mark = FALSE
      BY <1>1, <2>1, WithNeither
    <2> QED
      BY <1>1, <1>3, <2>2 DEF Same, Spent, r
  <1>4. CASE r.stored = "stored" /\ r.enabled /\ (r.next = 0 \/ now >= r.next)
    <2>1. s = [r EXCEPT !.next = ComputeNext(r, now)]
      BY <1>4 DEF Recomputed, Stored, r
    <2> DEFINE n == ComputeNext(r, now)
    <2>2. /\ n \in Nat
          /\ n = 0 => NeverAgain(r)
          /\ Spent(r) => n = 0
      BY <1>1, <1>4, NextRun
    <2> HIDE DEF n
    <2>3. s \in JobType /\ Same(r, s) /\ s.next = n /\ s.mark = r.mark
      BY <1>1, <2>1, <2>2, WithNext DEF n
    <2>4. Spent(s) => Spent(r)
      BY <2>3 DEF Spent, Same
    <2>5. NeverAgain(r) => NeverAgain(s)
      BY <1>1, <2>3, NextOfSame
    <2> QED
      BY <1>4, <2>2, <2>3, <2>4, <2>5 DEF r, Same
  <1>5. CASE r.stored = "stored" /\ r.enabled /\ ~(r.next = 0 \/ now >= r.next)
    <2>1. s = r
      BY <1>5 DEF Recomputed, Stored, r
    <2> QED
      BY <1>1, <1>5, <2>1 DEF Same, Spent, r
  <1> QED
    BY <1>1, <1>2, <1>3, <1>4, <1>5 DEF JobType

\* A result clears the mark; a one-shot that has succeeded gets no next run.
LEMMA AppliedEffect ==
  ASSUME NEW j \in Job, NEW r \in JobType, NEW e \in RunType, NEW preserve \in BOOLEAN
  PROVE  LET s == Applied(j, r, e, preserve)
         IN /\ s \in JobType
            /\ s.kind = r.kind /\ s.mark = FALSE
            /\ s.stored \in {r.stored, "gone"}
            /\ Spent(s) => s.next = 0
  <1> DEFINE failed == e.outcome \in {"transient", "permanent"}
             errors == IF ~failed THEN 0
                       ELSE IF r.errors > MaxRetries THEN r.errors ELSE r.errors + 1
             status == IF failed THEN "error" ELSE e.outcome
             done == [r EXCEPT !.mark = FALSE, !.last = e.began, !.errors = errors,
                               !.status = status]
             natural == ComputeNext([done EXCEPT !.last = IF preserve THEN r.last ELSE @], e.ended)
             s == Applied(j, r, e, preserve)
  <1>1. errors \in Nat /\ e.began \in Nat /\ e.ended \in Nat
    BY ConstantTypes DEF JobType, RunType
  <1>2. status \in {"none", "ok", "skipped", "error"} /\ (failed => status = "error")
        /\ (~failed => status = e.outcome)
    BY ConstantTypes DEF RunType
  <1> HIDE DEF errors, status
  <1>3. done \in JobType
    BY <1>1, <1>2 DEF JobType
  <1>4. [done EXCEPT !.last = IF preserve THEN r.last ELSE @] \in JobType
    BY <1>3 DEF JobType
  <1> HIDE DEF done
  <1>5. natural \in Nat
    BY <1>1, <1>4, NextRun
  <1>6. done.kind = r.kind /\ done.mark = FALSE /\ done.stored = r.stored /\ done.status = status
        /\ done.enabled = r.enabled
    BY DEF done, JobType
  <1> HIDE DEF natural
  <1>7. s = IF r.kind = "at" THEN
                IF e.outcome = "ok" /\ j \in DeleteAfterRun THEN [done EXCEPT !.stored = "gone"]
                ELSE IF e.outcome = "transient" /\ errors <= MaxRetries
                     THEN [done EXCEPT !.next = e.ended + Backoff]
                ELSE [done EXCEPT !.enabled = FALSE, !.next = 0]
            ELSE IF ~r.enabled THEN [done EXCEPT !.next = 0]
            ELSE IF failed THEN [done EXCEPT !.next = Later(natural, e.ended + Backoff)]
            ELSE IF r.kind = "cron"
                 THEN [done EXCEPT !.next = Later(natural, e.ended + MinRefireGap)]
            ELSE [done EXCEPT !.next = natural]
    BY DEF Applied, done, natural, errors, status
  <1>8. /\ Later(natural, e.ended + Backoff) \in Nat /\ e.ended + Backoff \in Nat
        /\ Later(natural, e.ended + MinRefireGap) \in Nat
    BY <1>1, <1>5, ConstantTypes DEF Later
  <1>9. CASE r.kind = "at"
    <2>1. CASE e.outcome = "ok" /\ j \in DeleteAfterRun
      <3>1. s = [done EXCEPT !.stored = "gone"]
        BY <1>7, <1>9, <2>1
      <3> QED
        BY <1>3, <1>6, <3>1 DEF JobType, Spent
    <2>2. CASE ~(e.outcome = "ok" /\ j \in DeleteAfterRun)
               /\ e.outcome = "transient" /\ errors <= MaxRetries
      <3>1. s = [done EXCEPT !.next = e.ended + Backoff]
        BY <1>7, <1>9, <2>2
      <3>2. done.status = "error"
        BY <1>2, <1>6, <2>2
      <3> QED
        BY <1>3, <1>6, <1>8, <3>1, <3>2 DEF JobType, Spent
    <2>3. CASE ~(e.outcome = "ok" /\ j \in DeleteAfterRun)
               /\ ~(e.outcome = "transient" /\ errors <= MaxRetries)
      <3>1. s = [[done EXCEPT !.enabled = FALSE] EXCEPT !.next = 0]
        BY <1>3, <1>7, <1>9, <2>3 DEF JobType
      <3> DEFINE off == [done EXCEPT !.enabled = FALSE]
      <3>2. /\ off \in JobType
            /\ off.kind = done.kind /\ off.mark = done.mark /\ off.stored = done.stored
        BY <1>3, WithoutEnabled
      <3>3. s = [off EXCEPT !.next = 0]
        BY <3>1
      <3> HIDE DEF off
      <3>4. s \in JobType /\ Same(off, s) /\ s.next = 0 /\ s.mark = off.mark
        BY <3>2, <3>3, WithNext
      <3>5. s.kind = r.kind /\ s.stored \in {r.stored, "gone"}
        BY <1>6, <3>2, <3>4 DEF Same
      <3>6. s.mark = FALSE
        BY <1>6, <3>2, <3>4
      <3> QED
        BY <3>4, <3>5, <3>6
    <2> QED
      BY <2>1, <2>2, <2>3
  <1>10. CASE r.kind # "at"
    <2>1. \E n \in Nat : s = [done EXCEPT !.next = n]
      BY <1>5, <1>7, <1>8, <1>10
    <2>2. PICK n \in Nat : s = [done EXCEPT !.next = n]
      BY <2>1
    <2> QED
      BY <1>3, <1>6, <1>10, <2>2 DEF JobType, Spent
  <1> QED
    BY <1>9, <1>10

LEMMA AllAppliedEffect ==
  ASSUME Shaped, NEW o \in Owner
  PROVE  /\ AllApplied(o) \in [Job -> JobType]
         /\ \A j \in Job :
              LET s == AllApplied(o)[j]
              IN /\ ~(Stored(j) /\ run[o][j].at = "ended") => s = job[j]
                 /\ Stored(j) /\ run[o][j].at = "ended" => ~s.mark
                 /\ s.stored \in {job[j].stored, "gone"}
                 /\ ~Stored(j) => s = job[j]
                 /\ Spent(s) /\ s.next # 0 => Spent(job[j]) /\ job[j].next # 0
  <1> SUFFICES ASSUME NEW j \in Job
               PROVE  LET s == AllApplied(o)[j]
                      IN /\ s \in JobType
                         /\ ~(Stored(j) /\ run[o][j].at = "ended") => s = job[j]
                         /\ Stored(j) /\ run[o][j].at = "ended" => ~s.mark
                         /\ s.stored \in {job[j].stored, "gone"}
                         /\ ~Stored(j) => s = job[j]
                         /\ Spent(s) /\ s.next # 0 => Spent(job[j]) /\ job[j].next # 0
    BY DEF AllApplied
  <1>1. job[j] \in JobType /\ run[o][j] \in RunType
    BY DEF Shaped
  <1>2. CASE Stored(j) /\ run[o][j].at = "ended"
    <2> DEFINE s == Applied(j, job[j], run[o][j], FALSE)
    <2>1. AllApplied(o)[j] = s
      BY <1>2 DEF AllApplied
    <2>2. FALSE \in BOOLEAN
      OBVIOUS
    <2>3. /\ s \in JobType /\ s.mark = FALSE
          /\ s.stored \in {job[j].stored, "gone"}
          /\ Spent(s) => s.next = 0
      BY <1>1, <2>2, AppliedEffect
    <2> HIDE DEF s
    <2> QED
      BY <1>2, <2>1, <2>3
  <1>3. CASE ~(Stored(j) /\ run[o][j].at = "ended")
    <2>1. AllApplied(o)[j] = job[j]
      BY <1>3 DEF AllApplied
    <2> QED
      BY <1>1, <1>3, <2>1
  <1> QED
    BY <1>2, <1>3

LEMMA PutOffEffect ==
  ASSUME Shaped, NEW jobs \in [Job -> JobType]
  PROVE  /\ PutOff(jobs) \in [Job -> JobType]
         /\ \A j \in Job :
              LET s == PutOff(jobs)[j]
              IN /\ Same(jobs[j], s)
                 /\ s.mark = jobs[j].mark
                 /\ jobs[j].stored # "stored" => s = jobs[j]
                 /\ s.next = jobs[j].next \/ \E n \in DOMAIN deferred : deferred[n] = j
  <1> DEFINE Live(j) == jobs[j].stored = "stored" /\ jobs[j].enabled
             Place(j) == CHOOSE n \in DOMAIN deferred : deferred[n] = j
             Before(j) == {n \in 1 .. Place(j) : Live(deferred[n])}
             Off(j) == now + Stagger * Cardinality(Before(j))
  <1> SUFFICES ASSUME NEW j \in Job
               PROVE  LET s == PutOff(jobs)[j]
                      IN /\ s \in JobType
                         /\ Same(jobs[j], s)
                         /\ s.mark = jobs[j].mark
                         /\ jobs[j].stored # "stored" => s = jobs[j]
                         /\ s.next = jobs[j].next \/ \E n \in DOMAIN deferred : deferred[n] = j
    BY DEF PutOff
  <1>1. jobs[j] \in JobType
    OBVIOUS
  <1>2. CASE (\E n \in DOMAIN deferred : deferred[n] = j) /\ Live(j)
    <2>1. Place(j) \in DOMAIN deferred
      BY <1>2
    <2>2. Place(j) \in Nat
      BY <2>1 DEF Shaped
    <2>3. IsFiniteSet(Before(j)) /\ Cardinality(Before(j)) \in Nat
      <3> HIDE DEF Place, Live
      <3>1. IsFiniteSet(1 .. Place(j))
        BY <2>2, FS_Interval
      <3>2. Before(j) \subseteq 1 .. Place(j)
        OBVIOUS
      <3> QED
        BY <3>1, <3>2, FS_Subset, FS_CardinalityType
    <2>4. Off(j) \in Nat
      <3> DEFINE k == Cardinality(Before(j))
      <3>1. k \in Nat
        BY <2>3
      <3> HIDE DEF k
      <3>2. Stagger * k \in Nat
        BY <3>1, ConstantTypes
      <3>3. now + Stagger * k \in Nat
        BY <3>2 DEF Shaped
      <3>4. Off(j) = now + Stagger * k
        BY DEF k
      <3> QED
        BY <3>3, <3>4
    <2>5. PutOff(jobs)[j] = [jobs[j] EXCEPT !.next = Off(j)]
      BY <1>2 DEF PutOff
    <2> HIDE DEF Off
    <2> QED
      BY <1>1, <1>2, <2>4, <2>5, WithNext
  <1>3. CASE ~((\E n \in DOMAIN deferred : deferred[n] = j) /\ Live(j))
    <2>1. PutOff(jobs)[j] = jobs[j]
      BY <1>3 DEF PutOff
    <2> QED
      BY <1>1, <2>1 DEF Same
  <1> QED
    BY <1>2, <1>3

-----------------------------------------------------------------------------
(* What the actions do to the jobs *)

\* At most marks change.
MarksOnly ==
    /\ job' \in [Job -> JobType]
    /\ \A j \in Job : Same(job[j], job'[j]) /\ job'[j].next = job[j].next

\* The job that is edited has the next run its schedule asks for.
Edited(j, s) ==
    /\ job' = [job EXCEPT ![j] = s]
    /\ s \in JobType
    /\ s.stored = job[j].stored
    /\ s.mark => job[j].mark
    /\ s.enabled /\ s.next = 0 => NeverAgain(s)
    /\ Spent(s) => s.next = 0

LEMMA MarkedOnly ==
  ASSUME Shaped, NEW S \in SUBSET Job, NEW b \in BOOLEAN,
         job' = [j \in Job |-> IF j \in S THEN [job[j] EXCEPT !.mark = b] ELSE job[j]]
  PROVE  MarksOnly
  <1> SUFFICES ASSUME NEW j \in Job
               PROVE  /\ job'[j] \in JobType
                      /\ Same(job[j], job'[j]) /\ job'[j].next = job[j].next
    BY DEF MarksOnly
  <1>1. job[j] \in JobType
    BY DEF Shaped
  <1>2. CASE j \in S
    <2>1. job'[j] = [job[j] EXCEPT !.mark = b]
      BY <1>2
    <2> QED
      BY <1>1, <2>1, WithMark
  <1>3. CASE j \notin S
    BY <1>1, <1>3 DEF Same
  <1> QED
    BY <1>2, <1>3

LEMMA MarkedOne ==
  ASSUME Shaped, NEW j \in Job, NEW b \in BOOLEAN,
         job' = [job EXCEPT ![j].mark = b]
  PROVE  MarksOnly
  <1>1. job' = [k \in Job |-> IF k \in {j} THEN [job[k] EXCEPT !.mark = b] ELSE job[k]]
    <2>1. job = [k \in Job |-> job[k]]
      BY DEF Shaped
    <2> QED
      BY <2>1
  <1>2. {j} \in SUBSET Job
    OBVIOUS
  <1> QED
    BY <1>1, <1>2, MarkedOnly

LEMMA EditOf ==
  ASSUME Shaped, NEW j \in Job, NEW new \in JobType, NEW s,
         new.stored = job[j].stored, new.mark = job[j].mark,
         s = IF new.enabled THEN [new EXCEPT !.next = ComputeNext(new, now)]
             ELSE [new EXCEPT !.next = 0, !.mark = FALSE],
         job' = [job EXCEPT ![j] = s]
  PROVE  Edited(j, s)
  <1>1. CASE new.enabled
    <2> DEFINE n == ComputeNext(new, now)
    <2>1. n \in Nat /\ (n = 0 => NeverAgain(new)) /\ (Spent(new) => n = 0)
      BY <1>1, NextRun DEF Shaped
    <2> DEFINE next == [new EXCEPT !.next = n]
    <2>2. s = next
      BY <1>1
    <2> HIDE DEF n
    <2>3. next \in JobType /\ Same(new, next) /\ next.next = n /\ next.mark = new.mark
      BY <2>1, WithNext
    <2> HIDE DEF next
    <2>4. NeverAgain(new) => NeverAgain(s)
      BY <2>2, <2>3, NextOfSame
    <2>5. Spent(s) => Spent(new)
      BY <2>2, <2>3 DEF Same, Spent
    <2> QED
      BY <2>1, <2>2, <2>3, <2>4, <2>5 DEF Edited, Same
  <1>2. CASE ~new.enabled
    <2>1. s = [new EXCEPT !.next = 0, !.mark = FALSE]
      BY <1>2
    <2>2. s \in JobType /\ Same(new, s) /\ s.next = 0 /\ s.mark = FALSE
      BY <2>1, WithNeither
    <2> QED
      BY <1>2, <2>2 DEF Edited, Same
  <1> QED
    BY <1>1, <1>2

LEMMA EnableEffect ==
  ASSUME Shaped, NEW j \in Job, NEW enabled \in BOOLEAN, Enable(j, enabled)
  PROVE  \E s : Edited(j, s)
  <1> DEFINE new == [job[j] EXCEPT !.enabled = enabled]
  <1>1. new \in JobType /\ new.stored = job[j].stored /\ new.mark = job[j].mark
        /\ new.enabled = enabled
    BY DEF Shaped, JobType
  <1>2. job' = [job EXCEPT ![j] = IF new.enabled THEN [new EXCEPT !.next = ComputeNext(new, now)]
                                  ELSE [new EXCEPT !.next = 0, !.mark = FALSE]]
    BY <1>1 DEF Enable
  <1> HIDE DEF new
  <1> QED
    BY <1>1, <1>2, EditOf

LEMMA RescheduleEffect ==
  ASSUME Shaped, NEW j \in Job, Reschedule(j)
  PROVE  \E s : Edited(j, s)
  <1> DEFINE when == IF job[j].kind = "at" THEN now + 1 ELSE now
             new == [job[j] EXCEPT !.when = when]
  <1>1. when \in Nat /\ job[j] \in JobType
    BY DEF Shaped
  <1>2. job' = [job EXCEPT ![j] = IF job[j].enabled THEN [new EXCEPT !.next = ComputeNext(new, now)]
                                  ELSE [new EXCEPT !.next = 0, !.mark = FALSE]]
    BY DEF Reschedule, Shaped
  <1> HIDE DEF when
  <1>3. new \in JobType /\ new.stored = job[j].stored /\ new.mark = job[j].mark
        /\ new.enabled = job[j].enabled
    BY <1>1 DEF JobType
  <1> HIDE DEF new
  <1>4. job' = [job EXCEPT ![j] = IF new.enabled THEN [new EXCEPT !.next = ComputeNext(new, now)]
                                  ELSE [new EXCEPT !.next = 0, !.mark = FALSE]]
    BY <1>2, <1>3
  <1> QED
    BY <1>3, <1>4, EditOf

\* A job that is added was not marked; the others are recomputed.
LEMMA AddEffect ==
  ASSUME Shaped, NEW j \in Job, Add(j)
  PROVE  /\ job' \in [Job -> JobType]
         /\ \A k \in Job : k # j => job'[k] = Recomputed[k]
         /\ job[j].stored = "unborn"
         /\ job'[j].stored = "stored" /\ job'[j].mark = job[j].mark
         /\ job'[j].enabled /\ job'[j].next = 0 => NeverAgain(job'[j])
         /\ Spent(job'[j]) => job'[j].next = 0
  <1> DEFINE when == IF job[j].kind = "at" THEN At ELSE now
             new == [job[j] EXCEPT !.stored = "stored", !.when = when]
             n == ComputeNext(new, now)
             s == [new EXCEPT !.next = n]
  <1>1. job' = [Recomputed EXCEPT ![j] = s] /\ job[j].stored = "unborn"
    BY DEF Add
  <1>2. when \in Nat /\ now \in Nat /\ job[j] \in JobType
    BY ConstantTypes DEF Shaped
  <1> HIDE DEF when
  <1>3. new \in JobType /\ new.stored = "stored" /\ new.mark = job[j].mark
    BY <1>2 DEF JobType
  <1> HIDE DEF new
  <1>4. n \in Nat /\ (new.enabled /\ n = 0 => NeverAgain(new)) /\ (Spent(new) => n = 0)
    BY <1>2, <1>3, NextRun
  <1> HIDE DEF n
  <1>5. s \in JobType /\ Same(new, s) /\ s.next = n /\ s.mark = new.mark
    BY <1>3, <1>4, WithNext
  <1> HIDE DEF s
  <1>6. NeverAgain(new) => NeverAgain(s)
    BY <1>3, <1>5, NextOfSame
  <1>7. Spent(s) => Spent(new)
    BY <1>5 DEF Same, Spent
  <1>8. job' \in [Job -> JobType] /\ job'[j] = s
        /\ \A k \in Job : k # j => job'[k] = Recomputed[k]
    BY <1>1, <1>5, RecomputedEffect
  <1> QED
    BY <1>1, <1>3, <1>4, <1>5, <1>6, <1>7, <1>8 DEF Same

\* What maintenance, and a result, leave of the job r.
Kept(r, s) ==
    /\ s.stored \in {r.stored, "gone"}
    /\ r.stored # "stored" => s = r
    /\ s.mark => r.mark
    /\ s.stored = "stored" /\ s.enabled /\ s.next = 0 => NeverAgain(s)

\* No next run for a one-shot that has succeeded.
Once(r, s) == Spent(s) /\ s.next # 0 => Spent(r) /\ r.next # 0

\* Of an enabled job, the next run changes only when its slot has been executed.
Slot(r, s) ==
    r.enabled /\ r.next # 0 /\ s.stored = "stored" /\ s.next # r.next => r.last >= r.next

PutOffOnes == {deferred[n] : n \in DOMAIN deferred}

LEMMA Maintains ==
  ASSUME Shaped, NEW expired \in BOOLEAN, job' = Maintained(job, expired)
  PROVE  /\ job' \in [Job -> JobType]
         /\ \A j \in Job : /\ Kept(job[j], job'[j])
                           /\ Once(job[j], job'[j])
                           /\ Slot(job[j], job'[j])
                           /\ job'[j].enabled /\ job'[j].next # 0
                                => job[j].next # 0 \/ ~NeverAgain(job[j])
                           /\ Same(job[j], job'[j])
  BY MaintainedEffect DEF Shaped, Kept, Once, Slot, Same

\* The results of an owner's batch, some of its jobs put off, then maintenance.
LEMMA Applies ==
  ASSUME Shaped, NEW o \in Owner, NEW jobs,
         jobs = AllApplied(o) \/ jobs = PutOff(AllApplied(o)),
         NEW expired \in BOOLEAN, ~expired, job' = Maintained(jobs, expired)
  PROVE  /\ job' \in [Job -> JobType]
         /\ \A j \in Job :
              /\ Kept(job[j], job'[j])
              /\ run[o][j].at = "ended" => ~(Stored(j)' /\ job'[j].mark)
              /\ Once(job[j], job'[j]) \/ j \in PutOffOnes
              /\ Slot(job[j], job'[j]) \/ j \in PutOffOnes \/ run[o][j].at = "ended"
  <1> DEFINE app == AllApplied(o)
  <1>1. /\ app \in [Job -> JobType]
        /\ \A j \in Job :
             /\ ~(Stored(j) /\ run[o][j].at = "ended") => app[j] = job[j]
             /\ Stored(j) /\ run[o][j].at = "ended" => ~app[j].mark
             /\ app[j].stored \in {job[j].stored, "gone"}
             /\ ~Stored(j) => app[j] = job[j]
             /\ Spent(app[j]) /\ app[j].next # 0 => Spent(job[j]) /\ job[j].next # 0
    BY AllAppliedEffect
  <1> HIDE DEF app
  <1>2. /\ jobs \in [Job -> JobType]
        /\ \A j \in Job :
             /\ Same(app[j], jobs[j])
             /\ jobs[j].mark = app[j].mark
             /\ app[j].stored # "stored" => jobs[j] = app[j]
             /\ jobs[j].next = app[j].next \/ j \in PutOffOnes
    <2>1. CASE jobs = app
      BY <1>1, <2>1 DEF Same
    <2>2. CASE jobs = PutOff(app)
      BY <1>1, <2>2, PutOffEffect DEF PutOffOnes
    <2> QED
      BY <2>1, <2>2 DEF app
  <1>3. /\ job' \in [Job -> JobType]
        /\ \A j \in Job :
             /\ Same(jobs[j], job'[j])
             /\ job'[j].mark => jobs[j].mark
             /\ jobs[j].stored # "stored" => job'[j] = jobs[j]
             /\ job'[j].stored = "stored" /\ job'[j].enabled /\ job'[j].next = 0
                  => NeverAgain(job'[j])
             /\ job'[j].stored = "stored" /\ job'[j].next # jobs[j].next
                  => ~jobs[j].enabled \/ jobs[j].next = 0
             /\ Spent(job'[j]) /\ job'[j].next # 0 => Spent(jobs[j]) /\ jobs[j].next # 0
    <2>1. now \in Nat
      BY DEF Shaped
    <2>2. /\ job' \in [Job -> JobType]
          /\ \A j \in Job :
              LET r == jobs[j]
                  s == job'[j]
              IN /\ Same(r, s)
                 /\ s.mark => r.mark
                 /\ r.stored # "stored" => s = r
                 /\ s.stored = "stored" /\ s.enabled /\ s.next = 0 => NeverAgain(s)
                 /\ s.stored = "stored" /\ s.next # r.next
                      => ~r.enabled \/ r.next = 0 \/ (expired /\ r.last >= r.next)
                 /\ Spent(s) /\ s.next # 0 => Spent(r) /\ r.next # 0
      BY <1>2, <2>1, MaintainedEffect
    <2>3. ASSUME NEW j \in Job, job'[j].stored = "stored", job'[j].next # jobs[j].next
          PROVE  ~jobs[j].enabled \/ jobs[j].next = 0
      <3>1. \/ ~jobs[j].enabled
            \/ jobs[j].next = 0
            \/ expired /\ jobs[j].last >= jobs[j].next
        BY <2>2, <2>3
      <3> QED
        BY <3>1
    <2> QED
      BY <2>2, <2>3
  <1> SUFFICES ASSUME NEW j \in Job
               PROVE  /\ Kept(job[j], job'[j])
                      /\ run[o][j].at = "ended" => ~(Stored(j)' /\ job'[j].mark)
                      /\ Once(job[j], job'[j]) \/ j \in PutOffOnes
                      /\ Slot(job[j], job'[j]) \/ j \in PutOffOnes \/ run[o][j].at = "ended"
    BY <1>3
  <1>4. CASE ~Stored(j)
    <2>1. app[j] = job[j] /\ app[j].stored # "stored"
      BY <1>1, <1>4 DEF Stored
    <2>2. jobs[j] = app[j]
      BY <1>2, <2>1
    <2>3. job'[j] = job[j]
      BY <1>3, <2>1, <2>2
    <2>4. ~Stored(j)'
      BY <1>4, <2>3 DEF Stored
    <2>5. Kept(job[j], job'[j]) /\ Slot(job[j], job'[j])
      <3> DEFINE r == job[j]
                 s == job'[j]
      <3>1. s = r /\ r.stored # "stored"
        BY <1>4, <2>3 DEF Stored
      <3> HIDE DEF r, s
      <3>2. Kept(r, s) /\ Slot(r, s)
        BY <3>1 DEF Kept, Slot
      <3> QED
        BY <3>2 DEF r, s
    <2>6. Once(job[j], job'[j])
      BY <2>3 DEF Once
    <2> QED
      BY <2>4, <2>5, <2>6
  <1>5. CASE Stored(j)
    <2>1. job'[j].stored \in {job[j].stored, "gone"}
      <3>1. app[j].stored \in {job[j].stored, "gone"}
        BY <1>1
      <3>2. jobs[j].stored = app[j].stored
        BY <1>2 DEF Same
      <3>3. job'[j].stored = jobs[j].stored
        BY <1>3 DEF Same
      <3> QED
        BY <3>1, <3>2, <3>3
    <2>2. job'[j].mark => app[j].mark
      BY <1>2, <1>3
    <2>3. run[o][j].at # "ended" => app[j] = job[j]
      BY <1>1
    <2>4. run[o][j].at = "ended" => ~app[j].mark
      BY <1>1, <1>5
    <2>5. Kept(job[j], job'[j])
      BY <1>3, <1>5, <2>1, <2>2, <2>3, <2>4 DEF Kept, Stored
    <2>6. Once(job[j], job'[j]) \/ j \in PutOffOnes
      <3> SUFFICES ASSUME j \notin PutOffOnes, Spent(job'[j]), job'[j].next # 0
                   PROVE  Spent(job[j]) /\ job[j].next # 0
        BY DEF Once
      <3>1. Spent(jobs[j]) /\ jobs[j].next # 0
        BY <1>3
      <3>2. Spent(app[j]) /\ app[j].next # 0
        BY <1>2, <3>1 DEF Spent, Same
      <3> QED
        BY <1>1, <3>2
    <2>7. Slot(job[j], job'[j]) \/ j \in PutOffOnes \/ run[o][j].at = "ended"
      <3> SUFFICES ASSUME j \notin PutOffOnes, run[o][j].at # "ended",
                          job[j].enabled, job[j].next # 0, job'[j].stored = "stored"
                   PROVE  job'[j].next = job[j].next
        BY DEF Slot
      <3>1. jobs[j].enabled /\ jobs[j].next = job[j].next
        BY <1>2, <2>3 DEF Same
      <3> QED
        BY <1>3, <3>1
    <2> QED
      BY <2>2, <2>4, <2>5, <2>6, <2>7
  <1> QED
    BY <1>4, <1>5

LEMMA FinishEffect ==
  ASSUME Shaped, NEW m \in Manual, NEW j \in Job, Finishes(m, j)
  PROVE  /\ job' \in [Job -> JobType]
         /\ ~job'[j].mark
         /\ \A k \in Job : /\ Kept(job[k], job'[k])
                           /\ Once(job[k], job'[k])
                           /\ k # j => Slot(job[k], job'[k])
  <1> DEFINE preserve == m \in force /\ job[j].kind = "every"
             done == Applied(j, job[j], run[m][j], preserve)
             jobs == [job EXCEPT ![j] = done]
  <1>1. Stored(j) /\ job' = Maintained(jobs, TRUE)
    BY DEF Finishes, Shaped
  <1>2. /\ job \in [Job -> JobType] /\ run[m][j] \in RunType /\ now \in Nat
        /\ preserve \in BOOLEAN
    BY ConstantTypes DEF Shaped
  <1> HIDE DEF preserve
  <1>3. /\ done \in JobType /\ done.mark = FALSE
        /\ done.stored \in {job[j].stored, "gone"}
        /\ Spent(done) => done.next = 0
    BY <1>2, AppliedEffect
  <1> HIDE DEF done
  <1>4. /\ jobs \in [Job -> JobType] /\ jobs[j] = done
        /\ \A k \in Job : k # j => jobs[k] = job[k]
    BY <1>2, <1>3
  <1> HIDE DEF jobs
  <1>5. /\ job' \in [Job -> JobType]
        /\ \A k \in Job :
             /\ Same(jobs[k], job'[k])
             /\ job'[k].mark => jobs[k].mark
             /\ jobs[k].stored # "stored" => job'[k] = jobs[k]
             /\ job'[k].stored = "stored" /\ job'[k].enabled /\ job'[k].next = 0
                  => NeverAgain(job'[k])
             /\ job'[k].stored = "stored" /\ job'[k].next # jobs[k].next
                  => ~jobs[k].enabled \/ jobs[k].next = 0 \/ jobs[k].last >= jobs[k].next
             /\ Spent(job'[k]) /\ job'[k].next # 0 => Spent(jobs[k]) /\ jobs[k].next # 0
    <2>1. PICK expired \in BOOLEAN : job' = Maintained(jobs, expired)
      BY <1>1
    <2> QED
      BY <1>2, <1>4, <2>1, MaintainedEffect
  <1>6. ~job'[j].mark
    BY <1>3, <1>4, <1>5
  <1>7. ASSUME NEW k \in Job
        PROVE  Kept(job[k], job'[k]) /\ Once(job[k], job'[k])
               /\ (k # j => Slot(job[k], job'[k]))
    <2>1. CASE k = j
      BY <1>1, <1>3, <1>4, <1>5, <1>6, <2>1 DEF Kept, Once, Same, Stored
    <2>2. CASE k # j
      BY <1>4, <1>5, <2>2 DEF Kept, Once, Slot, Same
    <2> QED
      BY <2>1, <2>2
  <1> QED
    BY <1>5, <1>6, <1>7

-----------------------------------------------------------------------------
(* Steps of the jobs *)

JobsChange ==
    \/ UNCHANGED job
    \/ MarksOnly
    \/ \E expired \in BOOLEAN : job' = Maintained(job, expired)
    \/ CatchupApplies \/ TickApplies \/ Started
    \/ \E m \in Manual, j \in Job : Finishes(m, j)
    \/ \E j \in Job : Add(j) \/ RemoveJob(j) \/ Reschedule(j)
                      \/ (\E enabled \in BOOLEAN : Enable(j, enabled)) \/ Elsewhere(j)

LEMMA BeginsMarks ==
  ASSUME Shaped, NEW o \in Owner, NEW j \in Job, Begins(o, j)
  PROVE  MarksOnly
  <1> DEFINE b == job[j].mark \/ (o = "tick" /\ attached /\ Stored(j))
  <1>1. job[j].mark \in BOOLEAN
    BY DEF Shaped, JobType
  <1>2. b \in BOOLEAN
    BY <1>1
  <1>3. job' = [job EXCEPT ![j].mark = b]
    BY DEF Begins, Shaped
  <1> HIDE DEF b
  <1> QED
    BY <1>2, <1>3, MarkedOne

LEMMA SetsMarks ==
  ASSUME Shaped, ClearMarks \/ Plan \/ TimerCollects
  PROVE  MarksOnly
  <1>1. CASE ClearMarks
    <2>1. job' = [j \in Job |-> IF j \in {k \in Job : Stored(k)}
                                THEN [job[j] EXCEPT !.mark = FALSE] ELSE job[j]]
      BY <1>1 DEF ClearMarks
    <2>2. FALSE \in BOOLEAN /\ {k \in Job : Stored(k)} \in SUBSET Job
      OBVIOUS
    <2> QED
      BY <2>1, <2>2, MarkedOnly
  <1>2. CASE Plan
    <2>1. PICK S \in SUBSET Job :
             job' = [j \in Job |-> IF j \in S THEN [job[j] EXCEPT !.mark = TRUE] ELSE job[j]]
      <3>1. PICK sorted \in ByNext({j \in Job : Missed(j)}) :
               job' = [j \in Job |-> IF j \in {sorted[n] : n \in DOMAIN sorted \cap 1 .. MaxMissed}
                                     THEN [job[j] EXCEPT !.mark = TRUE] ELSE job[j]]
        BY <1>2 DEF Plan
      <3> DEFINE first == {sorted[n] : n \in DOMAIN sorted \cap 1 .. MaxMissed}
      <3>2. first \in SUBSET Job
        BY DEF ByNext
      <3> QED
        BY <3>1, <3>2
    <2>2. TRUE \in BOOLEAN
      OBVIOUS
    <2> QED
      BY <2>1, <2>2, MarkedOnly
  <1>3. CASE TimerCollects
    <2> DEFINE due == {j \in Job : Runnable(j)}
    <2>1. job' = [j \in Job |-> IF j \in due THEN [job[j] EXCEPT !.mark = TRUE] ELSE job[j]]
      BY <1>3 DEF TimerCollects
    <2>2. TRUE \in BOOLEAN /\ due \in SUBSET Job
      OBVIOUS
    <2> HIDE DEF due
    <2> QED
      BY <2>1, <2>2, MarkedOnly
  <1> QED
    BY <1>1, <1>2, <1>3

LEMMA PreparesMarks ==
  ASSUME Shaped, NEW m \in Manual, NEW j \in Job, Prepares(m, j)
  PROVE  MarksOnly
  <1>1. TRUE \in BOOLEAN /\ job' = [job EXCEPT ![j].mark = TRUE]
    BY DEF Prepares
  <1> QED
    BY <1>1, MarkedOne

LEMMA Changes ==
  ASSUME Shaped, [Next]_vars
  PROVE  JobsChange
  <1>1. CASE Next
    <2>1. CASE Tick \/ Crash \/ Reload \/ TimerRechecks \/ TickEnds
      BY <2>1 DEF Tick, Crash, Reload, Replaced, TimerRechecks, TickEnds, JobsChange
    <2>2. CASE ClearMarks \/ Plan \/ TimerCollects
      BY <2>2, SetsMarks DEF JobsChange
    <2>3. CASE CatchupApplies \/ Started \/ TickApplies
      BY <2>3 DEF JobsChange
    <2>4. CASE TimerMaintains \/ Read
      <3>1. TRUE \in BOOLEAN /\ FALSE \in BOOLEAN
        OBVIOUS
      <3> QED
        BY <2>4, <3>1 DEF TimerMaintains, Read, JobsChange
    <2>5. ASSUME NEW o \in Owner, NEW j \in Job,
                 Begins(o, j) \/ (\E outcome \in Outcome : Ends(o, j, outcome))
          PROVE  JobsChange
      BY <2>5, BeginsMarks DEF Ends, JobsChange
    <2>6. ASSUME NEW m \in Manual, NEW j \in Job,
                 \/ \E forced \in BOOLEAN : Preflight(m, j, forced)
                 \/ Prepares(m, j) \/ GivesUp(m, j) \/ Finishes(m, j) \/ FinishesGone(m, j)
          PROVE  JobsChange
      <3>1. CASE \E forced \in BOOLEAN : Preflight(m, j, forced)
        <4>1. FALSE \in BOOLEAN
          OBVIOUS
        <4> QED
          BY <3>1, <4>1 DEF Preflight, JobsChange
      <3>2. CASE Prepares(m, j)
        BY <3>2, PreparesMarks DEF JobsChange
      <3>3. CASE GivesUp(m, j) \/ FinishesGone(m, j)
        BY <3>3 DEF GivesUp, FinishesGone, JobsChange
      <3>4. CASE Finishes(m, j)
        BY <3>4 DEF JobsChange
      <3> QED
        BY <2>6, <3>1, <3>2, <3>3, <3>4
    <2>7. ASSUME NEW j \in Job,
                 \/ Add(j) \/ RemoveJob(j) \/ Reschedule(j) \/ Elsewhere(j)
                 \/ \E enabled \in BOOLEAN : Enable(j, enabled)
          PROVE  JobsChange
      BY <2>7 DEF JobsChange
    <2> QED
      BY <1>1, <2>1, <2>2, <2>3, <2>4, <2>5, <2>6, <2>7 DEF Next
  <1>2. CASE UNCHANGED vars
    BY <1>2 DEF vars, JobsChange
  <1> QED
    BY <1>1, <1>2

LEMMA AppliesBatch ==
  ASSUME Shaped, CatchupApplies \/ TickApplies
  PROVE  /\ job' \in [Job -> JobType]
         /\ \E o \in {"catchup", "tick"} :
              /\ run' = [run EXCEPT ![o] = [j \in Job |-> Idle]]
              /\ AllEnded(o)
              /\ \A j \in Job :
                    /\ Kept(job[j], job'[j])
                    /\ run[o][j].at = "ended" => ~(Stored(j)' /\ job'[j].mark)
                    /\ Once(job[j], job'[j]) \/ j \in PutOffOnes
                    /\ Slot(job[j], job'[j]) \/ j \in PutOffOnes \/ run[o][j].at = "ended"
  <1>1. ASSUME NEW o \in {"catchup", "tick"}, NEW jobs,
               jobs = AllApplied(o) \/ jobs = PutOff(AllApplied(o)),
               run' = [run EXCEPT ![o] = [j \in Job |-> Idle]], AllEnded(o),
               job' = Maintained(jobs, FALSE)
        PROVE  /\ job' \in [Job -> JobType]
               /\ \A j \in Job :
                    /\ Kept(job[j], job'[j])
                    /\ run[o][j].at = "ended" => ~(Stored(j)' /\ job'[j].mark)
                    /\ Once(job[j], job'[j]) \/ j \in PutOffOnes
                    /\ Slot(job[j], job'[j]) \/ j \in PutOffOnes \/ run[o][j].at = "ended"
    <2>1. o \in Owner
      BY DEF Owner
    <2>2. PICK expired \in BOOLEAN : ~expired /\ job' = Maintained(jobs, expired)
      BY <1>1
    <2> QED
      BY <1>1, <2>1, <2>2, Applies
  <1> QED
    BY <1>1 DEF CatchupApplies, TickApplies

LEMMA EditEffect ==
  ASSUME Shaped, NEW j \in Job,
         Reschedule(j) \/ (\E enabled \in BOOLEAN : Enable(j, enabled))
  PROVE  /\ job' \in [Job -> JobType]
         /\ \A k \in Job : k # j => job'[k] = job[k]
         /\ job'[j].stored = job[j].stored
         /\ job'[j].mark => job[j].mark
         /\ job'[j].enabled /\ job'[j].next = 0 => NeverAgain(job'[j])
         /\ Once(job[j], job'[j])
  <1>1. PICK s : Edited(j, s)
    BY EnableEffect, RescheduleEffect
  <1> QED
    BY <1>1 DEF Edited, Shaped, Once

LEMMA RemoveEffect ==
  ASSUME Shaped, NEW j \in Job, RemoveJob(j)
  PROVE  /\ job' \in [Job -> JobType]
         /\ \A k \in Job : k # j => job'[k] = job[k]
         /\ job'[j].stored = "gone"
         /\ Stored(j)
  <1> DEFINE s == [job[j] EXCEPT !.stored = "gone"]
  <1>1. job \in [Job -> JobType] /\ job' = [job EXCEPT ![j] = s] /\ Stored(j)
    BY DEF RemoveJob, Shaped
  <1>2. s \in JobType /\ s.stored = "gone"
    BY <1>1 DEF JobType
  <1> HIDE DEF s
  <1> QED
    BY <1>1, <1>2

\* Another service writes one job, as it has it.
LEMMA ElsewhereEffect ==
  ASSUME Shaped, NEW j \in Job, Elsewhere(j)
  PROVE  /\ job' \in [Job -> JobType]
         /\ \A k \in Job : k # j => job'[k] = job[k]
         /\ job'[j].stored # "unborn"
         /\ overlap /\ overlap' = overlap /\ run' = run /\ Observe
         /\ phase' = phase /\ ticking' = ticking /\ timer' = timer
  <1>1. PICK r \in Foreign : job' = [job EXCEPT ![j] = r]
    BY DEF Elsewhere
  <1>2. r \in JobType /\ r.stored # "unborn"
    <2>1. r \in StoredJob /\ r.stored # "unborn"
      BY CronConstants
    <2>2. NextTime \subseteq Nat /\ Time \subseteq Nat /\ 0 .. MaxRetries + 1 \subseteq Nat
      BY DEF NextTime, Time
    <2> QED
      BY <2>1, <2>2 DEF StoredJob, JobType
  <1>3. job \in [Job -> JobType]
    BY DEF Shaped
  <1>4. /\ overlap /\ overlap' = overlap /\ run' = run /\ Observe
        /\ phase' = phase /\ ticking' = ticking /\ timer' = timer
    BY DEF Elsewhere, services
  <1> QED
    BY <1>1, <1>2, <1>3, <1>4

LEMMA JobTyped ==
  ASSUME Shaped, [Next]_vars
  PROVE  job' \in [Job -> JobType]
  <1>1. JobsChange
    BY Changes
  <1>2. CASE UNCHANGED job \/ MarksOnly
    BY <1>2 DEF Shaped, MarksOnly
  <1>3. CASE \E expired \in BOOLEAN : job' = Maintained(job, expired)
    BY <1>3, Maintains
  <1>4. CASE CatchupApplies \/ TickApplies
    BY <1>4, AppliesBatch
  <1>5. CASE Started
    BY <1>5, RecomputedEffect DEF Started
  <1>6. CASE \E m \in Manual, j \in Job : Finishes(m, j)
    BY <1>6, FinishEffect
  <1>7. ASSUME NEW j \in Job,
               \/ Add(j) \/ RemoveJob(j) \/ Reschedule(j) \/ Elsewhere(j)
               \/ \E enabled \in BOOLEAN : Enable(j, enabled)
        PROVE  job' \in [Job -> JobType]
    BY <1>7, AddEffect, RemoveEffect, EditEffect, ElsewhereEffect
  <1> QED
    BY <1>1, <1>2, <1>3, <1>4, <1>5, <1>6, <1>7 DEF JobsChange

LEMMA RunRecords ==
  ASSUME NEW e \in RunType, NEW n \in Nat
  PROVE  /\ [e EXCEPT !.at = "waiting"] \in RunType
         /\ [e EXCEPT !.at = "running"] \in RunType
         /\ [e EXCEPT !.at = "running", !.began = n] \in RunType
         /\ [e EXCEPT !.at = "ready", !.began = n] \in RunType
  BY DEF RunType

LEMMA RunEnded ==
  ASSUME NEW e \in RunType, NEW n \in Nat, NEW outcome \in Outcome
  PROVE  [e EXCEPT !.at = "ended", !.ended = n, !.outcome = outcome] \in RunType
  BY DEF RunType

LEMMA RunTyped ==
  ASSUME Shaped, [Next]_vars
  PROVE  run' \in [Owner -> [Job -> RunType]]
  <1>1. run \in [Owner -> [Job -> RunType]] /\ now \in Nat
    BY DEF Shaped
  <1>2. \A o \in Owner, S \in SUBSET Job :
           [run EXCEPT ![o] = [j \in Job |-> IF j \in S THEN [@[j] EXCEPT !.at = "waiting"] ELSE @[j]]]
             \in [Owner -> [Job -> RunType]]
    <2> TAKE o \in Owner, S \in SUBSET Job
    <2> DEFINE batch == [j \in Job |-> IF j \in S THEN [run[o][j] EXCEPT !.at = "waiting"]
                                       ELSE run[o][j]]
    <2>1. ASSUME NEW j \in Job
          PROVE  [run[o][j] EXCEPT !.at = "waiting"] \in RunType /\ run[o][j] \in RunType
      BY <1>1, RunRecords
    <2>2. batch \in [Job -> RunType]
      BY <2>1
    <2>3. [run EXCEPT ![o] = [j \in Job |-> IF j \in S THEN [@[j] EXCEPT !.at = "waiting"]
                                            ELSE @[j]]] = [run EXCEPT ![o] = batch]
      BY <1>1
    <2> HIDE DEF batch
    <2> QED
      BY <1>1, <2>2, <2>3
  <1>3. CASE Next
    <2>1. CASE \/ Tick \/ ClearMarks \/ Started \/ TimerMaintains \/ TimerRechecks
               \/ TickEnds \/ Read
      BY <1>1, <2>1 DEF Tick, ClearMarks, Started, TimerMaintains, TimerRechecks, TickEnds, Read
    <2>2. CASE Crash \/ Reload \/ CatchupApplies \/ TickApplies
      <3>1. [j \in Job |-> Idle] \in [Job -> RunType]
        BY IdleTyped
      <3>2. CASE Crash \/ Reload
        BY <3>1, <3>2 DEF Crash, Reload, Replaced
      <3>3. CASE CatchupApplies \/ TickApplies
        <4>1. \E o \in {"catchup", "tick"} : run' = [run EXCEPT ![o] = [j \in Job |-> Idle]]
          BY <3>3 DEF CatchupApplies, TickApplies
        <4> QED
          BY <1>1, <3>1, <4>1
      <3> QED
        BY <2>2, <3>2, <3>3
    <2>3. CASE Plan
      <3>1. PICK sorted \in ByNext({j \in Job : Missed(j)}) :
               run' = [run EXCEPT !["catchup"] =
                        [j \in Job |-> IF j \in {sorted[n] : n \in DOMAIN sorted \cap 1 .. MaxMissed}
                                       THEN [@[j] EXCEPT !.at = "waiting"] ELSE @[j]]]
        BY <2>3 DEF Plan
      <3>2. {sorted[n] : n \in DOMAIN sorted \cap 1 .. MaxMissed} \in SUBSET Job
        BY DEF ByNext
      <3> DEFINE first == {sorted[n] : n \in DOMAIN sorted \cap 1 .. MaxMissed}
      <3>3. run' = [run EXCEPT !["catchup"] =
                        [j \in Job |-> IF j \in first THEN [@[j] EXCEPT !.at = "waiting"] ELSE @[j]]]
        BY <3>1
      <3>4. first \in SUBSET Job
        BY <3>2
      <3> HIDE DEF first
      <3> QED
        BY <1>2, <3>3, <3>4, ConstantTypes
    <2>4. CASE TimerCollects
      <3> DEFINE due == {k \in Job : Runnable(k)}
      <3>1. run' = [run EXCEPT !["tick"] =
                     [j \in Job |-> IF j \in due THEN [@[j] EXCEPT !.at = "waiting"] ELSE @[j]]]
        BY <2>4 DEF TimerCollects
      <3>2. due \in SUBSET Job
        OBVIOUS
      <3> HIDE DEF due
      <3> QED
        BY <1>2, <3>1, <3>2, ConstantTypes
    <2>5. ASSUME NEW o \in Owner, NEW j \in Job,
                 Begins(o, j) \/ (\E outcome \in Outcome : Ends(o, j, outcome))
          PROVE  run' \in [Owner -> [Job -> RunType]]
      <3>1. CASE Begins(o, j)
        <4>1. run' = [run EXCEPT ![o] = [run[o] EXCEPT ![j] =
                       [run[o][j] EXCEPT !.at = "running", !.began = now]]]
          BY <1>1, <3>1 DEF Begins
        <4>2. [run[o][j] EXCEPT !.at = "running", !.began = now] \in RunType
          BY <1>1, RunRecords
        <4> QED
          BY <1>1, <4>1, <4>2
      <3>2. ASSUME NEW outcome \in Outcome, Ends(o, j, outcome)
            PROVE  run' \in [Owner -> [Job -> RunType]]
        <4>1. run' = [run EXCEPT ![o] = [run[o] EXCEPT ![j] =
                       [run[o][j] EXCEPT !.at = "ended", !.ended = now, !.outcome = outcome]]]
          BY <1>1, <3>2 DEF Ends
        <4>2. [run[o][j] EXCEPT !.at = "ended", !.ended = now, !.outcome = outcome] \in RunType
          BY <1>1, RunEnded
        <4> QED
          BY <1>1, <4>1, <4>2
      <3> QED
        BY <2>5, <3>1, <3>2
    <2>6. ASSUME NEW m \in Manual, NEW j \in Job,
                 \/ \E forced \in BOOLEAN : Preflight(m, j, forced)
                 \/ Prepares(m, j) \/ GivesUp(m, j) \/ Finishes(m, j) \/ FinishesGone(m, j)
          PROVE  run' \in [Owner -> [Job -> RunType]]
      <3>1. m \in Owner
        BY ConstantTypes
      <3>2. PICK e : run' = [run EXCEPT ![m] = [run[m] EXCEPT ![j] = e]] /\ e \in RunType
        <4>1. CASE \E forced \in BOOLEAN : Preflight(m, j, forced)
          <5>1. run' = [run EXCEPT ![m] = [run[m] EXCEPT ![j] =
                         [run[m][j] EXCEPT !.at = "ready", !.began = now]]]
            BY <1>1, <3>1, <4>1 DEF Preflight
          <5>2. [run[m][j] EXCEPT !.at = "ready", !.began = now] \in RunType
            BY <1>1, <3>1, RunRecords
          <5> QED
            BY <5>1, <5>2
        <4>2. CASE Prepares(m, j)
          <5>1. run' = [run EXCEPT ![m] = [run[m] EXCEPT ![j] =
                         [run[m][j] EXCEPT !.at = "running"]]]
            BY <1>1, <3>1, <4>2 DEF Prepares
          <5>2. [run[m][j] EXCEPT !.at = "running"] \in RunType
            BY <1>1, <3>1, RunRecords
          <5> QED
            BY <5>1, <5>2
        <4>3. CASE GivesUp(m, j) \/ Finishes(m, j) \/ FinishesGone(m, j)
          <5>1. run' = [run EXCEPT ![m] = [run[m] EXCEPT ![j] = Idle]]
            BY <1>1, <3>1, <4>3 DEF GivesUp, Finishes, FinishesGone
          <5> QED
            BY <5>1, IdleTyped
        <4> QED
          BY <2>6, <4>1, <4>2, <4>3
      <3> QED
        BY <1>1, <3>1, <3>2
    <2>7. ASSUME NEW j \in Job,
                 \/ Add(j) \/ RemoveJob(j) \/ Reschedule(j) \/ Elsewhere(j)
                 \/ \E enabled \in BOOLEAN : Enable(j, enabled)
          PROVE  run' \in [Owner -> [Job -> RunType]]
      BY <1>1, <2>7 DEF Add, RemoveJob, Reschedule, Enable, Elsewhere
    <2> QED
      BY <1>3, <2>1, <2>2, <2>3, <2>4, <2>5, <2>6, <2>7 DEF Next
  <1>4. CASE UNCHANGED vars
    BY <1>1, <1>4 DEF vars
  <1> QED
    BY <1>3, <1>4

LEMMA PlanTyped ==
  ASSUME Plan
  PROVE  deferred' \in Seq(Job) /\ now' = now
  <1> DEFINE missed == {j \in Job : Missed(j)}
  <1>1. PICK sorted \in ByNext(missed) :
           deferred' = SubSeq(sorted, MaxMissed + 1, Len(sorted)) /\ now' = now
    BY DEF Plan
  <1>2. Cardinality(missed) \in Nat
    <2>1. IsFiniteSet(missed)
      BY CronConstants, FS_Subset
    <2> QED
      BY <2>1, FS_CardinalityType
  <1>3. sorted \in [1 .. Cardinality(missed) -> Job]
    BY <1>1 DEF ByNext
  <1> HIDE DEF missed
  <1>4. sorted \in Seq(Job)
    BY <1>2, <1>3
  <1>5. MaxMissed \in Nat
    BY ConstantTypes
  <1> QED
    BY <1>1, <1>4, <1>5

LEMMA OthersTyped ==
  ASSUME Shaped, [Next]_vars
  PROVE  now' \in Nat /\ deferred' \in Seq(Job)
  <1> DEFINE Typed == now' \in Nat /\ deferred' \in Seq(Job)
  <1>1. <<>> \in Seq(Job) /\ now \in Nat /\ deferred \in Seq(Job)
    BY DEF Shaped
  <1>2. (now' = now /\ deferred' \in {deferred, <<>>}) => Typed
    BY <1>1
  <1>3. CASE Next
    <2>1. CASE Tick
      BY <1>1, <2>1 DEF Tick
    <2>2. CASE Plan
      BY <1>1, <2>2, PlanTyped
    <2>3. CASE Crash \/ Reload \/ ClearMarks \/ CatchupApplies \/ Started
      BY <1>2, <2>3 DEF Crash, Reload, Replaced, ClearMarks, CatchupApplies, Started
    <2>4. CASE \/ TimerCollects \/ TimerMaintains \/ TimerRechecks \/ TickApplies \/ TickEnds
               \/ Read
      BY <1>2, <2>4 DEF TimerCollects, TimerMaintains, TimerRechecks, TickApplies, TickEnds, Read
    <2>5. ASSUME NEW o \in Owner, NEW j \in Job,
                 Begins(o, j) \/ (\E outcome \in Outcome : Ends(o, j, outcome))
          PROVE  Typed
      BY <1>2, <2>5 DEF Begins, Ends
    <2>6. ASSUME NEW m \in Manual, NEW j \in Job,
                 \/ \E forced \in BOOLEAN : Preflight(m, j, forced)
                 \/ Prepares(m, j) \/ GivesUp(m, j) \/ Finishes(m, j) \/ FinishesGone(m, j)
          PROVE  Typed
      BY <1>2, <2>6 DEF Preflight, Prepares, GivesUp, Finishes, FinishesGone
    <2>7. ASSUME NEW j \in Job,
                 \/ Add(j) \/ RemoveJob(j) \/ Reschedule(j) \/ Elsewhere(j)
                 \/ \E enabled \in BOOLEAN : Enable(j, enabled)
          PROVE  Typed
      BY <1>2, <2>7 DEF Add, RemoveJob, Reschedule, Enable, Elsewhere
    <2> QED
      BY <1>3, <2>1, <2>2, <2>3, <2>4, <2>5, <2>6, <2>7 DEF Next
  <1>4. CASE UNCHANGED vars
    BY <1>2, <1>4 DEF vars
  <1> QED
    BY <1>3, <1>4

LEMMA ShapedAlways == Spec => []Shaped
  <1>1. Init => Shaped
    <2> SUFFICES ASSUME Init
                 PROVE  Shaped
      OBVIOUS
    <2>1. job \in [Job -> JobType]
      <3>1. PICK kinds \in Schedules, old \in SUBSET Job :
              job = [j \in Job |->
                      IF j \notin old THEN New(kinds[j])
                      ELSE [New(kinds[j]) EXCEPT
                              !.stored = "stored",
                              !.when = IF kinds[j] = "at" THEN At ELSE 0,
                              !.next = IF kinds[j] = "at" THEN At ELSE Period]]
        BY DEF Init
      <3>2. \A j \in Job : kinds[j] \in Kind
        BY CronConstants
      <3>3. \A kind \in Kind : New(kind) \in JobType
        BY DEF New, JobType
      <3>4. ASSUME NEW r \in JobType, NEW w \in Nat, NEW n \in Nat
            PROVE  [r EXCEPT !.stored = "stored", !.when = w, !.next = n] \in JobType
        BY <3>4 DEF JobType
      <3>5. ASSUME NEW kind \in Kind
            PROVE  [New(kind) EXCEPT !.stored = "stored",
                      !.when = IF kind = "at" THEN At ELSE 0,
                      !.next = IF kind = "at" THEN At ELSE Period] \in JobType
        <4> DEFINE w == IF kind = "at" THEN At ELSE 0
                   n == IF kind = "at" THEN At ELSE Period
        <4>1. w \in Nat /\ n \in Nat
          BY ConstantTypes
        <4> HIDE DEF w, n
        <4>2. [New(kind) EXCEPT !.stored = "stored", !.when = w, !.next = n] \in JobType
          BY <3>3, <3>4, <4>1
        <4> QED
          BY <4>2 DEF w, n
      <3> QED
        BY <3>1, <3>2, <3>3, <3>5
    <2>2. run \in [Owner -> [Job -> RunType]]
      <3>1. [j \in Job |-> Idle] \in [Job -> RunType]
        BY IdleTyped
      <3> QED
        BY <3>1 DEF Init
    <2>3. now \in Nat /\ deferred \in Seq(Job)
      <3>1. <<>> \in Seq(Job)
        OBVIOUS
      <3> QED
        BY <3>1 DEF Init
    <2> QED
      BY <2>1, <2>2, <2>3 DEF Shaped
  <1>2. Shaped /\ [Next]_vars => Shaped'
    BY JobTyped, RunTyped, OthersTyped DEF Shaped
  <1> QED
    BY <1>1, <1>2, PTL DEF Spec

-----------------------------------------------------------------------------
(* The two properties of steps *)

LEMMA OnceStep ==
  ASSUME Shaped, [Next]_vars, NEW j \in Job
  PROVE  Once(job[j], job'[j]) \/ j \in PutOffOnes \/ Elsewhere(j)
  <1>1. JobsChange
    BY Changes
  <1>2. CASE UNCHANGED job
    BY <1>2 DEF Once
  <1>3. CASE MarksOnly
    BY <1>3 DEF MarksOnly, Once, Spent, Same
  <1>4. CASE \E expired \in BOOLEAN : job' = Maintained(job, expired)
    BY <1>4, Maintains
  <1>5. CASE CatchupApplies \/ TickApplies
    BY <1>5, AppliesBatch
  <1>6. CASE Started
    BY <1>6, RecomputedEffect DEF Started, Once
  <1>7. CASE \E m \in Manual, k \in Job : Finishes(m, k)
    BY <1>7, FinishEffect
  <1>8. ASSUME NEW k \in Job,
               \/ Add(k) \/ RemoveJob(k) \/ Reschedule(k) \/ Elsewhere(k)
               \/ \E enabled \in BOOLEAN : Enable(k, enabled)
        PROVE  Once(job[j], job'[j]) \/ Elsewhere(j)
    <2>1. CASE Add(k)
      BY <2>1, AddEffect, RecomputedEffect DEF Once
    <2>2. CASE RemoveJob(k)
      BY <2>2, RemoveEffect DEF Once, Spent
    <2>3. CASE Reschedule(k) \/ (\E enabled \in BOOLEAN : Enable(k, enabled))
      <3>1. CASE k = j
        BY <2>3, <3>1, EditEffect
      <3>2. CASE k # j
        BY <2>3, <3>2, EditEffect DEF Once
      <3> QED
        BY <3>1, <3>2
    <2>4. CASE Elsewhere(k)
      <3>1. CASE k # j
        BY <2>4, <3>1, ElsewhereEffect DEF Once
      <3> QED
        BY <2>4, <3>1
    <2> QED
      BY <1>8, <2>1, <2>2, <2>3, <2>4
  <1> QED
    BY <1>1, <1>2, <1>3, <1>4, <1>5, <1>6, <1>7, <1>8 DEF JobsChange

\* A one-shot that has succeeded for its time gets no next run again, but for the
\* catch-up that puts it off and what another service writes.
THEOREM CronOneShotOnce == Spec => OneShotOnce
  <1>1. Shaped /\ [Next]_vars =>
           [\A j \in Job :
              (Spent(job'[j]) /\ job'[j].next # 0) =>
                 \/ Spent(job[j]) /\ job[j].next # 0
                 \/ \E n \in DOMAIN deferred : deferred[n] = j
                 \/ Elsewhere(j)]_vars
    <2> SUFFICES ASSUME Shaped, [Next]_vars, NEW j \in Job,
                        Spent(job'[j]), job'[j].next # 0
                 PROVE  \/ Spent(job[j]) /\ job[j].next # 0
                        \/ \E n \in DOMAIN deferred : deferred[n] = j
                        \/ Elsewhere(j)
      OBVIOUS
    <2> QED
      BY OnceStep DEF Once, PutOffOnes
  <1> QED
    BY <1>1, ShapedAlways, PTL DEF Spec, OneShotOnce

\* The next run of a job that is past due changes only when its slot has been
\* executed, a result is applied, or the job is edited, put off by the catch-up or
\* written by another service.
THEOREM CronNoSlotSkipped == Spec => NoSlotSkipped
  <1> DEFINE Justified(j) ==
                \/ job[j].last >= job[j].next
                \/ \E o \in Owner : run[o][j].at = "ended" /\ run'[o][j].at = "idle"
                \/ \E n \in DOMAIN deferred : deferred[n] = j
                \/ phase = "recomputing" /\ phase' = "started"
                \/ Reschedule(j) \/ (\E enabled \in BOOLEAN : Enable(j, enabled))
                \/ Elsewhere(j) \/ \E k \in Job : Add(k)
             Unskipped(j) == (Stored(j) /\ Due(j) /\ Stored(j)' /\ job'[j].next # job[j].next)
                            => Justified(j)
  <1>1. Shaped /\ [Next]_vars => [\A j \in Job : Unskipped(j)]_vars
    <2> SUFFICES ASSUME Shaped, [Next]_vars, NEW j \in Job,
                        Stored(j), Due(j), Stored(j)', job'[j].next # job[j].next
                 PROVE  Justified(j)
      OBVIOUS
    <2>1. /\ job[j].enabled /\ job[j].next # 0 /\ job'[j].stored = "stored"
          /\ job[j].stored = "stored"
      BY DEF Due, Stored
    <2>2. Slot(job[j], job'[j]) => Justified(j)
      BY <2>1 DEF Slot
    <2>3. j \in PutOffOnes => Justified(j)
      BY DEF PutOffOnes
    <2>4. run \in [Owner -> [Job -> RunType]]
      BY DEF Shaped
    <2>5. JobsChange
      BY Changes
    <2>6. CASE UNCHANGED job \/ MarksOnly
      BY <2>6 DEF MarksOnly
    <2>7. CASE \E expired \in BOOLEAN : job' = Maintained(job, expired)
      BY <2>2, <2>7, Maintains
    <2>8. CASE CatchupApplies \/ TickApplies
      <3>1. PICK o \in {"catchup", "tick"} :
               /\ run' = [run EXCEPT ![o] = [k \in Job |-> Idle]]
               /\ Slot(job[j], job'[j]) \/ j \in PutOffOnes \/ run[o][j].at = "ended"
        BY <2>8, AppliesBatch
      <3>2. o \in Owner
        BY DEF Owner
      <3>3. run'[o][j].at = "idle"
        BY <2>4, <3>1, <3>2 DEF Idle
      <3> QED
        BY <2>2, <2>3, <3>1, <3>2, <3>3
    <2>9. CASE Started
      BY <2>9 DEF Started
    <2>10. ASSUME NEW m \in Manual, NEW k \in Job, Finishes(m, k)
           PROVE  Justified(j)
      <3>1. CASE k = j
        <4>1. m \in Owner /\ run[m][j].at = "ended"
          BY <2>10, <3>1, ConstantTypes DEF Finishes
        <4>2. run' = [run EXCEPT ![m] = [run[m] EXCEPT ![j] = Idle]]
          BY <2>4, <2>10, <3>1, <4>1 DEF Finishes
        <4>3. run'[m][j].at = "idle"
          BY <2>4, <4>1, <4>2 DEF Idle
        <4> QED
          BY <4>1, <4>3
      <3>2. CASE k # j
        BY <2>2, <2>10, <3>2, FinishEffect
      <3> QED
        BY <3>1, <3>2
    <2>11. ASSUME NEW k \in Job,
                  \/ Add(k) \/ RemoveJob(k) \/ Reschedule(k) \/ Elsewhere(k)
                  \/ \E enabled \in BOOLEAN : Enable(k, enabled)
           PROVE  Justified(j)
      <3>1. CASE Add(k)
        BY <3>1
      <3>2. CASE RemoveJob(k)
        <4>1. k = j
          BY <3>2, RemoveEffect
        <4> QED
          BY <2>1, <3>2, <4>1, RemoveEffect
      <3>3. CASE Reschedule(k) \/ (\E enabled \in BOOLEAN : Enable(k, enabled))
        <4>1. k = j
          BY <3>3, EditEffect
        <4> QED
          BY <3>3, <4>1
      <3>4. CASE Elsewhere(k)
        <4>1. k = j
          BY <3>4, ElsewhereEffect
        <4> QED
          BY <3>4, <4>1
      <3> QED
        BY <2>11, <3>1, <3>2, <3>3, <3>4
    <2> QED
      BY <2>5, <2>6, <2>7, <2>8, <2>9, <2>10, <2>11 DEF JobsChange
  <1> QED
    BY <1>1, ShapedAlways, PTL DEF Spec, NoSlotSkipped

-----------------------------------------------------------------------------
(* Claims *)

\* What a step of a process that is up does to the claims of a job.
Steady(j) ==
    /\ job'[j].stored = "unborn" => job[j].stored = "unborn" /\ (job'[j].mark => job[j].mark)
    /\ Stored(j)' => Stored(j) \/ (job[j].stored = "unborn" /\ (job'[j].mark => job[j].mark))
    /\ job'[j].mark /\ ~job[j].mark => \E o \in Owner : Claimed(o, j)'
    /\ \A o \in Owner :
          /\ Claimed(o, j)' /\ ~Claimed(o, j) =>
                /\ Stored(j) /\ ~job[j].mark /\ job'[j].mark
                /\ \A p \in Owner : p # o /\ Claimed(p, j)' => Claimed(p, j)
          /\ Claimed(o, j) /\ ~Claimed(o, j)' => ~(Stored(j)' /\ job'[j].mark)
          /\ Claimed(o, j) /\ Claimed(o, j)' =>
                (j \in unmarked \/ (job[j].mark /\ ~job'[j].mark) => j \in unmarked')

\* A step of a process that is up.
Upright ==
    /\ phase # "stopped" /\ phase' # "stopped" /\ overlap' = overlap
    /\ ~Free("tick")' => ticking'
    /\ \A j \in Job : Steady(j)

LEMMA UprightClaims ==
  ASSUME ClaimInv, Upright
  PROVE  Asleep' /\ Claims' /\ MarkClaimed'
  <1>1. Asleep'
    BY DEF Upright, Asleep
  <1>2. /\ Claims /\ MarkClaimed /\ phase # "stopped" /\ overlap' = overlap
        /\ \A j \in Job : Steady(j)
    BY DEF ClaimInv, Upright
  <1>3. ASSUME NEW j \in Job, job'[j].stored = "unborn"
        PROVE  ~job'[j].mark
    BY <1>2, <1>3, Zenon DEF Claims, Steady
  <1>4. ASSUME NEW o \in Owner, NEW j \in Job, j \notin unmarked', Claimed(o, j)'
        PROVE  job'[j].mark
    <2>1. CASE ~Claimed(o, j)
      BY <1>2, <1>4, <2>1, Zenon DEF Steady
    <2>2. CASE Claimed(o, j)
      <3>1. j \notin unmarked /\ (job[j].mark => job'[j].mark)
        BY <1>2, <1>4, <2>2, Zenon DEF Steady
      <3> QED
        BY <1>2, <2>2, <3>1, Zenon DEF Claims
    <2> QED
      BY <2>1, <2>2
  <1>5. ASSUME NEW o \in Owner, NEW p \in Owner, NEW j \in Job, j \notin unmarked',
               Claimed(o, j)', Claimed(p, j)', o # p
        PROVE  FALSE
    <2>1. CASE Claimed(o, j) /\ Claimed(p, j)
      <3>1. j \notin unmarked
        BY <1>2, <1>5, <2>1, Zenon DEF Steady
      <3> QED
        BY <1>2, <1>5, <2>1, <3>1, Zenon DEF Claims
    <2>2. ASSUME NEW q \in Owner, NEW r \in Owner, q # r, Claimed(q, j)', Claimed(r, j)',
                 ~Claimed(q, j)
          PROVE  FALSE
      <3>1. Stored(j) /\ ~job[j].mark /\ Claimed(r, j)
        BY <1>2, <2>2, Zenon DEF Steady
      <3>2. j \notin unmarked
        BY <1>2, <1>5, <2>2, <3>1, Zenon DEF Steady
      <3> QED
        BY <1>2, <3>1, <3>2, Zenon DEF Claims
    <2> QED
      BY <1>5, <2>1, <2>2
  <1>6. ASSUME ~overlap', NEW j \in Job, Stored(j)', job'[j].mark
        PROVE  \E o \in Owner : Claimed(o, j)'
    <2>1. CASE ~job[j].mark
      BY <1>2, <1>6, <2>1, Zenon DEF Steady
    <2>2. CASE job[j].mark
      <3>1. Stored(j)
        BY <1>2, <1>6, <2>2, Zenon DEF Steady, Claims
      <3>2. ~overlap
        BY <1>2, <1>6
      <3>3. PICK o \in Owner : Claimed(o, j)
        BY <1>2, <2>2, <3>1, <3>2 DEF MarkClaimed, Claimants
      <3> QED
        BY <1>2, <1>6, <3>3, Zenon DEF Steady
    <2> QED
      BY <2>1, <2>2
  <1>7. Claims'
    BY <1>3, <1>4, <1>5 DEF Claims
  <1>8. MarkClaimed'
    BY <1>6 DEF MarkClaimed, Claimants
  <1> QED
    BY <1>1, <1>7, <1>8

\* Nobody claims: marks are at most cleared, but for those of jobs that are claimed.
LEMMA SteadyFewer ==
  ASSUME Shaped, Observe \/ UNCHANGED <<job, unmarked>>,
         NEW j \in Job,
         job'[j].stored = "unborn" => job[j].stored = "unborn",
         Stored(j)' => Stored(j) \/ job[j].stored = "unborn",
         job'[j].mark /\ ~job[j].mark => Stored(j) /\ \E o \in Owner : Claimed(o, j)',
         \A o \in Owner : /\ Claimed(o, j)' => Claimed(o, j)
                          /\ Claimed(o, j) /\ ~Claimed(o, j)' => ~(Stored(j)' /\ job'[j].mark)
  PROVE  Steady(j)
  <1>1. \A o \in Owner : Claimed(o, j) /\ Claimed(o, j)' =>
           (j \in unmarked \/ (job[j].mark /\ ~job'[j].mark) => j \in unmarked')
    BY DEF Observe
  <1>2. ~(Stored(j) /\ job[j].stored = "unborn")
    BY DEF Stored
  <1> QED
    BY <1>1, <1>2, Zenon DEF Steady

\* Owner o claims the jobs of S, which are stored and not marked.
LEMMA SteadyClaimed ==
  ASSUME Shaped, Observe, NEW o \in Owner, NEW S \in SUBSET Job, NEW j \in Job,
         job'[j].stored = job[j].stored,
         j \in S => Stored(j) /\ ~job[j].mark /\ job'[j].mark /\ Claimed(o, j)',
         j \notin S => job'[j].mark = job[j].mark,
         \A p \in Owner : p # o \/ j \notin S => run'[p][j] = run[p][j]
  PROVE  Steady(j)
  <1>1. \A p \in Owner : Claimed(p, j) /\ Claimed(p, j)' =>
           (j \in unmarked \/ (job[j].mark /\ ~job'[j].mark) => j \in unmarked')
    BY DEF Observe
  <1>2. \A p \in Owner : p # o \/ j \notin S => (Claimed(p, j)' <=> Claimed(p, j))
    BY DEF Claimed
  <1>3. Stored(j)' <=> Stored(j)
    BY DEF Stored
  <1>4. CASE j \in S
    <2>1. job'[j].stored # "unborn"
      BY <1>4 DEF Stored
    <2> QED
      BY <1>1, <1>2, <1>3, <1>4, <2>1, Zenon DEF Steady
  <1>5. CASE j \notin S
    BY <1>1, <1>2, <1>3, <1>5, Zenon DEF Steady
  <1> QED
    BY <1>4, <1>5

\* Steps that change jobs, but not what is executed.
LEMMA UprightJobs ==
  ASSUME ClaimInv,
         \/ Started \/ TimerMaintains \/ Read
         \/ \E j \in Job : \/ Add(j) \/ RemoveJob(j) \/ Reschedule(j)
                           \/ \E enabled \in BOOLEAN : Enable(j, enabled)
  PROVE  Upright
  <1>1. Shaped /\ Asleep
    BY DEF ClaimInv
  <1>2. /\ phase # "stopped" /\ phase' # "stopped" /\ run' = run /\ Observe
        /\ ticking => ticking'
        /\ overlap' = overlap
    BY <1>1 DEF Asleep, Started, TimerMaintains, Read, Add, RemoveJob, Reschedule, Enable, Call,
                services
  <1>3. ~Free("tick")' => ticking'
    <2>1. Free("tick")' <=> Free("tick")
      BY <1>2 DEF Free
    <2> QED
      BY <1>1, <1>2, <2>1, Zenon DEF Asleep
  <1>4. ASSUME NEW j \in Job
        PROVE  /\ job'[j].mark => job[j].mark
               /\ job'[j].stored = "unborn" => job[j].stored = "unborn"
               /\ Stored(j)' => Stored(j) \/ job[j].stored = "unborn"
    <2>1. CASE Started
      BY <1>1, <2>1, RecomputedEffect DEF Started, Same, Stored
    <2>2. CASE TimerMaintains \/ Read
      <3>1. \E expired \in BOOLEAN : job' = Maintained(job, expired)
        BY <2>2 DEF TimerMaintains, Read
      <3> QED
        BY <1>1, <3>1, Maintains DEF Kept, Same, Stored
    <2>3. ASSUME NEW k \in Job, Add(k)
          PROVE  /\ job'[j].mark => job[j].mark
                 /\ job'[j].stored = "unborn" => job[j].stored = "unborn"
                 /\ Stored(j)' => Stored(j) \/ job[j].stored = "unborn"
      <3>1. CASE k = j
        BY <1>1, <2>3, <3>1, AddEffect
      <3>2. CASE k # j
        BY <1>1, <2>3, <3>2, AddEffect, RecomputedEffect DEF Same, Stored
      <3> QED
        BY <3>1, <3>2
    <2>4. ASSUME NEW k \in Job,
                 \/ RemoveJob(k) \/ Reschedule(k)
                 \/ \E enabled \in BOOLEAN : Enable(k, enabled)
          PROVE  /\ job'[j].mark => job[j].mark
                 /\ job'[j].stored = "unborn" => job[j].stored = "unborn"
                 /\ Stored(j)' => Stored(j) \/ job[j].stored = "unborn"
      <3>1. CASE RemoveJob(k)
        <4>1. job' = [job EXCEPT ![k].stored = "gone"] /\ job \in [Job -> JobType]
          BY <1>1, <3>1 DEF RemoveJob, Shaped
        <4> QED
          BY <4>1 DEF Stored, JobType
      <3>2. CASE Reschedule(k) \/ (\E enabled \in BOOLEAN : Enable(k, enabled))
        <4>1. CASE k = j
          BY <1>1, <3>2, <4>1, EditEffect DEF Stored
        <4>2. CASE k # j
          BY <1>1, <3>2, <4>2, EditEffect DEF Stored
        <4> QED
          BY <4>1, <4>2
      <3> QED
        BY <2>4, <3>1, <3>2
    <2> QED
      BY <2>1, <2>2, <2>3, <2>4
  <1>5. ASSUME NEW j \in Job
        PROVE  Steady(j)
    <2>1. \A o \in Owner : Claimed(o, j)' <=> Claimed(o, j)
      BY <1>2 DEF Claimed
    <2> QED
      BY <1>1, <1>2, <1>4, <2>1, SteadyFewer
  <1> QED
    BY <1>2, <1>3, <1>5 DEF Upright

\* The start claims the jobs that were missed, a tick those that are due.
LEMMA UprightClaim ==
  ASSUME ClaimInv, Plan \/ TimerCollects
  PROVE  Upright
  <1>1. /\ Shaped /\ Asleep /\ run \in [Owner -> [Job -> RunType]]
        /\ job \in [Job -> JobType]
    BY DEF ClaimInv, Shaped
  <1>2. PICK o \in {"catchup", "tick"}, S \in SUBSET Job :
          /\ \A j \in S : Stored(j) /\ ~job[j].mark
          /\ job' = [j \in Job |-> IF j \in S THEN [job[j] EXCEPT !.mark = TRUE] ELSE job[j]]
          /\ run' = [run EXCEPT ![o] =
                       [j \in Job |-> IF j \in S THEN [@[j] EXCEPT !.at = "waiting"] ELSE @[j]]]
          /\ Observe
          /\ phase # "stopped" /\ phase' # "stopped" /\ overlap' = overlap
          /\ o = "tick" => ticking'
          /\ ticking => ticking'
    <2>1. CASE Plan
      <3>1. PICK sorted \in ByNext({j \in Job : Missed(j)}) :
              LET first == {sorted[n] : n \in DOMAIN sorted \cap 1 .. MaxMissed}
              IN /\ job' = [j \in Job |-> IF j \in first THEN [job[j] EXCEPT !.mark = TRUE] ELSE job[j]]
                 /\ run' = [run EXCEPT !["catchup"] =
                        [j \in Job |-> IF j \in first THEN [@[j] EXCEPT !.at = "waiting"] ELSE @[j]]]
        BY <2>1 DEF Plan
      <3> DEFINE first == {sorted[n] : n \in DOMAIN sorted \cap 1 .. MaxMissed}
      <3>2. first \in SUBSET Job /\ \A j \in first : Stored(j) /\ ~job[j].mark
        BY DEF ByNext, Missed
      <3> HIDE DEF first
      <3>3. Observe /\ phase # "stopped" /\ phase' # "stopped" /\ ticking' = ticking
            /\ overlap' = overlap
        BY <2>1 DEF Plan, services
      <3>4. /\ job' = [j \in Job |-> IF j \in first THEN [job[j] EXCEPT !.mark = TRUE] ELSE job[j]]
            /\ run' = [run EXCEPT !["catchup"] =
                        [j \in Job |-> IF j \in first THEN [@[j] EXCEPT !.at = "waiting"] ELSE @[j]]]
        BY <3>1 DEF first
      <3> QED
        BY <3>2, <3>3, <3>4
    <2>2. CASE TimerCollects
      <3> DEFINE due == {j \in Job : Runnable(j)}
      <3>1. due \in SUBSET Job /\ \A j \in due : Stored(j) /\ ~job[j].mark
        BY DEF Runnable
      <3>2. /\ job' = [j \in Job |-> IF j \in due THEN [job[j] EXCEPT !.mark = TRUE] ELSE job[j]]
            /\ run' = [run EXCEPT !["tick"] =
                        [j \in Job |-> IF j \in due THEN [@[j] EXCEPT !.at = "waiting"] ELSE @[j]]]
            /\ Observe /\ phase # "stopped" /\ phase' # "stopped" /\ ticking'
            /\ overlap' = overlap
        BY <1>1, <2>2 DEF TimerCollects, Asleep, services
      <3> HIDE DEF due
      <3> QED
        BY <3>1, <3>2
    <2> QED
      BY <2>1, <2>2
  <1>3. o \in Owner
    BY DEF Owner
  <1>4. /\ \A j \in S : run'[o][j].at = "waiting"
        /\ \A p \in Owner, j \in Job : p # o \/ j \notin S => run'[p][j] = run[p][j]
    <2>1. ASSUME NEW j \in S
          PROVE  run'[o][j].at = "waiting"
      <3>1. run'[o][j] = [run[o][j] EXCEPT !.at = "waiting"] /\ run[o][j] \in RunType
        BY <1>1, <1>2, <1>3
      <3> QED
        BY <3>1 DEF RunType
    <2> QED
      BY <1>1, <1>2, <1>3, <2>1
  <1>5. ~Free("tick")' => ticking'
    <2>1. CASE o = "tick"
      BY <1>2, <2>1
    <2>2. CASE o # "tick"
      <3>1. \A j \in Job : run'["tick"][j] = run["tick"][j]
        BY <1>4, <2>2, ConstantTypes
      <3> QED
        <4>1. Free("tick")' <=> Free("tick")
          BY <3>1 DEF Free
        <4> QED
          BY <1>1, <1>2, <4>1, Zenon DEF Asleep
    <2> QED
      BY <2>1, <2>2
  <1>6. ASSUME NEW j \in Job
        PROVE  Steady(j)
    <2>1. /\ job'[j].stored = job[j].stored
          /\ j \in S => job'[j].mark
          /\ j \notin S => job'[j].mark = job[j].mark
      BY <1>1, <1>2 DEF JobType
    <2>2. j \in S => Stored(j) /\ ~job[j].mark /\ job'[j].mark /\ Claimed(o, j)'
      BY <1>2, <1>4, <2>1 DEF Claimed
    <2> QED
      BY <1>1, <1>2, <1>3, <1>4, <2>1, <2>2, SteadyClaimed
  <1> QED
    BY <1>2, <1>5, <1>6 DEF Upright

\* An owner changes one execution; what the tick holds it goes on holding.
LEMMA UprightTicking ==
  ASSUME ClaimInv, NEW o \in Owner, NEW j \in Job, Executes(o, j) \/ o # "tick",
         \A p \in Owner, k \in Job : p # o \/ k # j => run'[p][k] = run[p][k],
         UNCHANGED ticking
  PROVE  ~Free("tick")' => ticking'
  <1>1. ~Free("tick")' => ~Free("tick")
    BY ConstantTypes DEF Free, Executes
  <1> QED
    BY <1>1, Zenon DEF ClaimInv, Asleep

LEMMA UprightBegins ==
  ASSUME ClaimInv, NEW o \in Owner, NEW j \in Job, Begins(o, j)
  PROVE  Upright
  <1>1. /\ Shaped /\ Asleep /\ run \in [Owner -> [Job -> RunType]]
        /\ job \in [Job -> JobType]
    BY DEF ClaimInv, Shaped
  <1>2. /\ run[o][j].at = "waiting" /\ phase' = phase /\ ticking' = ticking /\ Observe
        /\ overlap' = overlap
        /\ job' = [job EXCEPT ![j].mark = @ \/ (o = "tick" /\ attached /\ Stored(j))]
        /\ run' = [run EXCEPT ![o] = [run[o] EXCEPT ![j] =
                     [run[o][j] EXCEPT !.at = "running", !.began = now]]]
    BY <1>1 DEF Begins, services
  <1>3. /\ run'[o][j].at = "running"
        /\ \A p \in Owner, k \in Job : p # o \/ k # j => run'[p][k] = run[p][k]
    <2>1. [run[o][j] EXCEPT !.at = "running", !.began = now].at = "running"
      BY <1>1 DEF RunType
    <2> QED
      BY <1>1, <1>2, <2>1
  <1>4. phase # "stopped"
    BY <1>1, <1>2 DEF Asleep, Executes
  <1>5. ~Free("tick")' => ticking'
    <2>1. Executes(o, j)
      BY <1>2 DEF Executes
    <2> QED
      BY <1>2, <1>3, <2>1, UprightTicking
  <1>6. ASSUME NEW k \in Job
        PROVE  Steady(k)
    <2>1. /\ job'[k].stored = job[k].stored
          /\ k # j => job'[k] = job[k]
          /\ job'[j].mark /\ ~job[j].mark => Stored(j)
      <3>1. MarksOnly
        BY <1>1, BeginsMarks
      <3>2. job'[j].mark = (job[j].mark \/ (o = "tick" /\ attached /\ Stored(j)))
        BY <1>1, <1>2 DEF JobType
      <3>3. k # j => job'[k] = job[k]
        BY <1>1, <1>2
      <3>4. job'[j].mark /\ ~job[j].mark => Stored(j)
        BY <3>2, Zenon
      <3> QED
        BY <3>1, <3>3, <3>4 DEF MarksOnly, Same
    <2>2. \A p \in Owner : Claimed(p, k)' <=> Claimed(p, k)
      BY <1>2, <1>3 DEF Claimed
    <2>3. Claimed(o, j)'
      BY <1>3 DEF Claimed
    <2>4. job'[k].mark /\ ~job[k].mark => Stored(k) /\ \E p \in Owner : Claimed(p, k)'
      BY <2>1, <2>3
    <2>5. Stored(k)' <=> Stored(k)
      BY <2>1 DEF Stored
    <2> QED
      BY <1>1, <1>2, <2>1, <2>2, <2>4, <2>5, SteadyFewer
  <1> QED
    BY <1>2, <1>4, <1>5, <1>6 DEF Upright

LEMMA UprightEnds ==
  ASSUME ClaimInv, NEW o \in Owner, NEW j \in Job, NEW outcome \in Outcome, Ends(o, j, outcome)
  PROVE  Upright
  <1>1. /\ Shaped /\ Asleep /\ run \in [Owner -> [Job -> RunType]]
    BY DEF ClaimInv, Shaped
  <1>2. /\ run[o][j].at = "running" /\ phase' = phase /\ ticking' = ticking
        /\ UNCHANGED <<job, unmarked, overlap>>
        /\ run' = [run EXCEPT ![o] = [run[o] EXCEPT ![j] =
                     [run[o][j] EXCEPT !.at = "ended", !.ended = now, !.outcome = outcome]]]
    BY <1>1 DEF Ends, services
  <1>3. /\ run'[o][j].at = "ended"
        /\ \A p \in Owner, k \in Job : p # o \/ k # j => run'[p][k] = run[p][k]
    <2>1. [run[o][j] EXCEPT !.at = "ended", !.ended = now, !.outcome = outcome].at = "ended"
      BY <1>1 DEF RunType
    <2> QED
      BY <1>1, <1>2, <2>1
  <1>4. phase # "stopped"
    BY <1>1, <1>2 DEF Asleep, Executes
  <1>5. ~Free("tick")' => ticking'
    <2>1. Executes(o, j)
      BY <1>2 DEF Executes
    <2> QED
      BY <1>2, <1>3, <2>1, UprightTicking
  <1>6. ASSUME NEW k \in Job
        PROVE  Steady(k)
    <2>1. job'[k] = job[k] /\ (Stored(k)' <=> Stored(k))
      BY <1>2 DEF Stored
    <2>2. \A p \in Owner : Claimed(p, k)' <=> Claimed(p, k)
      BY <1>2, <1>3 DEF Claimed
    <2> QED
      BY <1>1, <1>2, <2>1, <2>2, SteadyFewer
  <1> QED
    BY <1>2, <1>4, <1>5, <1>6 DEF Upright

LEMMA UprightApplies ==
  ASSUME ClaimInv, CatchupApplies \/ TickApplies
  PROVE  Upright
  <1>1. /\ Shaped /\ Asleep /\ run \in [Owner -> [Job -> RunType]]
    BY DEF ClaimInv, Shaped
  <1>2. PICK o \in {"catchup", "tick"} :
          /\ run' = [run EXCEPT ![o] = [j \in Job |-> Idle]]
          /\ AllEnded(o)
          /\ \A j \in Job : /\ Kept(job[j], job'[j])
                            /\ run[o][j].at = "ended" => ~(Stored(j)' /\ job'[j].mark)
    BY <1>1, AppliesBatch
  <1>3. o \in Owner
    BY DEF Owner
  <1>4. /\ \A j \in Job : run'[o][j].at = "idle"
        /\ \A p \in Owner, j \in Job : p # o => run'[p][j] = run[p][j]
    BY <1>1, <1>2, <1>3 DEF Idle
  <1>5. /\ phase # "stopped" /\ phase' # "stopped" /\ ticking' = ticking /\ Observe
        /\ overlap' = overlap
    BY <1>1, ConstantTypes DEF CatchupApplies, TickApplies, Asleep, Free, Executes, services
  <1>6. ~Free("tick")' => ticking'
    <2>1. ~Free("tick")' => ~Free("tick")
      BY <1>4, ConstantTypes DEF Free
    <2> QED
      BY <1>1, <1>5, <2>1, Zenon DEF Asleep
  <1>7. ASSUME NEW j \in Job
        PROVE  Steady(j)
    <2>1. /\ job'[j].stored = "unborn" => job[j].stored = "unborn"
          /\ Stored(j)' => Stored(j)
          /\ job'[j].mark => job[j].mark
      BY <1>2 DEF Kept, Stored
    <2>2. \A p \in Owner : Claimed(p, j)' => Claimed(p, j)
      BY <1>4 DEF Claimed
    <2>3. \A p \in Owner : Claimed(p, j) /\ ~Claimed(p, j)' => ~(Stored(j)' /\ job'[j].mark)
      BY <1>2, <1>4 DEF Claimed, AllEnded
    <2> QED
      BY <1>1, <1>5, <2>1, <2>2, <2>3, SteadyFewer
  <1> QED
    BY <1>5, <1>6, <1>7 DEF Upright

\* What a section of a manual run leaves of the executions.
LEMMA ManualRun ==
  ASSUME ClaimInv, NEW m \in Manual, NEW j \in Job, NEW e,
         run' = [run EXCEPT ![m][j] = e], UNCHANGED ticking
  PROVE  /\ run'[m][j] = e
         /\ \A p \in Owner, k \in Job : p # m \/ k # j => run'[p][k] = run[p][k]
         /\ ~Free("tick")' => ticking'
  <1>1. m \in Owner /\ m # "tick" /\ run \in [Owner -> [Job -> RunType]]
    BY ConstantTypes DEF ClaimInv, Shaped
  <1>2. /\ run'[m][j] = e
        /\ \A p \in Owner, k \in Job : p # m \/ k # j => run'[p][k] = run[p][k]
    BY <1>1
  <1> QED
    BY <1>1, <1>2, UprightTicking

LEMMA UprightPreflight ==
  ASSUME ClaimInv, NEW m \in Manual, NEW j \in Job, NEW forced \in BOOLEAN,
         Preflight(m, j, forced)
  PROVE  Upright
  <1>1. /\ Shaped /\ m \in Owner /\ run \in [Owner -> [Job -> RunType]]
    BY ConstantTypes DEF ClaimInv, Shaped
  <1>2. /\ run[m][j].at = "idle" /\ Stored(j) /\ Observe
        /\ phase # "stopped" /\ phase' = phase /\ ticking' = ticking /\ overlap' = overlap
        /\ \E expired \in BOOLEAN : job' = Maintained(job, expired)
    BY DEF Preflight, Free, Call
  <1> DEFINE e == [run[m][j] EXCEPT !.at = "ready", !.began = now]
  <1>3. run' = [run EXCEPT ![m][j] = e]
    BY <1>1 DEF Preflight
  <1>4. e.at = "ready"
    BY <1>1 DEF RunType
  <1> HIDE DEF e
  <1>5. /\ run'[m][j].at = "ready"
        /\ \A p \in Owner, k \in Job : p # m \/ k # j => run'[p][k] = run[p][k]
        /\ ~Free("tick")' => ticking'
    <2>1. UNCHANGED ticking
      BY <1>2
    <2>2. /\ run'[m][j] = e
          /\ \A p \in Owner, k \in Job : p # m \/ k # j => run'[p][k] = run[p][k]
          /\ ~Free("tick")' => ticking'
      BY <1>3, <2>1, ManualRun
    <2> QED
      BY <1>4, <2>2
  <1>6. ASSUME NEW k \in Job
        PROVE  Steady(k)
    <2>1. Kept(job[k], job'[k])
      BY <1>1, <1>2, Maintains
    <2>2. /\ job'[k].stored = "unborn" => job[k].stored = "unborn"
          /\ Stored(k)' => Stored(k)
          /\ job'[k].mark => job[k].mark
      BY <2>1 DEF Kept, Stored
    <2>3. \A p \in Owner : Claimed(p, k)' <=> Claimed(p, k)
      BY <1>2, <1>5 DEF Claimed
    <2> QED
      BY <1>1, <1>2, <2>2, <2>3, SteadyFewer
  <1> QED
    BY <1>2, <1>5, <1>6 DEF Upright

LEMMA UprightPrepares ==
  ASSUME ClaimInv, NEW m \in Manual, NEW j \in Job, Prepares(m, j)
  PROVE  Upright
  <1>1. /\ Shaped /\ Asleep /\ m \in Owner
        /\ run \in [Owner -> [Job -> RunType]] /\ job \in [Job -> JobType]
    BY ConstantTypes DEF ClaimInv, Shaped
  <1>2. /\ run[m][j].at = "ready" /\ Stored(j) /\ ~job[j].mark
        /\ job' = [job EXCEPT ![j].mark = TRUE]
        /\ Observe /\ phase' = phase /\ ticking' = ticking /\ overlap' = overlap
    BY DEF Prepares, services
  <1> DEFINE e == [run[m][j] EXCEPT !.at = "running"]
  <1>3. run' = [run EXCEPT ![m][j] = e]
    BY <1>1 DEF Prepares
  <1>4. e.at = "running"
    BY <1>1 DEF RunType
  <1> HIDE DEF e
  <1>5. /\ run'[m][j].at = "running"
        /\ \A p \in Owner, k \in Job : p # m \/ k # j => run'[p][k] = run[p][k]
        /\ ~Free("tick")' => ticking'
    <2>1. UNCHANGED ticking
      BY <1>2
    <2>2. /\ run'[m][j] = e
          /\ \A p \in Owner, k \in Job : p # m \/ k # j => run'[p][k] = run[p][k]
          /\ ~Free("tick")' => ticking'
      BY <1>3, <2>1, ManualRun
    <2> QED
      BY <1>4, <2>2
  <1>6. phase # "stopped"
    BY <1>1, <1>2 DEF Asleep, Executes
  <1>7. ASSUME NEW k \in Job
        PROVE  Steady(k)
    <2>1. /\ job'[k].stored = job[k].stored
          /\ k \in {j} => Stored(k) /\ ~job[k].mark /\ job'[k].mark /\ Claimed(m, k)'
          /\ k \notin {j} => job'[k].mark = job[k].mark
      BY <1>1, <1>2, <1>5 DEF JobType, Claimed
    <2>2. \A p \in Owner : p # m \/ k \notin {j} => run'[p][k] = run[p][k]
      BY <1>5
    <2> QED
      BY <1>1, <1>2, <2>1, <2>2, SteadyClaimed
  <1> QED
    BY <1>2, <1>5, <1>6, <1>7 DEF Upright

\* A manual run that is over, or gives up.
LEMMA UprightFinishes ==
  ASSUME ClaimInv, NEW m \in Manual, NEW j \in Job,
         GivesUp(m, j) \/ Finishes(m, j) \/ FinishesGone(m, j)
  PROVE  Upright
  <1>1. /\ Shaped /\ Asleep /\ m \in Owner
        /\ run \in [Owner -> [Job -> RunType]]
    BY ConstantTypes DEF ClaimInv, Shaped
  <1>2. /\ Executes(m, j)
        /\ run' = [run EXCEPT ![m][j] = Idle]
        /\ phase' = phase /\ ticking' = ticking /\ overlap' = overlap
        /\ Observe \/ UNCHANGED <<job, unmarked>>
    BY DEF GivesUp, Finishes, FinishesGone, Executes, services
  <1>3. /\ run'[m][j].at = "idle"
        /\ \A p \in Owner, k \in Job : p # m \/ k # j => run'[p][k] = run[p][k]
        /\ ~Free("tick")' => ticking'
    <2>1. /\ run'[m][j] = Idle
          /\ \A p \in Owner, k \in Job : p # m \/ k # j => run'[p][k] = run[p][k]
          /\ ~Free("tick")' => ticking'
      BY <1>2, ManualRun
    <2> QED
      BY <2>1 DEF Idle
  <1>4. phase # "stopped"
    BY <1>1, <1>2 DEF Asleep
  <1>5. ASSUME NEW k \in Job
        PROVE  /\ job'[k].stored = "unborn" => job[k].stored = "unborn"
               /\ Stored(k)' => Stored(k)
               /\ job'[k].mark => job[k].mark
    <2>1. CASE GivesUp(m, j) \/ FinishesGone(m, j)
      BY <2>1 DEF GivesUp, FinishesGone, Stored
    <2>2. CASE Finishes(m, j)
      BY <1>1, <2>2, FinishEffect DEF Kept, Stored
    <2> QED
      BY <2>1, <2>2
  <1>6. Claimed(m, j) => ~(Stored(j)' /\ job'[j].mark)
    <2>1. CASE GivesUp(m, j)
      BY <2>1 DEF GivesUp, Claimed
    <2>2. CASE Finishes(m, j)
      BY <1>1, <2>2, FinishEffect
    <2>3. CASE FinishesGone(m, j)
      BY <2>3 DEF FinishesGone, Stored
    <2> QED
      BY <2>1, <2>2, <2>3
  <1>7. ASSUME NEW k \in Job
        PROVE  Steady(k)
    <2>1. \A p \in Owner : /\ Claimed(p, k)' => Claimed(p, k)
                           /\ Claimed(p, k) /\ ~Claimed(p, k)' => p = m /\ k = j
      BY <1>3 DEF Claimed
    <2>2. \A p \in Owner : Claimed(p, k) /\ ~Claimed(p, k)' => ~(Stored(k)' /\ job'[k].mark)
      BY <1>6, <2>1
    <2> QED
      BY <1>1, <1>2, <1>5, <2>1, <2>2, SteadyFewer
  <1> QED
    BY <1>2, <1>3, <1>4, <1>7 DEF Upright

\* Another service changes a job under a claim: a mark that it clears is observed.
LEMMA ElsewhereClaims ==
  ASSUME ClaimInv, NEW j \in Job, Elsewhere(j)
  PROVE  Asleep' /\ Claims' /\ MarkClaimed'
  <1>1. Shaped /\ Asleep /\ Claims
    BY DEF ClaimInv
  <1>2. /\ \A k \in Job : k # j => job'[k] = job[k]
        /\ job'[j].stored # "unborn"
        /\ overlap /\ overlap' = overlap /\ run' = run /\ Observe
        /\ phase' = phase /\ ticking' = ticking /\ timer' = timer
    BY <1>1, ElsewhereEffect
  <1>3. \A o \in Owner, k \in Job : Claimed(o, k)' <=> Claimed(o, k)
    BY <1>2 DEF Claimed
  <1>4. Asleep'
    BY <1>1, <1>2 DEF Asleep, Free, Executes
  <1>5. ASSUME NEW o \in Owner, NEW k \in Job, k \notin unmarked', Claimed(o, k)'
        PROVE  k \notin unmarked /\ (job[k].mark => job'[k].mark)
    BY <1>2, <1>3, <1>5 DEF Observe
  <1>6. ASSUME NEW k \in Job, job'[k].stored = "unborn"
        PROVE  ~job'[k].mark
    BY <1>1, <1>2, <1>6 DEF Claims
  <1>7. ASSUME NEW o \in Owner, NEW k \in Job, k \notin unmarked', Claimed(o, k)'
        PROVE  job'[k].mark
    BY <1>1, <1>3, <1>5, <1>7, Zenon DEF Claims
  <1>8. ASSUME NEW o \in Owner, NEW p \in Owner, NEW k \in Job, k \notin unmarked',
               Claimed(o, k)', Claimed(p, k)'
        PROVE  o = p
    BY <1>1, <1>3, <1>5, <1>8, Zenon DEF Claims
  <1>9. Claims'
    BY <1>6, <1>7, <1>8 DEF Claims
  <1>10. MarkClaimed'
    BY <1>2 DEF MarkClaimed
  <1> QED
    BY <1>4, <1>9, <1>10

LEMMA ClaimsStep ==
  ASSUME ClaimInv, [Next]_vars
  PROVE  Asleep' /\ Claims' /\ MarkClaimed'
  <1> DEFINE Goal == Asleep' /\ Claims' /\ MarkClaimed'
  <1>1. Shaped /\ Asleep /\ Claims /\ MarkClaimed
    BY DEF ClaimInv
  <1>2. Upright => Goal
    BY UprightClaims
  <1>3. ASSUME UNCHANGED <<job, run, phase, unmarked, overlap>>, Asleep'
        PROVE  Goal
    BY <1>1, <1>3 DEF Claims, MarkClaimed, Claimants, Claimed, Executes, Stored
  <1>4. CASE UNCHANGED vars
    <2>1. Asleep'
      BY <1>1, <1>4 DEF vars, Asleep, Free, Executes
    <2> QED
      BY <1>3, <1>4, <2>1 DEF vars, services
  <1>5. CASE Next
    <2>1. CASE Tick
      <3>1. Asleep'
        BY <1>1, <2>1 DEF Tick, Asleep, Free, Executes
      <3> QED
        BY <1>3, <2>1, <3>1 DEF Tick, services
    <2>2. CASE TimerRechecks
      <3>1. Asleep'
        BY <1>1, <2>2 DEF TimerRechecks, Asleep, Free, Executes
      <3> QED
        BY <1>3, <2>2, <3>1 DEF TimerRechecks, services
    <2>3. CASE TickEnds
      <3>1. Asleep'
        BY <1>1, <2>3 DEF TickEnds, Asleep, Free, Executes
      <3> QED
        BY <1>3, <2>3, <3>1 DEF TickEnds, services
    <2>4. CASE Crash \/ Reload
      <3>1. \A o \in Owner, j \in Job : run'[o][j].at = "idle"
        <4>1. run' = [o \in Owner |-> [j \in Job |-> Idle]]
          BY <2>4, Zenon DEF Crash, Reload, Replaced
        <4> QED
          BY <4>1 DEF Idle
      <3>2. phase' = "stopped" /\ job' = job /\ ticking' = FALSE /\ timer' = FALSE
        BY <2>4 DEF Crash, Reload, Replaced
      <3>3. \A o \in Owner, j \in Job : ~Executes(o, j)' /\ ~Claimed(o, j)'
        BY <3>1 DEF Executes, Claimed
      <3>4. Free("tick")'
        BY <3>1, ConstantTypes DEF Free
      <3>5. Asleep'
        BY <3>2, <3>3, <3>4 DEF Asleep
      <3>6. Claims'
        BY <1>1, <3>2, <3>3 DEF Claims
      <3>7. MarkClaimed'
        BY <3>2 DEF MarkClaimed
      <3> QED
        BY <3>5, <3>6, <3>7
    <2>5. CASE ClearMarks
      <3>1. /\ run' = run /\ phase' = "planning" /\ phase = "stopped"
            /\ ticking' = ticking
            /\ \A j \in Job : Stored(j) => job'[j] = [job[j] EXCEPT !.mark = FALSE]
            /\ \A j \in Job : ~Stored(j) => job'[j] = job[j]
        BY <2>5 DEF ClearMarks
      <3>2. \A o \in Owner, j \in Job : ~Executes(o, j)' /\ ~Claimed(o, j)'
        BY <1>1, <3>1 DEF Asleep, Executes, Claimed
      <3>3. ASSUME NEW j \in Job
            PROVE  /\ Stored(j)' => ~job'[j].mark
                   /\ job'[j].stored = "unborn" => ~job'[j].mark
        <4>1. job[j] \in JobType
          BY <1>1 DEF Shaped
        <4>2. CASE Stored(j)
          <5>1. job'[j].mark = FALSE
            BY <3>1, <4>1, <4>2 DEF JobType
          <5> QED
            BY <5>1
        <4>3. CASE ~Stored(j)
          BY <1>1, <3>1, <4>3 DEF Claims, Stored
        <4> QED
          BY <4>2, <4>3
      <3>4. Free("tick")'
        BY <3>2, ConstantTypes DEF Free, Executes
      <3>5. Asleep'
        BY <3>1, <3>4 DEF Asleep
      <3>6. Claims'
        BY <3>2, <3>3 DEF Claims
      <3>7. MarkClaimed'
        BY <3>3 DEF MarkClaimed
      <3> QED
        BY <3>5, <3>6, <3>7
    <2>6. CASE Plan \/ TimerCollects
      BY <1>2, <2>6, UprightClaim
    <2>7. CASE CatchupApplies \/ TickApplies
      BY <1>2, <2>7, UprightApplies
    <2>8. CASE Started \/ TimerMaintains \/ Read
      BY <1>2, <2>8, UprightJobs
    <2>9. ASSUME NEW o \in Owner, NEW j \in Job,
                 Begins(o, j) \/ (\E outcome \in Outcome : Ends(o, j, outcome))
          PROVE  Goal
      BY <1>2, <2>9, UprightBegins, UprightEnds
    <2>10. ASSUME NEW m \in Manual, NEW j \in Job,
                  \/ \E forced \in BOOLEAN : Preflight(m, j, forced)
                  \/ Prepares(m, j) \/ GivesUp(m, j) \/ Finishes(m, j) \/ FinishesGone(m, j)
           PROVE  Goal
      BY <1>2, <2>10, UprightPreflight, UprightPrepares, UprightFinishes
    <2>11. ASSUME NEW j \in Job,
                  \/ Add(j) \/ RemoveJob(j) \/ Reschedule(j) \/ Elsewhere(j)
                  \/ \E enabled \in BOOLEAN : Enable(j, enabled)
           PROVE  Goal
      BY <1>2, <2>11, UprightJobs, ElsewhereClaims
    <2> QED
      BY <1>5, <2>1, <2>2, <2>3, <2>4, <2>5, <2>6, <2>7, <2>8, <2>9, <2>10, <2>11 DEF Next
  <1> QED
    BY <1>4, <1>5

LEMMA ClaimInvAlways == Spec => []ClaimInv
  <1>1. Init /\ Shaped => ClaimInv
    <2> SUFFICES ASSUME Init, Shaped
                 PROVE  ClaimInv
      OBVIOUS
    <2>1. \A o \in Owner, j \in Job : ~Executes(o, j) /\ ~Claimed(o, j)
      BY DEF Init, Idle, Executes, Claimed
    <2>2. \A j \in Job : job[j].mark = FALSE
      <3>1. \A kind \in Kind : New(kind) \in JobType /\ New(kind).mark = FALSE
        BY DEF New, JobType
      <3>2. PICK kinds \in Schedules, old \in SUBSET Job :
              job = [j \in Job |->
                      IF j \notin old THEN New(kinds[j])
                      ELSE [New(kinds[j]) EXCEPT
                              !.stored = "stored",
                              !.when = IF kinds[j] = "at" THEN At ELSE 0,
                              !.next = IF kinds[j] = "at" THEN At ELSE Period]]
        BY DEF Init
      <3>3. \A j \in Job : kinds[j] \in Kind
        BY CronConstants
      <3>4. ASSUME NEW r \in JobType, NEW w, NEW n
            PROVE  [r EXCEPT !.stored = "stored", !.when = w, !.next = n].mark = r.mark
        BY DEF JobType
      <3>5. ASSUME NEW kind \in Kind
            PROVE  /\ New(kind).mark = FALSE
                   /\ [New(kind) EXCEPT !.stored = "stored",
                         !.when = IF kind = "at" THEN At ELSE 0,
                         !.next = IF kind = "at" THEN At ELSE Period].mark = FALSE
        BY <3>1, <3>4
      <3> QED
        BY <3>2, <3>3, <3>5
    <2>3. Asleep
      BY <2>1, ConstantTypes DEF Init, Asleep, Free, Executes
    <2>4. Claims
      BY <2>1, <2>2 DEF Claims
    <2>5. MarkClaimed
      BY DEF Init, MarkClaimed
    <2> QED
      BY <2>3, <2>4, <2>5 DEF ClaimInv
  <1>2. ClaimInv /\ Shaped' /\ [Next]_vars => ClaimInv'
    BY ClaimsStep DEF ClaimInv
  <1> QED
    BY <1>1, <1>2, ShapedAlways, PTL DEF Spec

\* No job is claimed twice at once, unless its mark was cleared under the claim.
THEOREM CronExclusion == Spec => []Exclusion
  <1>1. ClaimInv => Exclusion
    <2> SUFFICES ASSUME ClaimInv, NEW j \in Job, j \notin unmarked
                 PROVE  Cardinality(Claimants(j)) <= 1
      BY DEF Exclusion
    <2>1. CASE Claimants(j) = {}
      BY <2>1, FS_EmptySet
    <2>2. CASE Claimants(j) # {}
      <3>1. PICK o \in Owner : Claimed(o, j)
        BY <2>2 DEF Claimants
      <3>2. Claimants(j) = {o}
        BY <3>1 DEF Claimants, ClaimInv, Claims
      <3> QED
        BY <3>2, FS_Singleton
    <2> QED
      BY <2>1, <2>2
  <1> QED
    BY <1>1, ClaimInvAlways, PTL

\* No mark is left behind by an execution that is over, or by a process that has died.
THEOREM CronMarkClaimed == Spec => []MarkClaimed
  <1>1. ClaimInv => MarkClaimed
    BY DEF ClaimInv
  <1> QED
    BY <1>1, ClaimInvAlways, PTL

-----------------------------------------------------------------------------
(* The timer *)

LEMMA PhaseStep ==
  ASSUME [Next]_vars, ~Started, phase' = "started"
  PROVE  phase = "started" /\ overlap' = overlap
  <1>1. CASE Next
    <2>1. ~(Crash \/ Reload \/ ClearMarks \/ Plan \/ CatchupApplies)
      BY DEF Crash, Reload, Replaced, ClearMarks, Plan, CatchupApplies
    <2>2. CASE \/ Tick \/ TimerCollects \/ TimerMaintains \/ TimerRechecks \/ TickApplies
               \/ TickEnds \/ Read
      BY <2>2 DEF Tick, TimerCollects, TimerMaintains, TimerRechecks, TickApplies, TickEnds, Read,
                     services
    <2>3. ASSUME NEW o \in Owner, NEW j \in Job,
                 Begins(o, j) \/ (\E outcome \in Outcome : Ends(o, j, outcome))
          PROVE  phase = "started" /\ overlap' = overlap
      BY <2>3 DEF Begins, Ends, services
    <2>4. ASSUME NEW m \in Manual, NEW j \in Job,
                 \/ \E forced \in BOOLEAN : Preflight(m, j, forced)
                 \/ Prepares(m, j) \/ GivesUp(m, j) \/ Finishes(m, j) \/ FinishesGone(m, j)
          PROVE  phase = "started" /\ overlap' = overlap
      BY <2>4 DEF Preflight, Prepares, GivesUp, Finishes, FinishesGone, services
    <2>5. ASSUME NEW j \in Job,
                 \/ Add(j) \/ RemoveJob(j) \/ Reschedule(j) \/ Elsewhere(j)
                 \/ \E enabled \in BOOLEAN : Enable(j, enabled)
          PROVE  phase = "started" /\ overlap' = overlap
      BY <2>5 DEF Add, RemoveJob, Reschedule, Enable, Elsewhere, services
    <2> QED
      BY <1>1, <2>1, <2>2, <2>3, <2>4, <2>5 DEF Next
  <1>2. CASE UNCHANGED vars
    BY <1>2 DEF vars, services
  <1> QED
    BY <1>1, <1>2

LEMMA KnownStep ==
  ASSUME ClaimInv, NextKnown, [Next]_vars
  PROVE  NextKnown'
  <1> SUFFICES ASSUME ~overlap', phase' = "started", NEW j \in Job,
                      Stored(j)', job'[j].enabled, job'[j].next = 0
               PROVE  NeverAgain(job'[j])
    BY DEF NextKnown
  <1>1. Shaped /\ Stored(j)' = (job'[j].stored = "stored")
    BY DEF ClaimInv, Stored
  <1>2. CASE Started
    BY <1>1, <1>2, RecomputedEffect DEF Started
  <1>3. CASE ~Started
    <2>1. phase = "started" /\ ~overlap
      BY <1>3, PhaseStep
    <2>2. JobsChange
      BY <1>1, Changes
    <2>3. (Stored(j) /\ job[j].enabled /\ job[j].next = 0) => NeverAgain(job[j])
      BY <2>1 DEF NextKnown
    <2>4. CASE UNCHANGED job
      BY <1>1, <2>3, <2>4 DEF Stored
    <2>5. CASE MarksOnly
      <3>1. Same(job[j], job'[j]) /\ job'[j].next = job[j].next
            /\ job[j] \in JobType /\ job'[j] \in JobType
        BY <1>1, <2>5 DEF MarksOnly, Shaped
      <3>2. NeverAgain(job[j])
        BY <1>1, <2>3, <3>1 DEF Same, Stored
      <3> QED
        BY <3>1, <3>2, NextOfSame
    <2>6. CASE \E expired \in BOOLEAN : job' = Maintained(job, expired)
      BY <1>1, <2>6, Maintains DEF Kept
    <2>7. CASE CatchupApplies \/ TickApplies
      BY <1>1, <2>7, AppliesBatch DEF Kept
    <2>8. CASE \E m \in Manual, k \in Job : Finishes(m, k)
      BY <1>1, <2>8, FinishEffect DEF Kept
    <2>9. ASSUME NEW k \in Job,
                 \/ Add(k) \/ RemoveJob(k) \/ Reschedule(k) \/ Elsewhere(k)
                 \/ \E enabled \in BOOLEAN : Enable(k, enabled)
          PROVE  NeverAgain(job'[j])
      <3>1. CASE Add(k)
        BY <1>1, <3>1, AddEffect, RecomputedEffect
      <3>2. CASE RemoveJob(k)
        BY <1>1, <2>3, <3>2, RemoveEffect DEF Stored
      <3>3. CASE Reschedule(k) \/ (\E enabled \in BOOLEAN : Enable(k, enabled))
        <4>1. CASE k = j
          BY <1>1, <3>3, <4>1, EditEffect
        <4>2. CASE k # j
          BY <1>1, <2>3, <3>3, <4>2, EditEffect DEF Stored
        <4> QED
          BY <4>1, <4>2
      <3>4. ~Elsewhere(k)
        BY <2>1 DEF Elsewhere
      <3> QED
        BY <2>9, <3>1, <3>2, <3>3, <3>4
    <2> QED
      BY <1>3, <2>2, <2>4, <2>5, <2>6, <2>7, <2>8, <2>9 DEF JobsChange
  <1> QED
    BY <1>2, <1>3

LEMMA TimerStep ==
  ASSUME ClaimInv, NextKnown, SchedulerAlive, [Next]_vars
  PROVE  SchedulerAlive'
  <1> SUFFICES ASSUME ~overlap'
               PROVE  SchedulerAlive'
    BY DEF SchedulerAlive
  <1>1. Shaped /\ Asleep /\ run \in [Owner -> [Job -> RunType]]
    BY DEF ClaimInv, Shaped
  <1>2. Arm => SchedulerAlive'
    BY DEF Arm, SchedulerAlive
  <1>3. timer' = TRUE => SchedulerAlive'
    BY DEF SchedulerAlive
  \* A step after which no more is enabled, that leaves the timer alone.
  <1>4. ASSUME phase' = phase, overlap' = overlap,
               phase = "started" /\ Wakes(job') => Wakes(job),
               timer' = timer, ticking' = ticking, ticking /\ Free("tick") => Free("tick")'
        PROVE  SchedulerAlive'
    BY <1>4 DEF SchedulerAlive
  <1>5. CASE UNCHANGED vars
    BY <1>5 DEF vars, services, SchedulerAlive, Wakes, Free
  <1>6. CASE Next
    <2>1. CASE Tick
      BY <2>1 DEF Tick, services, SchedulerAlive, Wakes, Free
    <2>2. CASE Crash \/ Reload \/ ClearMarks \/ Plan \/ CatchupApplies
      BY <2>2 DEF Crash, Reload, Replaced, ClearMarks, Plan, CatchupApplies, SchedulerAlive
    <2>3. CASE Started \/ TickEnds
      BY <1>2, <2>3 DEF Started, TickEnds
    <2>4. CASE TimerCollects \/ TimerMaintains \/ TimerRechecks
      BY <1>3, <2>4 DEF TimerCollects, TimerMaintains, TimerRechecks, Recheck
    <2>5. CASE TickApplies
      <3>1. ticking' /\ \A j \in Job : run'["tick"][j].at = "idle"
        BY <1>1, <2>5, ConstantTypes, Zenon DEF TickApplies, Asleep, Idle
      <3>2. Free("tick")'
        BY <3>1 DEF Free
      <3> QED
        BY <3>1, <3>2 DEF SchedulerAlive
    <2>6. ASSUME NEW expired \in BOOLEAN, job' = Maintained(job, expired)
          PROVE  ~overlap /\ phase = "started" /\ Wakes(job') => Wakes(job)
      <3> SUFFICES ASSUME ~overlap, phase = "started", NEW j \in Job,
                          job'[j].stored = "stored", job'[j].enabled, job'[j].next # 0
                   PROVE  Wakes(job)
        BY DEF Wakes
      <3>1. /\ Same(job[j], job'[j])
            /\ job[j].next # 0 \/ ~NeverAgain(job[j])
        BY <1>1, <2>6, Maintains
      <3>2. job[j].stored = "stored" /\ job[j].enabled
        BY <3>1 DEF Same
      <3>3. job[j].next # 0
        BY <3>1, <3>2 DEF NextKnown, Stored
      <3> QED
        BY <3>2, <3>3 DEF Wakes
    <2>7. MarksOnly => (Wakes(job') => Wakes(job))
      BY DEF MarksOnly, Same, Wakes
    <2>8. CASE Read
      <3>1. phase = "started" /\ Wakes(job') => Wakes(job)
        BY <2>6, <2>8 DEF Read, services
      <3> QED
        BY <1>4, <2>8, <3>1 DEF Read, services, Free
    <2>9. ASSUME NEW o \in Owner, NEW j \in Job, Begins(o, j)
          PROVE  SchedulerAlive'
      <3>1. Wakes(job') => Wakes(job)
        BY <1>1, <2>7, <2>9, BeginsMarks
      <3>2. Free("tick") => o # "tick"
        BY <2>9 DEF Begins, Free
      <3>3. Free("tick") => Free("tick")'
        BY <1>1, <2>9, <3>2, ConstantTypes DEF Begins, Free
      <3> QED
        BY <1>4, <2>9, <3>1, <3>3 DEF Begins, services
    <2>10. ASSUME NEW o \in Owner, NEW j \in Job, NEW outcome \in Outcome, Ends(o, j, outcome)
           PROVE  SchedulerAlive'
      <3>1. Free("tick") => o # "tick"
        BY <2>10 DEF Ends, Free
      <3>2. Free("tick") => Free("tick")'
        BY <1>1, <2>10, <3>1, ConstantTypes DEF Ends, Free
      <3>3. Wakes(job') => Wakes(job)
        BY <2>10 DEF Ends
      <3> QED
        BY <1>4, <2>10, <3>2, <3>3 DEF Ends, services
    <2>11. ASSUME NEW m \in Manual, NEW j \in Job, NEW e, run' = [run EXCEPT ![m][j] = e]
           PROVE  Free("tick") => Free("tick")'
      <3>1. m # "tick" /\ "tick" \in Owner /\ m \in Owner
        BY ConstantTypes
      <3> QED
        BY <1>1, <2>11, <3>1 DEF Free
    <2>12. ASSUME NEW m \in Manual, NEW j \in Job, NEW forced \in BOOLEAN,
                  Preflight(m, j, forced)
           PROVE  SchedulerAlive'
      <3>1. phase = "started" /\ Wakes(job') => Wakes(job)
        BY <2>6, <2>12 DEF Preflight
      <3>2. Free("tick") => Free("tick")'
        <4>1. run' = [run EXCEPT ![m][j] = [run[m][j] EXCEPT !.at = "ready", !.began = now]]
          BY <1>1, <2>12, ConstantTypes DEF Preflight
        <4> QED
          BY <2>11, <4>1
      <3> QED
        BY <1>4, <2>12, <3>1, <3>2 DEF Preflight
    <2>13. ASSUME NEW m \in Manual, NEW j \in Job, Prepares(m, j)
           PROVE  SchedulerAlive'
      <3>1. Wakes(job') => Wakes(job)
        BY <1>1, <2>7, <2>13, PreparesMarks
      <3>2. Free("tick") => Free("tick")'
        BY <2>11, <2>13 DEF Prepares
      <3> QED
        BY <1>4, <2>13, <3>1, <3>2 DEF Prepares, services
    <2>14. ASSUME NEW m \in Manual, NEW j \in Job, GivesUp(m, j) \/ FinishesGone(m, j)
           PROVE  SchedulerAlive'
      <3>1. Wakes(job') => Wakes(job)
        BY <2>14 DEF GivesUp, FinishesGone
      <3>2. Free("tick") => Free("tick")'
        BY <2>11, <2>14 DEF GivesUp, FinishesGone
      <3> QED
        BY <1>4, <2>14, <3>1, <3>2 DEF GivesUp, FinishesGone, services
    <2>15. ASSUME NEW m \in Manual, NEW j \in Job, Finishes(m, j)
           PROVE  SchedulerAlive'
      BY <1>2, <2>15 DEF Finishes
    <2>16. ASSUME NEW j \in Job,
                  \/ Add(j) \/ RemoveJob(j) \/ Reschedule(j)
                  \/ \E enabled \in BOOLEAN : Enable(j, enabled)
           PROVE  SchedulerAlive'
      BY <1>2, <2>16 DEF Add, RemoveJob, Reschedule, Enable
    <2>17. ASSUME NEW j \in Job, Elsewhere(j)
           PROVE  SchedulerAlive'
      BY <1>1, <2>17, ElsewhereEffect
    <2> QED
      BY <1>6, <2>1, <2>2, <2>3, <2>4, <2>5, <2>8, <2>9, <2>10, <2>12, <2>13, <2>14, <2>15,
         <2>16, <2>17 DEF Next
  <1> QED
    BY <1>5, <1>6

\* A started scheduler never falls asleep: a timer is pending as long as an enabled
\* job has a next run, but at the end of a tick, which sets one.
THEOREM CronSchedulerAlive == Spec => []SchedulerAlive
  <1>1. Init => NextKnown /\ SchedulerAlive
    BY DEF Init, NextKnown, SchedulerAlive
  <1>2. ClaimInv /\ NextKnown /\ SchedulerAlive /\ [Next]_vars => (NextKnown /\ SchedulerAlive)'
    BY KnownStep, TimerStep
  <1> QED
    BY <1>1, <1>2, ClaimInvAlways, PTL DEF Spec
=============================================================================
