----------------------------- MODULE CronService -----------------------------
(***************************************************************************)
(* The cron scheduler, src/src/cron/service/{ops,timer,jobs}.ts.             *)
(*                                                                          *)
(* Jobs live in one store.  Whatever reads and writes it runs in a section  *)
(* of locked(), one section at a time, so each section is one action; a job *)
(* is executed between two sections, by the timer's tick, by the catch-up   *)
(* of a start, or by a manual run.  What keeps one job from being executed  *)
(* twice at once is its mark, runningAtMs, set in the section before the    *)
(* execution and cleared in the section that applies its result.            *)
(*                                                                          *)
(* A service is replaced when the configuration is reloaded or the gateway   *)
(* restarts in its process.  Stopping one clears its timer only: what it has *)
(* begun goes on, and its tick sets the timer again as it ends.  The module  *)
(* follows the service in place; one that was replaced with work in hand is  *)
(* part of its surroundings, and may rewrite jobs at any moment.             *)
(*                                                                          *)
(* Time is an integer; 0 stands for a time that is undefined.  The store in *)
(* memory and the file are one variable.  The time of a mark, and with it   *)
(* the clearing of marks older than two hours, is left out, and so are      *)
(* schedules that cannot be computed and a store that cannot be written.    *)
(***************************************************************************)
EXTENDS Integers, Sequences, FiniteSets

CONSTANTS
    Job,            \* the ids of jobs
    Manual,         \* the manual runs in flight at once
    Schedules,      \* the kinds of schedule the jobs may have
    Period,         \* the period of "every" and "cron" schedules
    At,             \* the time of a one-shot
    Outcome,        \* the outcomes of executions that occur
    DeleteAfterRun, \* the jobs with deleteAfterRun
    Backoff,        \* errorBackoffMs
    MinRefireGap,   \* MIN_REFIRE_GAP_MS
    MaxRetries,     \* retry.maxAttempts of one-shots
    Concurrency,    \* resolveRunConcurrency
    MaxMissed,      \* maxMissedJobsPerRestart
    Stagger,        \* missedJobStaggerMs
    MaxTime,        \* bound: the clock
    Foreign,        \* the jobs that services replaced before may write
    MaxCalls        \* bound: calls of add, update, remove and run, and restarts

Kind == {"at", "every", "cron"}
Owner == {"tick", "catchup"} \cup Manual
Time == 0 .. MaxTime
\* A next run may lie past the end of the clock.
NextTime == 0 .. 2 * MaxTime + Period + At + Backoff + MinRefireGap + Stagger * Cardinality(Job)
StoredJob == [kind : Kind, stored : {"unborn", "stored", "gone"},
              enabled : BOOLEAN, when : NextTime, next : NextTime, mark : BOOLEAN,
              last : Time, status : {"none", "ok", "skipped", "error"},
              errors : 0 .. MaxRetries + 1]

ASSUME CronConstants ==
    /\ IsFiniteSet(Job) /\ Manual \cap {"tick", "catchup"} = {}
    /\ Schedules \subseteq [Job -> Kind]
    /\ DeleteAfterRun \subseteq Job
    /\ Outcome \subseteq {"ok", "skipped", "transient", "permanent"}
    /\ {Period, At, Backoff, Concurrency, Stagger, MaxTime} \subseteq Nat \ {0}
    /\ {MinRefireGap, MaxRetries, MaxMissed, MaxCalls} \subseteq Nat
    /\ Foreign \subseteq StoredJob /\ \A r \in Foreign : r.stored # "unborn"

VARIABLES
    now,         \* deps.nowMs
    job,         \* the store
    phase,       \* how far start() is
    interrupted, \* startupInterruptedJobIds
    deferred,    \* plan.deferredJobIds
    run,         \* the executions each owner has claimed
    ticking,     \* state.running
    timer,       \* whether the timeout behind state.timer is pending
    attached,    \* the jobs a tick holds are still those of the store
    force,       \* the manual runs with mode "force"
    calls,
    overlap,     \* observed: a service replaced before may still be at work
    unmarked     \* observed: claimed jobs whose mark was cleared meanwhile

services == <<calls, overlap>>
vars == <<now, job, phase, interrupted, deferred, run, ticking, timer, attached, force,
          services, unmarked>>

Idle == [at |-> "idle", began |-> 0, ended |-> 0, outcome |-> "none"]

TypeOK ==
    /\ now \in Time \ {0}
    /\ job \in [Job -> StoredJob]
    /\ phase \in {"stopped", "planning", "catchup", "recomputing", "started"}
    /\ interrupted \subseteq Job
    /\ deferred \in Seq(Job)
    /\ run \in [Owner -> [Job -> [at : {"idle", "ready", "waiting", "running", "ended"},
                                  began : Time, ended : Time,
                                  outcome : Outcome \cup {"none"}]]]
    /\ {ticking, timer, attached, overlap} \subseteq BOOLEAN
    /\ force \subseteq Manual
    /\ calls \in 0 .. MaxCalls
    /\ unmarked \subseteq Job

Stored(j) == job[j].stored = "stored"
Due(j) == job[j].enabled /\ job[j].next # 0 /\ now >= job[j].next
Claimed(o, j) == run[o][j].at \in {"waiting", "running", "ended"}
Claimants(j) == {o \in Owner : Claimed(o, j)}

-----------------------------------------------------------------------------
(* Next runs *)

\* computeNextRunAtMs for "every": the first step from the anchor, not before t.
Grid(anchor, t) ==
    IF t < anchor THEN anchor
    ELSE LET steps == (t - anchor + Period - 1) \div Period
         IN anchor + (IF steps > 1 THEN steps ELSE 1) * Period

\* Mutant: a one-shot that has succeeded is due again.
ComputeNextOkAgain(r, t) ==
    IF ~r.enabled THEN 0
    ELSE IF r.kind = "at" THEN r.when
    ELSE IF r.kind = "cron" THEN (t \div Period + 1) * Period
    ELSE IF r.last # 0 /\ r.last + Period > t THEN r.last + Period
    ELSE Grid(r.when, t)

\* computeJobNextRunAtMs
ComputeNext(r, t) ==
    IF ~r.enabled THEN 0
    ELSE IF r.kind = "at" THEN
        IF r.status = "ok" /\ r.when <= r.last THEN 0 ELSE r.when
    ELSE IF r.kind = "cron" THEN (t \div Period + 1) * Period
    ELSE IF r.last # 0 /\ r.last + Period > t THEN r.last + Period
    ELSE Grid(r.when, t)

\* recomputeNextRuns: a next run that is missing or past due.
Recomputed ==
    [j \in Job |->
        LET r == job[j] IN
        IF ~Stored(j) THEN r
        ELSE IF ~r.enabled THEN [r EXCEPT !.next = 0, !.mark = FALSE]
        ELSE IF r.next = 0 \/ now >= r.next THEN [r EXCEPT !.next = ComputeNext(r, now)]
        ELSE r]

\* Mutant: a past-due next run is advanced whether or not it was executed.
MaintainedAdvances(jobs, expired) ==
    [j \in Job |->
        LET r == jobs[j] IN
        IF r.stored # "stored" THEN r
        ELSE IF ~r.enabled THEN [r EXCEPT !.next = 0, !.mark = FALSE]
        ELSE IF r.next = 0 \/ (expired /\ now >= r.next /\ ~r.mark)
             THEN [r EXCEPT !.next = ComputeNext(r, now)]
        ELSE r]

\* recomputeNextRunsForMaintenance: a next run that is missing and, with
\* recomputeExpired, one whose slot has been executed.
Maintained(jobs, expired) ==
    [j \in Job |->
        LET r == jobs[j] IN
        IF r.stored # "stored" THEN r
        ELSE IF ~r.enabled THEN [r EXCEPT !.next = 0, !.mark = FALSE]
        ELSE IF r.next = 0
                \/ (expired /\ now >= r.next /\ ~r.mark /\ r.last >= r.next)
             THEN [r EXCEPT !.next = ComputeNext(r, now)]
        ELSE r]

Later(s, t) == IF s > t THEN s ELSE t

\* applyJobResult: the job after execution e of it.
Applied(j, r, e, preserve) ==
    LET failed == e.outcome \in {"transient", "permanent"}
        errors == IF ~failed THEN 0
                  ELSE IF r.errors > MaxRetries THEN r.errors ELSE r.errors + 1
        done == [r EXCEPT !.mark = FALSE, !.last = e.began, !.errors = errors,
                          !.status = IF failed THEN "error" ELSE e.outcome]
        natural == ComputeNext([done EXCEPT !.last = IF preserve THEN r.last ELSE @], e.ended)
    IN IF r.kind = "at" THEN
            IF e.outcome = "ok" /\ j \in DeleteAfterRun THEN [done EXCEPT !.stored = "gone"]
            ELSE IF e.outcome = "transient" /\ errors <= MaxRetries
                 THEN [done EXCEPT !.next = e.ended + Backoff]
            ELSE [done EXCEPT !.enabled = FALSE, !.next = 0]
       ELSE IF ~r.enabled THEN [done EXCEPT !.next = 0]
       ELSE IF failed THEN [done EXCEPT !.next = Later(natural, e.ended + Backoff)]
       ELSE IF r.kind = "cron" THEN [done EXCEPT !.next = Later(natural, e.ended + MinRefireGap)]
       ELSE [done EXCEPT !.next = natural]

\* applyOutcomeToStoredJob, for all that owner o has executed.
AllApplied(o) ==
    [j \in Job |-> IF Stored(j) /\ run[o][j].at = "ended"
                   THEN Applied(j, job[j], run[o][j], FALSE) ELSE job[j]]

Wakes(jobs) == \E j \in Job : jobs[j].stored = "stored" /\ jobs[j].enabled /\ jobs[j].next # 0

\* armTimer
Arm == timer' = Wakes(job')

\* Mutant: a timer that fires during a tick is not set again.
RecheckNever == FALSE

\* armRunningRecheckTimer
Recheck == TRUE

\* The mark of a job that is claimed, and stays so, was set and is now clear.
Observe ==
    unmarked' = {j \in Job : /\ \E o \in Owner : Claimed(o, j) /\ Claimed(o, j)'
                             /\ j \in unmarked \/ (job[j].mark /\ ~job'[j].mark)}

-----------------------------------------------------------------------------
(* The clock and the process *)

Tick ==
    /\ now < MaxTime
    /\ now' = now + 1
    /\ UNCHANGED <<job, phase, interrupted, deferred, run, ticking, timer, attached, force,
                   services, unmarked>>

\* Another service takes the place of this one, with nothing but the store.
Replaced ==
    /\ calls < MaxCalls /\ calls' = calls + 1
    /\ phase' = "stopped"
    /\ run' = [o \in Owner |-> [j \in Job |-> Idle]]
    /\ interrupted' = {} /\ deferred' = <<>> /\ force' = {}
    /\ ticking' = FALSE /\ timer' = FALSE /\ attached' = TRUE
    /\ unmarked' = {}
    /\ UNCHANGED <<now, job>>

\* What was in flight is gone; the store, with its marks, is left.
Crash ==
    /\ phase # "stopped"
    /\ Replaced
    /\ overlap' = FALSE

\* The service has begun what stop() does not end.
Busy == phase # "started" \/ ticking \/ \E o \in Owner, j \in Job : run[o][j].at # "idle"

\* cron.stop() and the start of the next service, by a reload of the configuration
\* or an in-process restart of the gateway.  A call that waits for its section, or
\* a manual run for its lane, is left to the old service as well.
Reload ==
    /\ Replaced
    /\ overlap' \in {TRUE, overlap \/ Busy}

\* What a service replaced before writes, as it applies a result, collects with a
\* timer that it has set again, or saves a copy of the store that has grown old.
Elsewhere(j) ==
    /\ overlap
    /\ \E r \in Foreign : r.kind = job[j].kind /\ job' = [job EXCEPT ![j] = r]
    /\ UNCHANGED <<now, phase, interrupted, deferred, run, ticking, timer, attached, force,
                   services>>
    /\ Observe

-----------------------------------------------------------------------------
(* start *)

\* start: the marks that a former process has left are cleared.
ClearMarks ==
    /\ phase = "stopped"
    /\ phase' = "planning"
    /\ interrupted' = {j \in Job : Stored(j) /\ job[j].mark}
    /\ job' = [j \in Job |-> IF Stored(j) THEN [job[j] EXCEPT !.mark = FALSE] ELSE job[j]]
    /\ UNCHANGED <<now, deferred, run, ticking, timer, attached, force, services, unmarked>>

\* isErrorBackoffPending
BackoffPending(r) == r.kind # "at" /\ r.status = "error" /\ now < r.last + Backoff

\* isRunnableJob, as a start asks: a slot missed while the process was down.
Missed(j) ==
    LET r == job[j] IN
    /\ Stored(j) /\ r.enabled /\ j \notin interrupted /\ ~r.mark
    /\ \/ r.kind = "at" /\ r.status = "none" /\ Due(j)
       \/ r.kind = "at" /\ r.status = "error" /\ r.next > r.last /\ Due(j)
       \/ r.kind # "at" /\ Due(j)
       \/ /\ r.kind = "cron" /\ ~Due(j) /\ ~(r.next > now /\ BackoffPending(r))
          /\ r.last # 0 /\ ((now - 1) \div Period) * Period > r.last

\* The jobs of S in the order of their next runs.
ByNext(S) ==
    {s \in [1 .. Cardinality(S) -> S] :
        \A m, n \in DOMAIN s :
            m < n => s[m] # s[n] /\ job[s[m]].next <= job[s[n]].next}

\* Mutant: the deferred jobs are marked as well.
PlanMarksAll ==
    LET missed == {j \in Job : Missed(j)}
    IN \E sorted \in ByNext(missed) :
        LET first == {sorted[n] : n \in DOMAIN sorted \cap 1 .. MaxMissed}
        IN /\ phase = "planning"
           /\ phase' = IF missed = {} THEN "recomputing" ELSE "catchup"
           /\ job' = [j \in Job |-> IF j \in missed THEN [job[j] EXCEPT !.mark = TRUE] ELSE job[j]]
           /\ run' = [run EXCEPT !["catchup"] =
                        [j \in Job |-> IF j \in first THEN [@[j] EXCEPT !.at = "waiting"] ELSE @[j]]]
           /\ deferred' = SubSeq(sorted, MaxMissed + 1, Len(sorted))
           /\ UNCHANGED <<now, interrupted, ticking, timer, attached, force, services>>
           /\ Observe

\* planStartupCatchup: the first few that were missed are claimed.
Plan ==
    LET missed == {j \in Job : Missed(j)}
    IN \E sorted \in ByNext(missed) :
        LET first == {sorted[n] : n \in DOMAIN sorted \cap 1 .. MaxMissed}
        IN /\ phase = "planning"
           /\ phase' = IF missed = {} THEN "recomputing" ELSE "catchup"
           /\ job' = [j \in Job |-> IF j \in first THEN [job[j] EXCEPT !.mark = TRUE] ELSE job[j]]
           /\ run' = [run EXCEPT !["catchup"] =
                        [j \in Job |-> IF j \in first THEN [@[j] EXCEPT !.at = "waiting"] ELSE @[j]]]
           /\ deferred' = SubSeq(sorted, MaxMissed + 1, Len(sorted))
           /\ UNCHANGED <<now, interrupted, ticking, timer, attached, force, services>>
           /\ Observe

Free(o) == \A j \in Job : run[o][j].at = "idle"
AllEnded(o) == \A j \in Job : run[o][j].at \in {"idle", "ended"}

\* The jobs deferred are put off, one after the other, if they are still there.
PutOff(jobs) ==
    LET Live(j) == jobs[j].stored = "stored" /\ jobs[j].enabled
        Place(j) == CHOOSE n \in DOMAIN deferred : deferred[n] = j
        Before(j) == {n \in 1 .. Place(j) : Live(deferred[n])}
    IN [j \in Job |-> IF (\E n \in DOMAIN deferred : deferred[n] = j) /\ Live(j)
                       THEN [jobs[j] EXCEPT !.next = now + Stagger * Cardinality(Before(j))]
                       ELSE jobs[j]]

\* applyStartupCatchupOutcomes
CatchupApplies ==
    /\ phase = "catchup" /\ AllEnded("catchup")
    /\ phase' = "recomputing"
    /\ job' = Maintained(PutOff(AllApplied("catchup")), FALSE)
    /\ run' = [run EXCEPT !["catchup"] = [j \in Job |-> Idle]]
    /\ deferred' = <<>>
    /\ UNCHANGED <<now, interrupted, ticking, timer, attached, force, services>>
    /\ Observe

\* The last section of start.
Started ==
    /\ phase = "recomputing"
    /\ phase' = "started"
    /\ job' = Recomputed
    /\ Arm
    /\ interrupted' = {}
    /\ UNCHANGED <<now, deferred, run, ticking, attached, force, services>>
    /\ Observe

-----------------------------------------------------------------------------
(* The timer *)

\* isRunnableJob, as a tick asks.
Runnable(j) == Stored(j) /\ Due(j) /\ ~job[j].mark

\* onTimer, when jobs are due: they are marked and become the batch.
TimerCollects ==
    LET due == {j \in Job : Runnable(j)}
    IN /\ timer /\ ~ticking /\ due # {}
       /\ ticking' = TRUE /\ timer' = Recheck /\ attached' = TRUE
       /\ job' = [j \in Job |-> IF j \in due THEN [job[j] EXCEPT !.mark = TRUE] ELSE job[j]]
       /\ run' = [run EXCEPT !["tick"] =
                    [j \in Job |-> IF j \in due THEN [@[j] EXCEPT !.at = "waiting"] ELSE @[j]]]
       /\ UNCHANGED <<now, phase, interrupted, deferred, force, services>>
       /\ Observe

\* onTimer, when none is.
TimerMaintains ==
    /\ timer /\ ~ticking /\ \A j \in Job : ~Runnable(j)
    /\ ticking' = TRUE /\ timer' = Recheck
    /\ job' = Maintained(job, TRUE)
    /\ UNCHANGED <<now, phase, interrupted, deferred, run, attached, force, services>>
    /\ Observe

\* onTimer during a tick.
TimerRechecks ==
    /\ timer /\ ticking
    /\ timer' = Recheck
    /\ UNCHANGED <<now, job, phase, interrupted, deferred, run, ticking, attached, force,
                   services, unmarked>>

\* A worker of the tick, or the catch-up, executes the next job it holds.  The
\* tick's mark goes to the job it collected, which a reload may have replaced.
Begins(o, j) ==
    /\ o \notin Manual /\ run[o][j].at = "waiting"
    /\ Cardinality({k \in Job : run[o][k].at = "running"}) <
          (IF o = "tick" THEN Concurrency ELSE 1)
    /\ run' = [run EXCEPT ![o][j].at = "running", ![o][j].began = now]
    /\ job' = [job EXCEPT ![j].mark = @ \/ (o = "tick" /\ attached /\ Stored(j))]
    /\ UNCHANGED <<now, phase, interrupted, deferred, ticking, timer, attached, force,
                   services>>
    /\ Observe

\* executeJobCoreWithTimeout settles.
Ends(o, j, outcome) ==
    /\ run[o][j].at = "running"
    /\ run' = [run EXCEPT ![o][j] = [@ EXCEPT !.at = "ended", !.ended = now, !.outcome = outcome]]
    /\ UNCHANGED <<now, job, phase, interrupted, deferred, ticking, timer, attached, force,
                   services, unmarked>>

\* onTimer, when the whole batch has been executed.
TickApplies ==
    /\ AllEnded("tick") /\ ~Free("tick")
    /\ job' = Maintained(AllApplied("tick"), FALSE)
    /\ run' = [run EXCEPT !["tick"] = [j \in Job |-> Idle]]
    /\ UNCHANGED <<now, phase, interrupted, deferred, ticking, timer, attached, force,
                   services>>
    /\ Observe

\* The finally block of onTimer, after the session reaper.
TickEnds ==
    /\ ticking /\ Free("tick")
    /\ UNCHANGED job
    /\ ticking' = FALSE
    /\ Arm
    /\ UNCHANGED <<now, phase, interrupted, deferred, run, attached, force, services, unmarked>>

-----------------------------------------------------------------------------
(* Calls.  The server starts the service before it serves the first. *)

Call == phase # "stopped" /\ calls < MaxCalls /\ calls' = calls + 1

\* inspectManualRunPreflight
Preflight(m, j, forced) ==
    LET maintained == Maintained(job, FALSE)
    IN /\ Call /\ Free(m)
       /\ job' = maintained
       /\ Stored(j) /\ ~maintained[j].mark
       /\ forced \/ (maintained[j].enabled /\ maintained[j].next # 0 /\ now >= maintained[j].next)
       /\ run' = [run EXCEPT ![m][j].at = "ready", ![m][j].began = now]
       /\ force' = IF forced THEN force \cup {m} ELSE force \ {m}
       /\ UNCHANGED <<now, phase, interrupted, deferred, ticking, timer, attached, overlap>>
       /\ Observe

\* Mutant: the mark is not looked at again.
PreparesUnchecked(m, j) ==
    /\ run[m][j].at = "ready" /\ Stored(j)
    /\ job' = [job EXCEPT ![j].mark = TRUE]
    /\ run' = [run EXCEPT ![m][j].at = "running"]
    /\ UNCHANGED <<now, phase, interrupted, deferred, ticking, timer, attached, force,
                   services>>
    /\ Observe

\* prepareManualRun
Prepares(m, j) ==
    /\ run[m][j].at = "ready" /\ Stored(j) /\ ~job[j].mark
    /\ job' = [job EXCEPT ![j].mark = TRUE]
    /\ run' = [run EXCEPT ![m][j].at = "running"]
    /\ UNCHANGED <<now, phase, interrupted, deferred, ticking, timer, attached, force,
                   services>>
    /\ Observe

\* prepareManualRun, when the job is removed, or claimed, since its preflight.
GivesUp(m, j) ==
    /\ run[m][j].at = "ready" /\ ~(Stored(j) /\ ~job[j].mark)
    /\ run' = [run EXCEPT ![m][j] = Idle]
    /\ UNCHANGED <<now, job, phase, interrupted, deferred, ticking, timer, attached, force,
                   services, unmarked>>

\* finishPreparedManualRun
Finishes(m, j) ==
    LET e == run[m][j]
        applied == [job EXCEPT ![j] = Applied(j, @, e, m \in force /\ @.kind = "every")]
    IN /\ e.at = "ended" /\ Stored(j)
       /\ job' = Maintained(applied, TRUE)
       /\ run' = [run EXCEPT ![m][j] = Idle]
       /\ attached' = FALSE
       /\ Arm
       /\ UNCHANGED <<now, phase, interrupted, deferred, ticking, force, services>>
       /\ Observe

\* finishPreparedManualRun, when the job is gone.
FinishesGone(m, j) ==
    /\ run[m][j].at = "ended" /\ ~Stored(j)
    /\ run' = [run EXCEPT ![m][j] = Idle]
    /\ UNCHANGED <<now, job, phase, interrupted, deferred, ticking, timer, attached, force,
                   services>>
    /\ Observe

\* add: createJob, and the next runs of the others.
Add(j) ==
    LET when == IF job[j].kind = "at" THEN At ELSE now
        new == [job[j] EXCEPT !.stored = "stored", !.when = when]
    IN /\ Call /\ job[j].stored = "unborn"
       /\ job' = [Recomputed EXCEPT ![j] = [new EXCEPT !.next = ComputeNext(new, now)]]
       /\ Arm
       /\ UNCHANGED <<now, phase, interrupted, deferred, run, ticking, attached, force, overlap>>
       /\ Observe

\* update with a patch of enabled.
Enable(j, enabled) ==
    LET new == [job[j] EXCEPT !.enabled = enabled]
    IN /\ Call /\ Stored(j)
       /\ job' = [job EXCEPT ![j] = IF enabled THEN [new EXCEPT !.next = ComputeNext(new, now)]
                                    ELSE [new EXCEPT !.next = 0, !.mark = FALSE]]
       /\ Arm
       /\ UNCHANGED <<now, phase, interrupted, deferred, run, ticking, attached, force, overlap>>
       /\ Observe

\* update with a patch of schedule: of an interval, which is anchored anew, or
\* of the time of a one-shot.
Reschedule(j) ==
    LET new == [job[j] EXCEPT !.when = IF job[j].kind = "at" THEN now + 1 ELSE now]
    IN /\ Call /\ Stored(j)
       /\ job' = [job EXCEPT ![j] =
                   IF @.enabled THEN [new EXCEPT !.next = ComputeNext(new, now)]
                   ELSE [new EXCEPT !.next = 0, !.mark = FALSE]]
       /\ Arm
       /\ UNCHANGED <<now, phase, interrupted, deferred, run, ticking, attached, force, overlap>>
       /\ Observe

\* remove
RemoveJob(j) ==
    /\ Call /\ Stored(j)
    /\ job' = [job EXCEPT ![j].stored = "gone"]
    /\ Arm
    /\ UNCHANGED <<now, phase, interrupted, deferred, run, ticking, attached, force, overlap>>
    /\ Observe

\* list and status, and a preflight that refuses: ensureLoadedForRead.
Read ==
    /\ phase # "stopped"
    /\ job' = Maintained(job, FALSE)
    /\ UNCHANGED <<now, phase, interrupted, deferred, run, ticking, timer, attached, force,
                   services>>
    /\ Observe

-----------------------------------------------------------------------------
New(kind) == [kind |-> kind, stored |-> "unborn", enabled |-> TRUE, when |-> 0, next |-> 0,
              mark |-> FALSE, last |-> 0, status |-> "none", errors |-> 0]

\* Jobs that a former process has stored are due at their first time.
Init ==
    /\ now = 1
    /\ \E kinds \in Schedules, old \in SUBSET Job :
        job = [j \in Job |->
                IF j \notin old THEN New(kinds[j])
                ELSE [New(kinds[j]) EXCEPT
                        !.stored = "stored",
                        !.when = IF kinds[j] = "at" THEN At ELSE 0,
                        !.next = IF kinds[j] = "at" THEN At ELSE Period]]
    /\ phase = "stopped"
    /\ interrupted = {} /\ deferred = <<>> /\ force = {}
    /\ run = [o \in Owner |-> [j \in Job |-> Idle]]
    /\ ticking = FALSE /\ timer = FALSE /\ attached = TRUE
    /\ calls = 0 /\ overlap = FALSE
    /\ unmarked = {}

Next ==
    \/ Tick \/ Crash \/ Reload
    \/ ClearMarks \/ Plan \/ CatchupApplies \/ Started
    \/ TimerCollects \/ TimerMaintains \/ TimerRechecks \/ TickApplies \/ TickEnds
    \/ \E o \in Owner, j \in Job : Begins(o, j) \/ (\E outcome \in Outcome : Ends(o, j, outcome))
    \/ \E m \in Manual, j \in Job :
        \/ \E forced \in BOOLEAN : Preflight(m, j, forced)
        \/ Prepares(m, j) \/ GivesUp(m, j) \/ Finishes(m, j) \/ FinishesGone(m, j)
    \/ \E j \in Job :
        \/ Add(j) \/ RemoveJob(j) \/ Reschedule(j) \/ Elsewhere(j)
        \/ \E enabled \in BOOLEAN : Enable(j, enabled)
    \/ Read

Spec == Init /\ [][Next]_vars

-----------------------------------------------------------------------------
(* Properties *)

\* A service claims no job twice at once, and so executes none twice, whichever
\* of its tick, its catch-up and manual runs ask for it, and whatever a service it
\* replaced still writes, unless the mark was cleared under the claim:
\* update(enabled: false) does so (ops.ts:310).  A service and one it replaced do
\* not exclude each other: start clears the marks of what the other one still
\* executes (ops.ts:103-110), and a tick of the other has a copy of its own.
Exclusion == \A j \in Job \ unmarked : Cardinality(Claimants(j)) <= 1

\* No mark is left behind by an execution that is over, by a process that has
\* died, or by a service that was replaced with nothing in hand: it would keep the
\* job from being collected ever again (#17554).
MarkClaimed ==
    ~overlap => \A j \in Job : phase # "stopped" /\ Stored(j) /\ job[j].mark => Claimants(j) # {}

\* A started scheduler never falls asleep: a timer is pending as long as an
\* enabled job has a next run, during a tick as well as between two (#12025).  A
\* tick that has nothing left to execute sets one as it ends.  A next run that
\* another service has written is not looked for until the next timer.
SchedulerAlive ==
    ~overlap /\ phase = "started" /\ Wakes(job) => timer \/ (ticking /\ Free("tick"))

\* The next run of a job that is past due changes only when the slot has been
\* executed, a result of the job is applied, or the job is edited, put off by
\* the catch-up or written by another service (#13992, #16156, #17852).  Two
\* steps are left out: add and the end of start skip the slots of jobs that are
\* past due.
NoSlotSkipped ==
    [][\A j \in Job :
        (Stored(j) /\ Due(j) /\ Stored(j)' /\ job'[j].next # job[j].next) =>
            \/ job[j].last >= job[j].next
            \/ \E o \in Owner : run[o][j].at = "ended" /\ run'[o][j].at = "idle"
            \/ \E n \in DOMAIN deferred : deferred[n] = j
            \/ phase = "recomputing" /\ phase' = "started"
            \/ Reschedule(j) \/ (\E enabled \in BOOLEAN : Enable(j, enabled))
            \/ Elsewhere(j) \/ \E k \in Job : Add(k)]_vars

Spent(r) == r.kind = "at" /\ r.stored = "stored" /\ r.status = "ok" /\ r.last >= r.when

\* A one-shot that has succeeded for its time gets no next run again, whatever
\* is edited, restarted, reloaded or run by hand in between (#13845).  Two steps
\* are left out: the catch-up puts a deferred job off by its enabled flag alone,
\* so one that was run by hand and enabled again meanwhile runs once more, and a
\* service that was replaced may write back an older copy of the job.
OneShotOnce ==
    [][\A j \in Job :
        (Spent(job'[j]) /\ job'[j].next # 0) =>
            \/ Spent(job[j]) /\ job[j].next # 0
            \/ \E n \in DOMAIN deferred : deferred[n] = j
            \/ Elsewhere(j)]_vars

\* Contradicted by the code.  The comment at timer.ts:988-990 has the catch-up
\* preserve the slots that became due while it ran: "They should execute on a
\* future tick instead of being silently advanced."  The next section of start
\* recomputes every next run that is past due (ops.ts:124).
CatchupPreserves ==
    [][phase = "recomputing" /\ phase' = "started" =>
        \A j \in Job \ interrupted :
            (Stored(j) /\ Due(j) /\ ~job[j].mark /\ job[j].last < job[j].next) => Due(j)']_vars

=============================================================================
