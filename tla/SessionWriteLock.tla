--------------------------- MODULE SessionWriteLock ---------------------------
(***************************************************************************)
(* The lock of a session's transcript, src/src/agents/session-write-lock.ts. *)
(*                                                                          *)
(* The lock is a file beside the transcript, created with the flag "wx" and *)
(* then written with the owner's pid.  Within a process the lock is shared: *)
(* HELD_LOCKS counts its holders, and the last one removes the file.        *)
(* Between processes a task that finds the file reads it, and removes it if *)
(* it is stale.  Each await is a step of its own; files are removed by      *)
(* path, so a removal takes whatever file is there by then.                 *)
(*                                                                          *)
(* The owner's start time is taken to be in the file, as it is on Linux: a  *)
(* process that died is then recognised even if its pid is in use again.    *)
(***************************************************************************)
EXTENDS Integers, FiniteSets

CONSTANTS
    Proc,        \* the processes: a gateway, and commands beside it
    NoProc,      \* no process
    Task,        \* what asks for the lock in them
    Of,          \* the process of each task
    Listening,   \* those that listen to signals themselves, as a gateway does
    MaxLocks,    \* bound: lock files that are created
    MaxCrashes,  \* bound: processes that end
    MaxSignals,  \* bound: termination signals that a process survives
    MaxAges,     \* bound: lock files that grow older than staleMs
    MaxForced,   \* bound: locks the watchdog releases
    MaxSweeps    \* bound: runs of cleanStaleLockFiles

ASSUME LockAssumption ==
    /\ IsFiniteSet(Task) /\ Of \in [Task -> Proc] /\ NoProc \notin Proc
    /\ Listening \subseteq Proc
    /\ {MaxLocks, MaxCrashes, MaxSignals, MaxAges, MaxForced, MaxSweeps} \subseteq Nat

VARIABLES
    file,    \* the lock file
    held,    \* HELD_LOCKS of each process: the lock and its count
    pc,      \* where each task is
    mine,    \* the lock each task has made or holds
    seen,    \* the lock file each task has decided to remove
    dog,     \* the lock the watchdog of each process is releasing
    sweep,   \* the lock file the startup of each process is removing
    made,    \* locks made so far: they are numbered from 1
    crashes, signals, ages, forced, sweeps,
    stolen   \* observed: the file of a live lock was removed under it

counters == <<crashes, signals, ages, forced, sweeps>>
vars == <<file, held, pc, mine, seen, dog, sweep, made, counters, stolen>>

Lock == 0 .. MaxLocks
NoFile == [id |-> 0, by |-> NoProc, written |-> FALSE, dead |-> FALSE, old |-> FALSE]
NoHeld == [id |-> 0, count |-> 0]

TypeOK ==
    /\ file \in [id : Lock, by : Proc \cup {NoProc}, written : BOOLEAN, dead : BOOLEAN, old : BOOLEAN]
    /\ held \in [Proc -> [id : Lock, count : Nat]]
    /\ pc \in [Task -> {"idle", "trying", "opened", "written", "holding", "reading",
                        "stat", "removing", "failing", "closing"}]
    /\ mine \in [Task -> Lock] /\ seen \in [Task -> Lock]
    /\ dog \in [Proc -> Lock] /\ sweep \in [Proc -> Lock]
    /\ made \in Lock
    /\ crashes \in 0 .. MaxCrashes /\ signals \in 0 .. MaxSignals /\ ages \in 0 .. MaxAges
    /\ forced \in 0 .. MaxForced /\ sweeps \in 0 .. MaxSweeps
    /\ stolen \in BOOLEAN

Init ==
    /\ file = NoFile
    /\ held = [p \in Proc |-> NoHeld]
    /\ pc = [t \in Task |-> "idle"]
    /\ mine = [t \in Task |-> 0] /\ seen = [t \in Task |-> 0]
    /\ dog = [p \in Proc |-> 0] /\ sweep = [p \in Proc |-> 0]
    /\ made = 0
    /\ crashes = 0 /\ signals = 0 /\ ages = 0 /\ forced = 0 /\ sweeps = 0
    /\ stolen = FALSE

-----------------------------------------------------------------------------
(* The file *)

\* fs.rm(lockPath, { force: true }), on behalf of the tasks in Own.  The lock is
\* live until those who make or hold it have removed the file themselves.
Unlink(Own) ==
    /\ file' = NoFile
    /\ stolen' = (stolen \/ (file.id # 0 /\ \E t \in Task \ Own : mine[t] = file.id))

\* inspectLockPayload, of a file that can be read: dead-pid, recycled-pid, too-old.
Stale == file.written /\ (file.dead \/ file.old)

\* Time passes: the file grows older than staleMs.
Age ==
    /\ ages < MaxAges /\ file.id # 0 /\ ~file.old
    /\ ages' = ages + 1
    /\ file' = [file EXCEPT !.old = TRUE]
    /\ UNCHANGED <<held, pc, mine, seen, dog, sweep, made, crashes, signals, forced, sweeps, stolen>>

-----------------------------------------------------------------------------
(* acquireSessionWriteLock *)

Step(t, from, to) == pc[t] = from /\ pc' = [pc EXCEPT ![t] = to]

\* The lock is held in this process: its holders share it.
Reenter(t) ==
    LET h == held[Of[t]]
    IN /\ h.id # 0
       /\ Step(t, "idle", "holding")
       /\ held' = [held EXCEPT ![Of[t]].count = @ + 1]
       /\ mine' = [mine EXCEPT ![t] = h.id]
       /\ UNCHANGED <<file, seen, dog, sweep, made, counters, stolen>>

Start(t) ==
    /\ held[Of[t]].id = 0
    /\ Step(t, "idle", "trying")
    /\ UNCHANGED <<file, held, mine, seen, dog, sweep, made, counters, stolen>>

\* Mutant: without the flag "wx" an existing file is opened as well.
OpenAny(t) ==
    /\ made < MaxLocks
    /\ Step(t, "trying", "opened")
    /\ made' = made + 1
    /\ file' = [NoFile EXCEPT !.id = made + 1, !.by = Of[t]]
    /\ mine' = [mine EXCEPT ![t] = made + 1]
    /\ UNCHANGED <<held, seen, dog, sweep, counters, stolen>>

\* fs.open(lockPath, "wx")
Open(t) ==
    /\ file.id = 0 /\ made < MaxLocks
    /\ Step(t, "trying", "opened")
    /\ made' = made + 1
    /\ file' = [NoFile EXCEPT !.id = made + 1, !.by = Of[t]]
    /\ mine' = [mine EXCEPT ![t] = made + 1]
    /\ UNCHANGED <<held, seen, dog, sweep, counters, stolen>>

\* handle.writeFile: the content goes to the file that was opened.
Write(t) ==
    /\ Step(t, "opened", "written")
    /\ file' = IF file.id = mine[t] THEN [file EXCEPT !.written = TRUE] ELSE file
    /\ UNCHANGED <<held, mine, seen, dog, sweep, made, counters, stolen>>

\* handle.writeFile fails: the file is removed and the error thrown.
WriteFails(t) ==
    /\ Step(t, "opened", "failing")
    /\ UNCHANGED <<file, held, mine, seen, dog, sweep, made, counters, stolen>>

FailUnlinks(t) ==
    /\ Step(t, "failing", "idle")
    /\ mine' = [mine EXCEPT ![t] = 0]
    /\ Unlink({t})
    /\ UNCHANGED <<held, seen, dog, sweep, made, counters>>

\* HELD_LOCKS.set
Hold(t) ==
    /\ Step(t, "written", "holding")
    /\ held' = [held EXCEPT ![Of[t]] = [id |-> mine[t], count |-> 1]]
    /\ UNCHANGED <<file, mine, seen, dog, sweep, made, counters, stolen>>

\* EEXIST
Exists(t) ==
    /\ file.id # 0
    /\ Step(t, "trying", "reading")
    /\ UNCHANGED <<file, held, mine, seen, dog, sweep, made, counters, stolen>>

\* readLockPayload and inspectLockPayload, of a stale file.
ReadStale(t) ==
    /\ Stale
    /\ Step(t, "reading", "removing")
    /\ seen' = [seen EXCEPT ![t] = file.id]
    /\ UNCHANGED <<file, held, mine, dog, sweep, made, counters, stolen>>

\* Of a file that has no content yet, or is gone: its age decides.
ReadNothing(t) ==
    /\ ~file.written
    /\ Step(t, "reading", "stat")
    /\ UNCHANGED <<file, held, mine, seen, dog, sweep, made, counters, stolen>>

\* Of a file in force: the task sleeps and tries again.
ReadLive(t) ==
    /\ file.written /\ ~Stale
    /\ Step(t, "reading", "trying")
    /\ UNCHANGED <<file, held, mine, seen, dog, sweep, made, counters, stolen>>

\* shouldReclaimContendedLockFile: the modification time of a malformed file.
Stat(t) ==
    /\ Step(t, "stat", IF file.id # 0 /\ file.old THEN "removing" ELSE "trying")
    /\ seen' = IF file.id # 0 /\ file.old THEN [seen EXCEPT ![t] = file.id] ELSE seen
    /\ UNCHANGED <<file, held, mine, dog, sweep, made, counters, stolen>>

\* The stale file is removed: by path, whatever it is by now.
Remove(t) ==
    /\ Step(t, "removing", "trying")
    /\ Unlink({})
    /\ seen' = [seen EXCEPT ![t] = 0]
    /\ UNCHANGED <<held, mine, dog, sweep, made, counters>>

\* timeoutMs has passed.
GiveUp(t) ==
    /\ Step(t, "trying", "idle")
    /\ UNCHANGED <<file, held, mine, seen, dog, sweep, made, counters, stolen>>

-----------------------------------------------------------------------------
(* releaseHeldLock *)

\* The lock is not the one in the map any more, or others hold it too.
ReleaseShare(t) ==
    LET h == held[Of[t]]
    IN /\ h.id # mine[t] \/ h.count > 1
       /\ Step(t, "holding", "idle")
       /\ held' = IF h.id = mine[t] THEN [held EXCEPT ![Of[t]].count = @ - 1] ELSE held
       /\ mine' = [mine EXCEPT ![t] = 0]
       /\ UNCHANGED <<file, seen, dog, sweep, made, counters, stolen>>

\* Mutant: the first of several holders to be done releases the lock.
ReleaseFirst(t) ==
    /\ held[Of[t]].id = mine[t]
    /\ Step(t, "holding", "closing")
    /\ held' = [held EXCEPT ![Of[t]] = NoHeld]
    /\ UNCHANGED <<file, mine, seen, dog, sweep, made, counters, stolen>>

\* The last holder takes the lock from the map, closes the file and removes it.
ReleaseLast(t) ==
    /\ held[Of[t]].id = mine[t] /\ held[Of[t]].count = 1
    /\ Step(t, "holding", "closing")
    /\ held' = [held EXCEPT ![Of[t]] = NoHeld]
    /\ UNCHANGED <<file, mine, seen, dog, sweep, made, counters, stolen>>

ReleaseUnlinks(t) ==
    /\ Step(t, "closing", "idle")
    /\ mine' = [mine EXCEPT ![t] = 0]
    /\ Unlink({t})
    /\ UNCHANGED <<held, seen, dog, sweep, made, counters>>

\* runLockWatchdogCheck: a lock held for longer than maxHoldMs.
Watchdog(p) ==
    /\ forced < MaxForced /\ held[p].id # 0 /\ dog[p] = 0
    /\ forced' = forced + 1
    /\ dog' = [dog EXCEPT ![p] = held[p].id]
    /\ held' = [held EXCEPT ![p] = NoHeld]
    /\ UNCHANGED <<file, pc, mine, seen, sweep, made, crashes, signals, ages, sweeps, stolen>>

WatchdogUnlinks(p) ==
    /\ dog[p] # 0
    /\ dog' = [dog EXCEPT ![p] = 0]
    /\ Unlink({})
    /\ UNCHANGED <<held, pc, mine, seen, sweep, made, counters>>

-----------------------------------------------------------------------------
(* Processes *)

\* What process p was doing is gone; another one takes its place.
Gone(p) ==
    /\ crashes < MaxCrashes
    /\ crashes' = crashes + 1
    /\ pc' = [t \in Task |-> IF Of[t] = p THEN "idle" ELSE pc[t]]
    /\ mine' = [t \in Task |-> IF Of[t] = p THEN 0 ELSE mine[t]]
    /\ seen' = [t \in Task |-> IF Of[t] = p THEN 0 ELSE seen[t]]
    /\ held' = [held EXCEPT ![p] = NoHeld]
    /\ dog' = [dog EXCEPT ![p] = 0]
    /\ sweep' = [sweep EXCEPT ![p] = 0]
    /\ UNCHANGED <<made, signals, ages, forced, sweeps>>

\* The process is killed.
Crash(p) ==
    /\ Gone(p)
    /\ file' = IF file.by = p THEN [file EXCEPT !.dead = TRUE] ELSE file
    /\ UNCHANGED stolen

\* releaseAllLocksSync as the process exits: it removes the file of the lock it
\* holds first.  So does a signal to a process that does not listen to it.
Exit(p) ==
    /\ Gone(p)
    /\ held[p].id # 0
    /\ Unlink({t \in Task : Of[t] = p})

\* handleTerminationSignal in a process that listens to the signal itself: the
\* file is removed, and the process and those who hold the lock go on.
Signalled(p) ==
    /\ signals < MaxSignals /\ p \in Listening /\ held[p].id # 0
    /\ signals' = signals + 1
    /\ held' = [held EXCEPT ![p] = NoHeld]
    /\ Unlink({})
    /\ UNCHANGED <<pc, mine, seen, dog, sweep, made, crashes, ages, forced, sweeps>>

\* cleanStaleLockFiles, as a gateway starts: a file without content is stale too.
SweepReads(p) ==
    /\ sweeps < MaxSweeps /\ sweep[p] = 0
    /\ file.id # 0 /\ (Stale \/ ~file.written)
    /\ sweeps' = sweeps + 1
    /\ sweep' = [sweep EXCEPT ![p] = file.id]
    /\ UNCHANGED <<file, held, pc, mine, seen, dog, made, crashes, signals, ages, forced, stolen>>

SweepUnlinks(p) ==
    /\ sweep[p] # 0
    /\ sweep' = [sweep EXCEPT ![p] = 0]
    /\ Unlink({})
    /\ UNCHANGED <<held, pc, mine, seen, dog, made, counters>>

-----------------------------------------------------------------------------
Acquires(t) ==
    \/ Reenter(t) \/ Start(t) \/ Open(t) \/ Write(t) \/ WriteFails(t) \/ FailUnlinks(t)
    \/ Hold(t) \/ Exists(t) \/ ReadStale(t) \/ ReadNothing(t) \/ ReadLive(t) \/ Stat(t)
    \/ Remove(t) \/ GiveUp(t)

Releases(t) == ReleaseShare(t) \/ ReleaseLast(t) \/ ReleaseUnlinks(t)

Next ==
    \/ Age
    \/ \E t \in Task : Acquires(t) \/ Releases(t)
    \/ \E p \in Proc :
        \/ Watchdog(p) \/ WatchdogUnlinks(p)
        \/ Crash(p) \/ Exit(p) \/ Signalled(p) \/ SweepReads(p) \/ SweepUnlinks(p)

Spec == Init /\ [][Next]_vars

-----------------------------------------------------------------------------
(* Properties *)

Holders == {t \in Task : pc[t] = "holding"}

\* Until the file of a live lock is removed under it, all who hold the lock hold
\* the same one, and so are in one process, and its file is there.
SingleWriter ==
    ~stolen => \A t \in Holders :
        /\ file.id = mine[t]
        /\ \A u \in Holders : Of[u] = Of[t]

\* The file of a live lock is removed only after the watchdog has given the lock
\* up, or when it is older than staleMs, or by a startup that finds it before its
\* content, or by a task that has decided to remove the file there was before, or
\* by a termination signal that the process survives, as a gateway does while its
\* turns still write.  Releasing a lock, failing to make one, and exiting never
\* do it.
StolenOnlyBy ==
    [][(~stolen /\ stolen') =>
        \/ file.old
        \/ \E p \in Proc : WatchdogUnlinks(p) \/ SweepUnlinks(p) \/ Signalled(p)
        \/ \E t \in Task : Remove(t) /\ seen[t] # file.id]_vars

\* Contradicted by the code.  CHANGELOG.md:3963: "enforce single-writer session
\* locks".  Two tasks that find the file of a process that died both remove it, the
\* second one after the first has made its own (session-write-lock.ts:557).
AlwaysSingleWriter == \A t, u \in Holders : Of[t] = Of[u]

=============================================================================
