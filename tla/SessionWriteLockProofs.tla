------------------------ MODULE SessionWriteLockProofs ------------------------
(***************************************************************************)
(* Proofs about SessionWriteLock, for any processes, tasks and bounds.      *)
(*                                                                          *)
(* Neither property is inductive.  What keeps a lock from being removed by  *)
(* its own process is the count of its holders, which must be exact; what   *)
(* keeps it from being removed by a task that has read a stale file is that *)
(* a number, once used, never comes back, so that a file that was stale is  *)
(* nobody's lock.                                                           *)
(***************************************************************************)
EXTENDS SessionWriteLock, FiniteSetTheorems, TLAPS

Making == {"opened", "written", "failing", "closing"}

\* Numbers are handed out in order, and every number in use was handed out.
Numbered ==
    /\ file.id <= made
    /\ \A t \in Task : mine[t] <= made /\ seen[t] <= made
    /\ \A p \in Proc : held[p].id <= made

\* A task has a lock from when it has made the file until it has removed it.
Owning == \A t \in Task : mine[t] # 0 <=> pc[t] \in Making \cup {"holding"}

\* A lock that is being made or removed is one task's alone.
MadeAlone ==
    \A t \in Task : pc[t] \in Making =>
        /\ \A u \in Task : u # t => mine[u] # mine[t]
        /\ \A p \in Proc : held[p].id # mine[t]

\* A lock is shared within one process only.
OneProcess ==
    \A t, u \in Task : mine[t] # 0 /\ mine[t] = mine[u] => Of[t] = Of[u]

\* The holders HELD_LOCKS counts.
Sharing(p) == {t \in Task : Of[t] = p /\ pc[t] = "holding" /\ mine[t] = held[p].id}

Counted ==
    \A p \in Proc : held[p].id # 0 =>
        held[p].count = Cardinality(Sharing(p)) /\ held[p].count > 0

\* The file of a lock in use is marked with its process, which is alive.
InForce ==
    \A t \in Task : mine[t] # 0 /\ mine[t] = file.id => file.by = Of[t] /\ ~file.dead

\* A file a task has decided to remove was stale, and is if it is still there.
DecidedStale ==
    \A t \in Task : seen[t] # 0 /\ seen[t] = file.id => file.old \/ file.dead

\* Until one is stolen, the file is there for every lock in use.
FileThere == ~stolen => \A t \in Task : mine[t] # 0 => file.id = mine[t]

LockInv ==
    /\ TypeOK /\ Numbered /\ Owning /\ MadeAlone /\ OneProcess
    /\ Counted /\ InForce /\ DecidedStale /\ FileThere

-----------------------------------------------------------------------------
\* The lock in the map of a process has a holder there.
LEMMA HolderOfHeld ==
  ASSUME Counted, NEW p \in Proc, held[p].id # 0
  PROVE  \E t \in Task : Of[t] = p /\ pc[t] = "holding" /\ mine[t] = held[p].id
  <1>1. IsFiniteSet(Sharing(p))
    BY LockAssumption, FS_Subset DEF Sharing
  <1>2. Sharing(p) # {}
    BY <1>1, FS_EmptySet DEF Counted
  <1> QED
    BY <1>2 DEF Sharing

\* When the count is one, there is no other holder.
LEMMA LastHolder ==
  ASSUME Counted, NEW t \in Task, pc[t] = "holding", mine[t] # 0,
         held[Of[t]].id = mine[t], held[Of[t]].count = 1
  PROVE  Sharing(Of[t]) = {t}
  <1>1. Of[t] \in Proc
    BY LockAssumption
  <1>2. IsFiniteSet(Sharing(Of[t]))
    BY LockAssumption, FS_Subset DEF Sharing
  <1>3. Cardinality(Sharing(Of[t])) = 1
    BY <1>1 DEF Counted
  <1>4. t \in Sharing(Of[t])
    BY DEF Sharing
  <1> QED
    BY <1>2, <1>3, <1>4, FS_Singleton

LEMMA LockInitially == Init => LockInv
  <1> SUFFICES ASSUME Init PROVE LockInv
    OBVIOUS
  <1> USE LockAssumption DEF Init, NoFile, NoHeld
  <1>1. TypeOK
    <2>1. file \in [id : Lock, by : Proc \cup {NoProc}, written : BOOLEAN, dead : BOOLEAN, old : BOOLEAN]
      BY DEF Lock
    <2>2. held \in [Proc -> [id : Lock, count : Nat]]
      BY DEF Lock
    <2>3. stolen \in BOOLEAN
      BY Zenon
    <2> QED
      BY <2>1, <2>2, <2>3 DEF TypeOK, Lock
  <1>2. Numbered /\ Owning /\ MadeAlone /\ OneProcess /\ Counted
    BY DEF Numbered, Owning, MadeAlone, OneProcess, Counted, Making
  <1>3. InForce /\ DecidedStale /\ FileThere
    BY DEF InForce, DecidedStale, FileThere
  <1> QED
    BY <1>1, <1>2, <1>3 DEF LockInv

-----------------------------------------------------------------------------
(* Types *)

Files == [id : Lock, by : Proc \cup {NoProc}, written : BOOLEAN, dead : BOOLEAN, old : BOOLEAN]

LEMMA NoFileTyped == NoFile \in Files
  <1>1. 0 \in Lock
    BY LockAssumption DEF Lock
  <1> QED
    BY <1>1, Zenon DEF NoFile, Files

LEMMA UnlinkTypes ==
  ASSUME TypeOK, NEW Own \in SUBSET Task, Unlink(Own)
  PROVE  file' \in Files /\ stolen' \in BOOLEAN
  <1>1. file' \in Files
    BY NoFileTyped DEF Unlink
  <1>2. stolen' \in BOOLEAN
    BY Zenon DEF Unlink
  <1> QED
    BY <1>1, <1>2

\* A file stays one when it is written, grows old or loses its process.
LEMMA FilesTyped ==
  ASSUME NEW x \in Files
  PROVE  /\ [x EXCEPT !.written = TRUE] \in Files
         /\ [x EXCEPT !.dead = TRUE] \in Files
         /\ [x EXCEPT !.old = TRUE] \in Files
  BY Zenon DEF Files

\* Each action keeps the types.
LEMMA LockTypes == TypeOK /\ [Next]_vars => TypeOK'
  <1> SUFFICES ASSUME TypeOK, [Next]_vars PROVE TypeOK'
    OBVIOUS
  <1> USE LockAssumption DEF Step, counters
  <1>0. file \in Files
    BY DEF TypeOK, Files
  <1>a. ASSUME file' \in Files,
               held' \in [Proc -> [id : Lock, count : Nat]],
               pc' \in [Task -> {"idle", "trying", "opened", "written", "holding", "reading",
                                  "stat", "removing", "failing", "closing"}],
               mine' \in [Task -> Lock], seen' \in [Task -> Lock],
               dog' \in [Proc -> Lock], sweep' \in [Proc -> Lock],
               made' \in Lock,
               crashes' \in 0 .. MaxCrashes, signals' \in 0 .. MaxSignals, ages' \in 0 .. MaxAges,
               forced' \in 0 .. MaxForced, sweeps' \in 0 .. MaxSweeps,
               stolen' \in BOOLEAN
        PROVE  TypeOK'
    BY <1>a DEF TypeOK, Files
  <1>1. CASE Age
    <2>1. file' \in Files
      BY <1>0, <1>1, FilesTyped DEF Age
    <2> QED
      BY <1>a, <1>1, <2>1 DEF Age, TypeOK
  <1>2. ASSUME NEW t \in Task, Acquires(t) PROVE TypeOK'
    <2>1. CASE Reenter(t)
      <3>1. held' \in [Proc -> [id : Lock, count : Nat]]
        BY <2>1 DEF Reenter, TypeOK
      <3> QED
        BY <1>0, <1>a, <2>1, <3>1 DEF Reenter, TypeOK
    <2>2. CASE Open(t)
      <3>1. made + 1 \in Lock
        BY <2>2 DEF Open, Lock, TypeOK
      <3>2. file' \in Files
        BY <2>2, <3>1 DEF Open, NoFile, Files
      <3> QED
        BY <1>a, <2>2, <3>1, <3>2 DEF Open, TypeOK
    <2>3. CASE Write(t)
      <3>1. file' \in Files
        BY <1>0, <2>3, FilesTyped DEF Write
      <3> QED
        BY <1>a, <2>3, <3>1 DEF Write, TypeOK
    <2>4. CASE FailUnlinks(t)
      BY <1>a, <2>4, UnlinkTypes DEF FailUnlinks, TypeOK, Lock
    <2>5. CASE Hold(t)
      BY <1>0, <1>a, <2>5 DEF Hold, TypeOK
    <2>6. CASE Remove(t)
      BY <1>a, <2>6, UnlinkTypes DEF Remove, TypeOK, Lock
    <2>7. CASE Stat(t)
      <3>1. seen' \in [Task -> Lock]
        BY <2>7 DEF Stat, TypeOK
      <3> QED
        BY <1>0, <1>a, <2>7, <3>1 DEF Stat, TypeOK
    <2>8. CASE Start(t) \/ WriteFails(t) \/ Exists(t) \/ ReadNothing(t) \/ ReadLive(t) \/ GiveUp(t)
      BY <1>0, <1>a, <2>8 DEF Start, WriteFails, Exists, ReadNothing, ReadLive, GiveUp, TypeOK
    <2>9. CASE ReadStale(t)
      BY <1>0, <1>a, <2>9 DEF ReadStale, TypeOK
    <2> QED
      BY <1>2, <2>1, <2>2, <2>3, <2>4, <2>5, <2>6, <2>7, <2>8, <2>9 DEF Acquires
  <1>3. ASSUME NEW t \in Task, Releases(t) PROVE TypeOK'
    <2>1. CASE ReleaseShare(t)
      <3>1. held' \in [Proc -> [id : Lock, count : Nat]]
        <4>1. CASE held[Of[t]].id = mine[t]
          BY <2>1, <4>1 DEF ReleaseShare, TypeOK
        <4>2. CASE held[Of[t]].id # mine[t]
          BY <2>1, <4>2 DEF ReleaseShare, TypeOK
        <4> QED
          BY <4>1, <4>2
      <3> QED
        BY <1>0, <1>a, <2>1, <3>1 DEF ReleaseShare, TypeOK, Lock
    <2>2. CASE ReleaseLast(t)
      BY <1>0, <1>a, <2>2 DEF ReleaseLast, TypeOK, NoHeld, Lock
    <2>3. CASE ReleaseUnlinks(t)
      BY <1>a, <2>3, UnlinkTypes DEF ReleaseUnlinks, TypeOK, Lock
    <2> QED
      BY <1>3, <2>1, <2>2, <2>3 DEF Releases
  <1>4. ASSUME NEW p \in Proc, Watchdog(p) PROVE TypeOK'
    BY <1>0, <1>a, <1>4 DEF Watchdog, TypeOK, NoHeld, Lock
  <1>5. ASSUME NEW p \in Proc, WatchdogUnlinks(p) PROVE TypeOK'
    BY <1>a, <1>5, UnlinkTypes DEF WatchdogUnlinks, TypeOK, Lock
  <1>6. ASSUME NEW p \in Proc, Gone(p), file' \in Files, stolen' \in BOOLEAN PROVE TypeOK'
    BY <1>a, <1>6 DEF Gone, TypeOK, NoHeld, Lock
  <1>7. ASSUME NEW p \in Proc, Crash(p) PROVE TypeOK'
    <2>1. file' \in Files
      BY <1>0, <1>7, FilesTyped DEF Crash
    <2> QED
      BY <1>6, <1>7, <2>1 DEF Crash, TypeOK
  <1>8. ASSUME NEW p \in Proc, Exit(p) PROVE TypeOK'
    <2>1. file' \in Files /\ stolen' \in BOOLEAN
      BY <1>8, UnlinkTypes DEF Exit
    <2> QED
      BY <1>6, <1>8, <2>1 DEF Exit
  <1>8a. ASSUME NEW p \in Proc, Signalled(p) PROVE TypeOK'
    <2>1. file' \in Files /\ stolen' \in BOOLEAN
      BY <1>8a, UnlinkTypes DEF Signalled
    <2> QED
      BY <1>a, <1>8a, <2>1 DEF Signalled, TypeOK, NoHeld, Lock
  <1>9. ASSUME NEW p \in Proc, SweepReads(p) PROVE TypeOK'
    BY <1>0, <1>a, <1>9 DEF SweepReads, TypeOK
  <1>10. ASSUME NEW p \in Proc, SweepUnlinks(p) PROVE TypeOK'
    BY <1>a, <1>10, UnlinkTypes DEF SweepUnlinks, TypeOK, Lock
  <1>11. CASE UNCHANGED vars
    BY <1>11 DEF vars, TypeOK
  <1> QED
    BY <1>1, <1>2, <1>3, <1>4, <1>5, <1>7, <1>8, <1>8a, <1>9, <1>10, <1>11 DEF Next

-----------------------------------------------------------------------------
(* The invariant *)

\* Counts stay exact where the holders and what they hold stay the same.
LEMMA CountedKept ==
  ASSUME Counted,
         \A p \in Proc : held'[p].id = 0 \/ (held'[p] = held[p] /\ Sharing(p)' = Sharing(p))
  PROVE  Counted'
  BY DEF Counted

\* What the invariant says besides types and counts.
Rest == Numbered /\ Owning /\ MadeAlone /\ OneProcess /\ InForce /\ DecidedStale /\ FileThere

LEMMA RestSuffices ==
  ASSUME LockInv, [Next]_vars, Rest', Counted'
  PROVE  LockInv'
  BY LockTypes DEF LockInv, Rest

\* A task that only looks, waits or decides changes nothing the invariant is about.
LEMMA LooksKeep ==
  ASSUME LockInv, NEW t \in Task,
         \/ Start(t) \/ WriteFails(t) \/ Exists(t) \/ ReadStale(t)
         \/ ReadNothing(t) \/ ReadLive(t) \/ Stat(t) \/ GiveUp(t)
  PROVE  Rest' /\ Counted'
  <1> USE DEF LockInv, TypeOK, Step
  <1>1. CASE Start(t) \/ WriteFails(t) \/ Exists(t) \/ ReadNothing(t) \/ ReadLive(t) \/ GiveUp(t)
    <2>1. Rest'
      BY <1>1 DEF Start, WriteFails, Exists, ReadNothing, ReadLive, GiveUp,
           Rest, Numbered, Owning, MadeAlone, OneProcess, InForce, DecidedStale, FileThere, Making
    <2>2. \A p \in Proc : Sharing(p)' = Sharing(p)
      BY <1>1 DEF Start, WriteFails, Exists, ReadNothing, ReadLive, GiveUp, Sharing
    <2>3. held' = held
      BY <1>1 DEF Start, WriteFails, Exists, ReadNothing, ReadLive, GiveUp
    <2> QED
      BY <2>1, <2>2, <2>3, CountedKept
  <1>2. CASE ReadStale(t)
    <2>1. Rest'
      BY <1>2 DEF ReadStale, Stale, Lock,
           Rest, Numbered, Owning, MadeAlone, OneProcess, InForce, DecidedStale, FileThere, Making
    <2>2. \A p \in Proc : Sharing(p)' = Sharing(p)
      BY <1>2 DEF ReadStale, Sharing
    <2> QED
      BY <1>2, <2>1, <2>2, CountedKept DEF ReadStale
  <1>3. CASE Stat(t)
    <2>1. Rest'
      BY <1>3 DEF Stat, Lock,
           Rest, Numbered, Owning, MadeAlone, OneProcess, InForce, DecidedStale, FileThere, Making
    <2>2. \A p \in Proc : Sharing(p)' = Sharing(p)
      BY <1>3 DEF Stat, Sharing
    <2> QED
      BY <1>3, <2>1, <2>2, CountedKept DEF Stat
  <1> QED
    BY <1>1, <1>2, <1>3

\* A holder joins the lock of its process.
LEMMA ReenterKeeps ==
  ASSUME LockInv, NEW t \in Task, Reenter(t)
  PROVE  Rest' /\ Counted'
  <1> DEFINE q == Of[t]
  <1> USE DEF LockInv, TypeOK, Step
  <1>0. q \in Proc
    BY LockAssumption
  <1>1. PICK u \in Task : Of[u] = q /\ pc[u] = "holding" /\ mine[u] = held[q].id
    BY <1>0, HolderOfHeld DEF Reenter
  <1>2. mine[t] = 0 /\ pc[t] = "idle"
    BY DEF Reenter, Owning, Making
  <1>3. held'[q].id = held[q].id /\ held'[q].count = held[q].count + 1
    BY <1>0 DEF Reenter
  <1>4. \A p \in Proc : p # q => held'[p] = held[p]
    BY DEF Reenter
  <1>5. mine' = [mine EXCEPT ![t] = held[q].id]
    BY DEF Reenter
  <1>6. Rest'
    <2>1. Numbered'
      BY <1>0, <1>3, <1>4, <1>5 DEF Reenter, Numbered
    <2>2. Owning'
      BY <1>5 DEF Reenter, Owning, Making
    <2>3. MadeAlone'
      BY <1>0, <1>1, <1>3, <1>4, <1>5 DEF Reenter, MadeAlone, Making
    <2>4. OneProcess'
      BY <1>1, <1>5 DEF Reenter, OneProcess
    <2>5. InForce' /\ DecidedStale' /\ FileThere'
      BY <1>1, <1>5 DEF Reenter, InForce, DecidedStale, FileThere
    <2> QED
      BY <2>1, <2>2, <2>3, <2>4, <2>5 DEF Rest
  <1>7. Counted'
    <2>2. t \notin Sharing(q) /\ IsFiniteSet(Sharing(q))
      BY <1>2, LockAssumption, FS_Subset DEF Sharing
    <2>3. Cardinality(Sharing(q) \cup {t}) = Cardinality(Sharing(q)) + 1
      BY <2>2, FS_AddElement
    <2>4. \A p \in Proc : p # q => Sharing(p)' = Sharing(p)
      BY <1>2, <1>4, <1>5 DEF Reenter, Sharing
    <2>5. held[q].id # 0 /\ held[q].count \in Nat
      BY <1>0 DEF Reenter
    <2>6. ASSUME NEW p \in Proc, held'[p].id # 0
          PROVE  held'[p].count = Cardinality(Sharing(p)') /\ held'[p].count > 0
      <3>1. CASE p = q
        <4>1. Sharing(p)' = Sharing(q) \cup {t}
          BY <1>0, <1>2, <1>3, <1>5, <3>1 DEF Reenter, Sharing
        <4>2. held[q].count = Cardinality(Sharing(q)) /\ held[q].count > 0
          BY <1>0, <2>5 DEF Counted
        <4> QED
          BY <1>3, <2>3, <2>5, <3>1, <4>1, <4>2
      <3>2. CASE p # q
        BY <1>4, <2>4, <2>6, <3>2 DEF Counted
      <3> QED
        BY <3>1, <3>2
    <2> QED
      BY <2>6 DEF Counted
  <1> QED
    BY <1>6, <1>7

\* A new lock has a number nobody has.
LEMMA OpenKeeps ==
  ASSUME LockInv, NEW t \in Task, Open(t)
  PROVE  Rest' /\ Counted'
  <1> USE DEF LockInv, TypeOK, Step
  <1>0. Of[t] \in Proc
    BY LockAssumption
  <1>1. made \in Nat /\ made' = made + 1
    BY LockAssumption DEF Open, Lock
  <1>2. /\ file'.id = made + 1 /\ file'.by = Of[t] /\ ~file'.dead
        /\ file'.id # 0
    BY <1>1 DEF Open, NoFile
  <1>3. \A u \in Task : mine[u] <= made /\ seen[u] <= made /\ mine[u] \in Nat /\ seen[u] \in Nat
    BY LockAssumption DEF Numbered, Lock
  <1>4. \A p \in Proc : held[p].id <= made /\ held[p].id \in Nat
    BY LockAssumption DEF Numbered, Lock
  <1>5. mine' = [mine EXCEPT ![t] = made + 1] /\ seen' = seen /\ held' = held /\ stolen' = stolen
    BY DEF Open
  <1>6. pc[t] = "trying" /\ pc' = [pc EXCEPT ![t] = "opened"] /\ mine[t] = 0
    BY DEF Open, Owning, Making
  <1>7. Numbered'
    BY <1>1, <1>2, <1>3, <1>4, <1>5 DEF Numbered
  <1>8. Owning'
    BY <1>1, <1>5, <1>6 DEF Owning, Making
  <1>9. MadeAlone'
    BY <1>1, <1>3, <1>4, <1>5, <1>6 DEF MadeAlone, Making
  <1>10. OneProcess'
    BY <1>1, <1>3, <1>5 DEF OneProcess
  <1>11. InForce' /\ DecidedStale'
    BY <1>1, <1>2, <1>3, <1>5 DEF InForce, DecidedStale
  <1>12. FileThere'
    BY <1>1, <1>2, <1>5 DEF Open, FileThere
  <1>13. \A p \in Proc : Sharing(p)' = Sharing(p)
    BY <1>5, <1>6 DEF Sharing
  <1>14. Counted'
    BY <1>5, <1>13, CountedKept
  <1> QED
    BY <1>7, <1>8, <1>9, <1>10, <1>11, <1>12, <1>14 DEF Rest

\* Writing the file, and its growing old, do not touch who has the lock.
LEMMA ContentKeeps ==
  ASSUME LockInv, Age \/ \E t \in Task : Write(t)
  PROVE  Rest' /\ Counted'
  <1>1. /\ file'.id = file.id /\ file'.by = file.by /\ file'.dead = file.dead
        /\ file.old => file'.old
    BY DEF Age, Write, Step, LockInv, TypeOK
  <1>2. mine' = mine /\ seen' = seen /\ held' = held /\ made' = made /\ stolen' = stolen
    BY DEF Age, Write
  <1>3. ASSUME NEW t \in Task
        PROVE  /\ pc'[t] = "holding" <=> pc[t] = "holding"
               /\ pc'[t] \in Making <=> pc[t] \in Making
    BY DEF Age, Write, Step, Making, LockInv, TypeOK
  <1>4. Numbered' /\ OneProcess' /\ FileThere'
    BY <1>1, <1>2 DEF LockInv, Numbered, OneProcess, FileThere
  <1>5. Owning'
    BY <1>2, <1>3 DEF LockInv, Owning
  <1>6. MadeAlone'
    BY <1>2, <1>3 DEF LockInv, MadeAlone
  <1>7. InForce' /\ DecidedStale'
    BY <1>1, <1>2 DEF LockInv, InForce, DecidedStale
  <1>8. \A p \in Proc : Sharing(p)' = Sharing(p)
    BY <1>2, <1>3 DEF Sharing
  <1>9. Counted'
    BY <1>2, <1>8, CountedKept DEF LockInv
  <1> QED
    BY <1>4, <1>5, <1>6, <1>7, <1>9 DEF Rest

\* The lock is put into the map, with the task that has made it as its holder.
LEMMA HoldKeeps ==
  ASSUME LockInv, NEW t \in Task, Hold(t)
  PROVE  Rest' /\ Counted'
  <1> DEFINE q == Of[t]
  <1> USE DEF LockInv, TypeOK, Step
  <1>0. q \in Proc
    BY LockAssumption
  <1>1. held'[q].id = mine[t] /\ held'[q].count = 1
    BY <1>0 DEF Hold
  <1>2. \A p \in Proc : p # q => held'[p] = held[p]
    BY DEF Hold
  <1>3. pc[t] = "written" /\ pc' = [pc EXCEPT ![t] = "holding"] /\ mine' = mine
    BY DEF Hold
  <1>4. \A u \in Task : u # t => mine[u] # mine[t]
    BY <1>3 DEF MadeAlone, Making
  <1>5. Numbered'
    BY <1>0, <1>1, <1>2 DEF Hold, Numbered
  <1>6. Owning'
    BY <1>3 DEF Owning, Making
  <1>7. MadeAlone'
    BY <1>0, <1>1, <1>2, <1>3, <1>4 DEF MadeAlone, Making
  <1>8. OneProcess' /\ InForce' /\ DecidedStale' /\ FileThere'
    BY DEF Hold, OneProcess, InForce, DecidedStale, FileThere
  <1>10. Cardinality({t}) = 1
    BY FS_Singleton
  <1>11. \A p \in Proc : p # q => Sharing(p)' = Sharing(p)
    BY <1>2, <1>3 DEF Sharing
  <1>12. ASSUME NEW p \in Proc, held'[p].id # 0
         PROVE  held'[p].count = Cardinality(Sharing(p)') /\ held'[p].count > 0
    <2>1. CASE p = q
      <3>1. Sharing(p)' = {t}
        BY <1>1, <1>3, <1>4, <2>1 DEF Sharing
      <3> QED
        BY <1>1, <1>10, <2>1, <3>1
    <2>2. CASE p # q
      BY <1>2, <1>11, <1>12, <2>2 DEF Counted
    <2> QED
      BY <2>1, <2>2
  <1>13. Counted'
    BY <1>12 DEF Counted
  <1> QED
    BY <1>5, <1>6, <1>7, <1>8, <1>13 DEF Rest

\* A removal takes the file away, and says so if the lock was somebody's.
LEMMA UnlinkKeeps ==
  ASSUME LockInv, NEW Own \in SUBSET Task, Unlink(Own), made' = made,
         \A t \in Own : mine'[t] = 0,
         \A t \in Task : mine'[t] = mine[t] \/ mine'[t] = 0,
         \A t \in Task : seen'[t] = seen[t] \/ seen'[t] = 0,
         \A p \in Proc : held'[p] = held[p] \/ held'[p] = NoHeld
  PROVE  Numbered' /\ InForce' /\ DecidedStale' /\ FileThere'
  <1>1. file'.id = 0 /\ file'.old = FALSE
    BY DEF Unlink, NoFile
  <1>2. made \in Nat
    BY LockAssumption DEF LockInv, TypeOK, Lock
  <1>3. Numbered'
    BY <1>1, <1>2 DEF LockInv, Numbered, NoHeld
  <1>4. InForce' /\ DecidedStale'
    BY <1>1 DEF InForce, DecidedStale
  <1>5. FileThere'
    <2>1. SUFFICES ASSUME ~stolen', NEW t \in Task, mine'[t] # 0 PROVE FALSE
      BY DEF FileThere
    <2>2. mine[t] # 0 /\ t \in Task \ Own
      BY <2>1
    <2>3. ~stolen /\ ~(file.id # 0 /\ \E u \in Task \ Own : mine[u] = file.id)
      BY <2>1 DEF Unlink
    <2>4. file.id = mine[t]
      BY <2>2, <2>3 DEF LockInv, FileThere
    <2> QED
      BY <2>2, <2>3, <2>4
  <1> QED
    BY <1>3, <1>4, <1>5

\* A task removes the file it has made, or one it takes for stale.
LEMMA TaskUnlinksKeep ==
  ASSUME LockInv, NEW t \in Task, FailUnlinks(t) \/ ReleaseUnlinks(t) \/ Remove(t)
  PROVE  Rest' /\ Counted'
  <1>1. CASE FailUnlinks(t) \/ ReleaseUnlinks(t)
    <2> USE DEF LockInv, TypeOK, Step
    <2>1. /\ Unlink({t}) /\ made' = made /\ seen' = seen /\ held' = held
          /\ mine' = [mine EXCEPT ![t] = 0] /\ pc' = [pc EXCEPT ![t] = "idle"]
          /\ pc[t] \in Making
      BY <1>1 DEF FailUnlinks, ReleaseUnlinks, Making
    <2>2. mine'[t] = 0 /\ \A u \in Task : u # t => mine'[u] = mine[u] /\ pc'[u] = pc[u]
      BY <2>1
    <2>3. Numbered' /\ InForce' /\ DecidedStale' /\ FileThere'
      BY <2>1, <2>2, UnlinkKeeps
    <2>4. Owning' /\ MadeAlone' /\ OneProcess'
      BY <2>1, <2>2 DEF Owning, MadeAlone, OneProcess, Making
    <2>5. \A p \in Proc : Sharing(p)' = Sharing(p)
      BY <2>1 DEF Sharing, Making
    <2> QED
      BY <2>1, <2>3, <2>4, <2>5, CountedKept DEF Rest
  <1>2. CASE Remove(t)
    <2> USE DEF LockInv, TypeOK, Step
    <2>1. /\ Unlink({}) /\ made' = made /\ mine' = mine /\ held' = held
          /\ seen' = [seen EXCEPT ![t] = 0] /\ pc' = [pc EXCEPT ![t] = "trying"]
          /\ pc[t] = "removing"
      BY <1>2 DEF Remove
    <2>2. Numbered' /\ InForce' /\ DecidedStale' /\ FileThere'
      BY <2>1, UnlinkKeeps
    <2>3. Owning' /\ MadeAlone' /\ OneProcess'
      BY <2>1 DEF Owning, MadeAlone, OneProcess, Making
    <2>4. \A p \in Proc : Sharing(p)' = Sharing(p)
      BY <2>1 DEF Sharing
    <2> QED
      BY <2>1, <2>2, <2>3, <2>4, CountedKept DEF Rest
  <1> QED
    BY <1>1, <1>2

\* One of several holders lets go, or one whose lock the watchdog has taken.
LEMMA ReleaseShareKeeps ==
  ASSUME LockInv, NEW t \in Task, ReleaseShare(t)
  PROVE  Rest' /\ Counted'
  <1> DEFINE q == Of[t]
  <1> USE DEF LockInv, TypeOK, Step
  <1>0. q \in Proc
    BY LockAssumption
  <1>1. /\ pc[t] = "holding" /\ pc' = [pc EXCEPT ![t] = "idle"]
        /\ mine' = [mine EXCEPT ![t] = 0] /\ mine[t] # 0
        /\ file' = file /\ seen' = seen /\ made' = made /\ stolen' = stolen
    BY DEF ReleaseShare, Owning
  <1>2. \A p \in Proc : held'[p].id = held[p].id
    BY <1>0 DEF ReleaseShare
  <1>3. \A p \in Proc : p # q => held'[p] = held[p]
    BY <1>0 DEF ReleaseShare
  <1>4. Rest'
    <2>1. Numbered' /\ InForce' /\ DecidedStale' /\ FileThere'
      BY <1>1, <1>2 DEF Numbered, InForce, DecidedStale, FileThere, Lock
    <2>2. Owning' /\ MadeAlone' /\ OneProcess'
      BY <1>1, <1>2 DEF Owning, MadeAlone, OneProcess, Making
    <2> QED
      BY <2>1, <2>2 DEF Rest
  <1>5. \A p \in Proc : p # q => Sharing(p)' = Sharing(p)
    BY <1>1, <1>2 DEF Sharing
  <1>6. ASSUME NEW p \in Proc, held'[p].id # 0
        PROVE  held'[p].count = Cardinality(Sharing(p)') /\ held'[p].count > 0
    <2>1. CASE p # q
      BY <1>3, <1>5, <1>6, <2>1 DEF Counted
    <2>2. CASE p = q /\ held[q].id # mine[t]
      <3>1. Sharing(p)' = Sharing(p)
        BY <1>0, <1>1, <1>2, <2>2 DEF Sharing
      <3>2. held' = held
        BY <2>2 DEF ReleaseShare
      <3> QED
        BY <1>6, <3>1, <3>2 DEF Counted
    <2>3. CASE p = q /\ held[q].id = mine[t]
      <3>1. Sharing(p)' = Sharing(p) \ {t} /\ t \in Sharing(p)
        BY <1>0, <1>1, <1>2, <2>3 DEF Sharing
      <3>2. IsFiniteSet(Sharing(p))
        BY LockAssumption, FS_Subset DEF Sharing
      <3>3. Cardinality(Sharing(p) \ {t}) = Cardinality(Sharing(p)) - 1
        BY <3>1, <3>2, FS_RemoveElement
      <3>4. held'[p].count = held[p].count - 1 /\ held[p].count > 1 /\ held[p].count \in Nat
        BY <1>0, <2>3 DEF ReleaseShare
      <3>5. held[p].count = Cardinality(Sharing(p))
        BY <1>2, <1>6 DEF Counted
      <3> QED
        BY <3>1, <3>3, <3>4, <3>5
    <2> QED
      BY <2>1, <2>2, <2>3
  <1>7. Counted'
    BY <1>6 DEF Counted
  <1> QED
    BY <1>4, <1>7

\* The last holder is alone with the lock it takes from the map.
LEMMA ReleaseLastKeeps ==
  ASSUME LockInv, NEW t \in Task, ReleaseLast(t)
  PROVE  Rest' /\ Counted'
  <1> DEFINE q == Of[t]
  <1> USE DEF LockInv, TypeOK, Step
  <1>0. q \in Proc
    BY LockAssumption
  <1>1. /\ pc[t] = "holding" /\ pc' = [pc EXCEPT ![t] = "closing"] /\ mine[t] # 0
        /\ held[q].id = mine[t] /\ held[q].count = 1
        /\ mine' = mine /\ file' = file /\ seen' = seen /\ made' = made /\ stolen' = stolen
    BY DEF ReleaseLast, Owning
  <1>2. held'[q].id = 0 /\ \A p \in Proc : p # q => held'[p] = held[p]
    BY <1>0 DEF ReleaseLast, NoHeld
  <1>3. \A u \in Task : u # t => mine[u] # mine[t]
    <2>1. SUFFICES ASSUME NEW u \in Task, u # t, mine[u] = mine[t] PROVE FALSE
      OBVIOUS
    <2>2. pc[u] = "holding"
      BY <1>1, <2>1 DEF Owning, MadeAlone
    <2>3. Of[u] = q
      BY <1>1, <2>1 DEF OneProcess
    <2>4. u \in Sharing(q)
      BY <1>1, <2>1, <2>2, <2>3 DEF Sharing
    <2>5. Sharing(q) = {t}
      BY <1>1, LastHolder
    <2> QED
      BY <2>1, <2>4, <2>5
  <1>4. \A p \in Proc : p # q => held[p].id # mine[t]
    <2>1. SUFFICES ASSUME NEW p \in Proc, p # q, held[p].id = mine[t] PROVE FALSE
      OBVIOUS
    <2>2. PICK u \in Task : Of[u] = p /\ mine[u] = held[p].id
      BY <1>1, <2>1, HolderOfHeld
    <2> QED
      BY <1>1, <1>3, <2>1, <2>2
  <1>5. Owning' /\ OneProcess' /\ InForce' /\ DecidedStale' /\ FileThere'
    BY <1>1 DEF Owning, OneProcess, InForce, DecidedStale, FileThere, Making
  <1>9. Numbered'
    <2>1. made \in Nat
      BY LockAssumption DEF Lock
    <2> QED
      BY <1>0, <1>1, <1>2, <2>1 DEF Numbered
  <1>6. MadeAlone'
    BY <1>0, <1>1, <1>2, <1>3, <1>4 DEF Owning, MadeAlone, Making
  <1>7. \A p \in Proc : p # q => Sharing(p)' = Sharing(p)
    BY <1>1, <1>2 DEF Sharing
  <1>8. Counted'
    BY <1>2, <1>7, CountedKept
  <1> QED
    BY <1>5, <1>6, <1>8, <1>9 DEF Rest

\* The watchdog takes the lock from the map, and then removes the file.
LEMMA WatchdogKeeps ==
  ASSUME LockInv, NEW p \in Proc, Watchdog(p)
  PROVE  Rest' /\ Counted'
  <1>1. /\ held'[p].id = 0 /\ \A q \in Proc : q # p => held'[q] = held[q]
        /\ file' = file /\ pc' = pc /\ mine' = mine /\ seen' = seen /\ made' = made /\ stolen' = stolen
    BY DEF Watchdog, NoHeld, LockInv, TypeOK
  <1>2. made \in Nat
    BY LockAssumption DEF LockInv, TypeOK, Lock
  <1>3. Numbered' /\ Owning' /\ OneProcess' /\ InForce' /\ DecidedStale' /\ FileThere'
    BY <1>1, <1>2 DEF LockInv, Numbered, Owning, OneProcess, InForce, DecidedStale, FileThere
  <1>4. MadeAlone'
    BY <1>1 DEF LockInv, Owning, MadeAlone
  <1>5. \A q \in Proc : q # p => Sharing(q)' = Sharing(q)
    BY <1>1 DEF Sharing
  <1>6. Counted'
    BY <1>1, <1>5, CountedKept DEF LockInv
  <1> QED
    BY <1>3, <1>4, <1>6 DEF Rest

\* A signal takes the lock from the map and removes the file at once.
LEMMA SignalledKeeps ==
  ASSUME LockInv, NEW p \in Proc, Signalled(p)
  PROVE  Rest' /\ Counted'
  <1>1. /\ held'[p] = NoHeld /\ \A q \in Proc : q # p => held'[q] = held[q]
        /\ Unlink({}) /\ pc' = pc /\ mine' = mine /\ seen' = seen /\ made' = made
    BY DEF Signalled, LockInv, TypeOK
  <1>2. \A q \in Proc : held'[q] = held[q] \/ held'[q] = NoHeld
    BY <1>1
  <1>3. Numbered' /\ InForce' /\ DecidedStale' /\ FileThere'
    BY <1>1, <1>2, UnlinkKeeps
  <1>4. Owning' /\ OneProcess'
    BY <1>1 DEF LockInv, Owning, OneProcess
  <1>5. MadeAlone'
    BY <1>1 DEF LockInv, Owning, MadeAlone, NoHeld
  <1>6. \A q \in Proc : q # p => Sharing(q)' = Sharing(q)
    BY <1>1 DEF Sharing
  <1>7. Counted'
    BY <1>1, <1>6, CountedKept DEF LockInv, NoHeld
  <1> QED
    BY <1>3, <1>4, <1>5, <1>7 DEF Rest

LEMMA ProcessUnlinksKeep ==
  ASSUME LockInv, NEW p \in Proc, WatchdogUnlinks(p) \/ SweepUnlinks(p)
  PROVE  Rest' /\ Counted'
  <1>1. /\ Unlink({}) /\ held' = held /\ pc' = pc
        /\ mine' = mine /\ seen' = seen /\ made' = made
    BY DEF WatchdogUnlinks, SweepUnlinks
  <1>2. Numbered' /\ InForce' /\ DecidedStale' /\ FileThere'
    BY <1>1, UnlinkKeeps
  <1>3. Owning' /\ MadeAlone' /\ OneProcess'
    BY <1>1 DEF LockInv, Owning, MadeAlone, OneProcess
  <1>4. \A q \in Proc : Sharing(q)' = Sharing(q)
    BY <1>1 DEF Sharing
  <1> QED
    BY <1>1, <1>2, <1>3, <1>4, CountedKept DEF LockInv, Rest

LEMMA SweepReadsKeeps ==
  ASSUME LockInv, NEW p \in Proc, SweepReads(p)
  PROVE  Rest' /\ Counted'
  <1>1. /\ file' = file /\ stolen' = stolen /\ held' = held /\ pc' = pc
        /\ mine' = mine /\ seen' = seen /\ made' = made
    BY DEF SweepReads
  <1>2. Rest'
    BY <1>1 DEF LockInv, Rest, Numbered, Owning, MadeAlone, OneProcess, InForce, DecidedStale, FileThere
  <1>3. \A q \in Proc : Sharing(q)' = Sharing(q)
    BY <1>1 DEF Sharing
  <1> QED
    BY <1>1, <1>2, <1>3, CountedKept DEF LockInv

\* With a process goes what its tasks had, and nothing of the others.
LEMMA GoneKeeps ==
  ASSUME LockInv, NEW p \in Proc, Gone(p)
  PROVE  /\ Owning' /\ MadeAlone' /\ OneProcess' /\ Counted'
         /\ made' = made /\ held'[p] = NoHeld
         /\ \A q \in Proc : q # p => held'[q] = held[q]
         /\ \A t \in Task : Of[t] = p => mine'[t] = 0 /\ seen'[t] = 0 /\ pc'[t] = "idle"
         /\ \A t \in Task : Of[t] # p => mine'[t] = mine[t] /\ seen'[t] = seen[t] /\ pc'[t] = pc[t]
  <1>1. /\ made' = made /\ held'[p] = NoHeld
        /\ \A q \in Proc : q # p => held'[q] = held[q]
        /\ \A t \in Task : Of[t] = p => mine'[t] = 0 /\ seen'[t] = 0 /\ pc'[t] = "idle"
        /\ \A t \in Task : Of[t] # p => mine'[t] = mine[t] /\ seen'[t] = seen[t] /\ pc'[t] = pc[t]
    BY DEF Gone, LockInv, TypeOK
  <1>2. Owning' /\ OneProcess'
    BY <1>1 DEF LockInv, Owning, OneProcess, Making
  <1>3. MadeAlone'
    BY <1>1 DEF LockInv, Owning, MadeAlone, Making, NoHeld
  <1>4. \A q \in Proc : q # p => Sharing(q)' = Sharing(q)
    BY <1>1 DEF Sharing
  <1>5. Counted'
    BY <1>1, <1>4, CountedKept DEF LockInv, NoHeld
  <1> QED
    BY <1>1, <1>2, <1>3, <1>5

LEMMA CrashKeeps ==
  ASSUME LockInv, NEW p \in Proc, Crash(p)
  PROVE  Rest' /\ Counted'
  <1>1. Gone(p) /\ stolen' = stolen
    BY DEF Crash
  <1>2. /\ file'.id = file.id /\ file'.by = file.by /\ file'.old = file.old
        /\ file'.dead = IF file.by = p THEN TRUE ELSE file.dead
        /\ file.by # p => file' = file
    <2>1. CASE file.by = p
      BY <2>1 DEF Crash, LockInv, TypeOK
    <2>2. CASE file.by # p
      BY <2>2, Zenon DEF Crash
    <2> QED
      BY <2>1, <2>2
  <1>3. made \in Nat
    BY LockAssumption DEF LockInv, TypeOK, Lock
  <1>4. Numbered'
    BY <1>1, <1>2, <1>3, GoneKeeps DEF LockInv, Numbered, NoHeld
  <1>5. InForce'
    <2>1. SUFFICES ASSUME NEW t \in Task, mine'[t] # 0, mine'[t] = file'.id
                   PROVE  file'.by = Of[t] /\ ~file'.dead
      BY DEF InForce
    <2>2. Of[t] # p /\ mine'[t] = mine[t]
      BY <1>1, <2>1, GoneKeeps
    <2>3. file.by = Of[t] /\ ~file.dead
      BY <1>2, <2>1, <2>2 DEF LockInv, InForce
    <2>4. file' = file
      BY <1>2, <2>2, <2>3
    <2> QED
      BY <2>3, <2>4, Zenon
  <1>6. DecidedStale'
    BY <1>1, <1>2, GoneKeeps DEF LockInv, DecidedStale
  <1>7. FileThere'
    BY <1>1, <1>2, GoneKeeps DEF LockInv, FileThere
  <1> QED
    BY <1>1, <1>4, <1>5, <1>6, <1>7, GoneKeeps DEF Rest

LEMMA ExitKeeps ==
  ASSUME LockInv, NEW p \in Proc, Exit(p)
  PROVE  Rest' /\ Counted'
  <1> DEFINE Own == {t \in Task : Of[t] = p}
  <1>1. Gone(p) /\ Unlink(Own)
    BY DEF Exit
  <1>2. Numbered' /\ InForce' /\ DecidedStale' /\ FileThere'
    <2>1. \A t \in Own : mine'[t] = 0
      BY <1>1, GoneKeeps
    <2>2. \A t \in Task : mine'[t] = mine[t] \/ mine'[t] = 0
      BY <1>1, GoneKeeps
    <2>3. \A t \in Task : seen'[t] = seen[t] \/ seen'[t] = 0
      BY <1>1, GoneKeeps
    <2>4. \A q \in Proc : held'[q] = held[q] \/ held'[q] = NoHeld
      BY <1>1, GoneKeeps
    <2>5. made' = made
      BY <1>1, GoneKeeps
    <2> HIDE DEF Own
    <2>6. Own \in SUBSET Task
      BY DEF Own
    <2> QED
      BY <1>1, <2>1, <2>2, <2>3, <2>4, <2>5, <2>6, UnlinkKeeps
  <1> QED
    BY <1>1, <1>2, GoneKeeps DEF Rest

-----------------------------------------------------------------------------
\* The invariant is inductive.
LEMMA LockStep == LockInv /\ [Next]_vars => LockInv'
  <1> SUFFICES ASSUME LockInv, [Next]_vars PROVE Rest' /\ Counted'
    BY RestSuffices
  <1>1. CASE Age
    BY <1>1, ContentKeeps
  <1>2. ASSUME NEW t \in Task, Acquires(t) PROVE Rest' /\ Counted'
    BY <1>2, LooksKeep, ReenterKeeps, OpenKeeps, ContentKeeps, HoldKeeps, TaskUnlinksKeep DEF Acquires
  <1>3. ASSUME NEW t \in Task, Releases(t) PROVE Rest' /\ Counted'
    BY <1>3, ReleaseShareKeeps, ReleaseLastKeeps, TaskUnlinksKeep DEF Releases
  <1>4. ASSUME NEW p \in Proc,
               \/ Watchdog(p) \/ WatchdogUnlinks(p)
               \/ Crash(p) \/ Exit(p) \/ Signalled(p) \/ SweepReads(p) \/ SweepUnlinks(p)
        PROVE  Rest' /\ Counted'
    BY <1>4, WatchdogKeeps, ProcessUnlinksKeep, CrashKeeps, ExitKeeps, SignalledKeeps,
       SweepReadsKeeps
  <1>5. CASE UNCHANGED vars
    <2>1. Rest'
      BY <1>5 DEF vars, LockInv, Rest, Numbered, Owning, MadeAlone, OneProcess, InForce, DecidedStale, FileThere
    <2>2. \A p \in Proc : Sharing(p)' = Sharing(p)
      BY <1>5 DEF vars, Sharing
    <2> QED
      BY <1>5, <2>1, <2>2, CountedKept DEF vars, LockInv
  <1> QED
    BY <1>1, <1>2, <1>3, <1>4, <1>5 DEF Next

LEMMA LockAlways == Spec => []LockInv
  <1> QED
    BY LockInitially, LockStep, PTL DEF Spec

\* Every state of the lock is well typed, for any processes, tasks and bounds.
THEOREM LockTypeCorrect == Spec => []TypeOK
  <1>1. LockInv => TypeOK
    BY DEF LockInv
  <1> QED
    BY <1>1, LockAlways, PTL

\* Until the file of a live lock is removed under it, all who hold the lock hold
\* the same one, in one process, and its file is there.
THEOREM LockSingleWriter == Spec => []SingleWriter
  <1>1. LockInv => SingleWriter
    <2>1. SUFFICES ASSUME LockInv, ~stolen, NEW t \in Holders
                   PROVE  file.id = mine[t] /\ \A u \in Holders : Of[u] = Of[t]
      BY DEF SingleWriter
    <2>2. \A u \in Holders : mine[u] # 0 /\ file.id = mine[u]
      BY <2>1 DEF LockInv, Holders, Owning, FileThere
    <2> QED
      BY <2>1, <2>2 DEF LockInv, Holders, OneProcess
  <1> QED
    BY <1>1, LockAlways, PTL

\* A live lock's file is removed under it only by the watchdog, by a startup, by a
\* signal that its process survives, when it is old, or by a task that decided to
\* remove an earlier file.
THEOREM LockStolenOnlyBy == Spec => StolenOnlyBy
  <1> DEFINE Taken ==
        (~stolen /\ stolen') =>
          \/ file.old
          \/ \E p \in Proc : WatchdogUnlinks(p) \/ SweepUnlinks(p) \/ Signalled(p)
          \/ \E t \in Task : Remove(t) /\ seen[t] # file.id
  <1>1. LockInv /\ [Next]_vars => [Taken]_vars
    <2>1. SUFFICES ASSUME LockInv, Next, ~stolen, stolen' PROVE Taken
      BY DEF vars
    <2>2. ASSUME NEW t \in Task, FailUnlinks(t) \/ ReleaseUnlinks(t) PROVE FALSE
      <3>1. Unlink({t}) /\ pc[t] \in Making
        BY <2>2 DEF FailUnlinks, ReleaseUnlinks, Step, Making
      <3>2. PICK u \in Task : u # t /\ mine[u] = file.id /\ file.id # 0
        BY <2>1, <3>1 DEF Unlink
      <3>3. mine[t] # 0
        BY <2>1, <3>1 DEF LockInv, Owning
      <3>4. mine[u] # mine[t]
        BY <2>1, <3>1, <3>2 DEF LockInv, MadeAlone
      <3> QED
        BY <2>1, <3>2, <3>3, <3>4 DEF LockInv, FileThere
    <2>3. ASSUME NEW t \in Task, Remove(t), seen[t] = file.id PROVE file.old
      <3>1. PICK u \in Task : mine[u] = file.id /\ file.id # 0
        BY <2>1, <2>3 DEF Remove, Unlink
      <3>2. ~file.dead
        BY <2>1, <3>1 DEF LockInv, InForce
      <3>3. file.old \/ file.dead
        BY <2>1, <2>3, <3>1 DEF LockInv, DecidedStale
      <3> QED
        BY <3>2, <3>3, Zenon
    <2>4. ASSUME NEW p \in Proc, Exit(p) PROVE FALSE
      <3>1. PICK u \in Task : Of[u] # p /\ mine[u] = file.id /\ file.id # 0
        BY <2>1, <2>4 DEF Exit, Unlink
      <3>2. held[p].id # 0
        BY <2>4 DEF Exit
      <3>3. PICK t \in Task : Of[t] = p /\ mine[t] = held[p].id
        BY <2>1, <3>2, HolderOfHeld DEF LockInv
      <3> QED
        BY <2>1, <3>1, <3>2, <3>3 DEF LockInv, FileThere, OneProcess
    <2>5. Age \/ (\E t \in Task : ~(FailUnlinks(t) \/ ReleaseUnlinks(t) \/ Remove(t)) /\ (Acquires(t) \/ Releases(t)))
              \/ (\E p \in Proc : Watchdog(p) \/ Crash(p) \/ SweepReads(p)) => FALSE
      BY <2>1 DEF Age, Acquires, Reenter, Start, Open, Write, WriteFails, Hold, Exists, ReadStale,
           ReadNothing, ReadLive, Stat, GiveUp, Releases, ReleaseShare, ReleaseLast, Watchdog, Crash, SweepReads
    <2> QED
      BY <2>1, <2>2, <2>3, <2>4, <2>5 DEF Next
  <1> QED
    BY <1>1, LockAlways, PTL DEF Spec, StolenOnlyBy

=============================================================================
