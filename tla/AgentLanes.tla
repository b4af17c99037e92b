----------------------------- MODULE AgentLanes -----------------------------
(***************************************************************************)
(* Agent runs on the lanes of CommandQueue.                                 *)
(*                                                                          *)
(* runEmbeddedPiAgent (agents/pi-embedded-runner/run.ts) queues a run in    *)
(* the lane of its session, and the entry it puts there queues a second     *)
(* entry in a global lane and returns its promise: a run executes its turn  *)
(* while both entries run.  A cron job started by hand (cron/service/       *)
(* ops.ts, enqueueRun) holds a slot of the cron lane around that, until it  *)
(* ends or runs into its timeout.                                           *)
(*                                                                          *)
(* The session entry queues the global one synchronously, inside the pump   *)
(* that starts it.  Entering is the set of runs between these two halves of *)
(* one handler: no other action is enabled while it is not empty.           *)
(***************************************************************************)
EXTENDS CommandQueue

CONSTANTS
    Session,
    Run,            \* calls of runEmbeddedPiAgent
    Cron,           \* the runs dispatched by a queued manual cron run
    SessionOf,      \* the session key of each run
    LaneParam,      \* params.lane of each run, "" when it is not given
    sessionLane,    \* the lane `session:<key>` of each session
    Main, CronLane, Subagent, Nested,   \* CommandLane, process/lanes.ts
    sessionEntry, globalEntry, cronEntry   \* the entries of each run

\* Mutant: the lane parameter is used as it is.
ResolveGlobalLaneIdentity(p) == IF p = "cron" THEN CronLane
                                ELSE IF p = "subagent" THEN Subagent
                                ELSE IF p = "nested" THEN Nested ELSE Main

\* resolveGlobalLane.  Cron passes its lane through resolveNestedAgentLane
\* first, which maps "cron" to nested as well.
ResolveGlobalLane(p) == IF p \in {"cron", "nested"} THEN Nested
                        ELSE IF p = "subagent" THEN Subagent ELSE Main

ASSUME RunAssumption ==
    /\ SessionOf \in [Run -> Session]
    /\ Cron \subseteq Run
    /\ LaneParam \in [Run -> {"", "cron", "subagent", "nested"}]
    /\ sessionLane \in [Session -> Lane]
    /\ {Main, CronLane, Subagent, Nested} \subseteq Lane

\* Sessions have lanes of their own, and every entry is one half of one run.
ASSUME EntryAssumption ==
    /\ \A s, v \in Session : sessionLane[s] = sessionLane[v] => s = v
    /\ \A s \in Session : sessionLane[s] \notin {Main, CronLane, Subagent, Nested}
    /\ sessionEntry \in [Run -> Task]
    /\ globalEntry \in [Run -> Task]
    /\ cronEntry \in [Cron -> Task]
    /\ \A r, v \in Run :
         /\ sessionEntry[r] = sessionEntry[v] => r = v
         /\ globalEntry[r] = globalEntry[v] => r = v
         /\ sessionEntry[r] # globalEntry[v]
    /\ \A r \in Cron, v \in Run :
         cronEntry[r] \notin {sessionEntry[v], globalEntry[v]}
    /\ \A r, v \in Cron : cronEntry[r] = cronEntry[v] => r = v

\* The lanes the calls name.
ASSUME EntryLanes ==
    /\ \A r \in Run : /\ LaneOf[sessionEntry[r]] = sessionLane[SessionOf[r]]
                      /\ LaneOf[globalEntry[r]] = ResolveGlobalLane(LaneParam[r])
    /\ \A r \in Cron : LaneOf[cronEntry[r]] = CronLane
    /\ \A t \in Task : \/ \E r \in Run : t \in {sessionEntry[r], globalEntry[r]}
                       \/ \E r \in Cron : t = cronEntry[r]

-----------------------------------------------------------------------------
\* Runs whose session entry has started and not yet queued its global entry.
Entering == {r \in Run : /\ phase[sessionEntry[r]] = "running"
                         /\ phase[globalEntry[r]] = "new"}

Quiet == Entering = {}

Executing(r) == phase[globalEntry[r]] = "running"

\* enqueueSession(...) of a run that does not come from the cron lane.
Submit(r) ==
    /\ Quiet
    /\ r \notin Cron
    /\ Enqueue(sessionEntry[r])

\* enqueueRun puts a manual run of a cron job in the cron lane ...
SubmitCron(r) ==
    /\ Quiet
    /\ Enqueue(cronEntry[r])

\* ... whose task reaches runEmbeddedPiAgent some awaits later.
CronBody(r) ==
    /\ Quiet
    /\ phase[cronEntry[r]] = "running"
    /\ Enqueue(sessionEntry[r])

\* The synchronous half of a started session entry: enqueueGlobal(...).
EnterGlobalLane(r) ==
    /\ r \in Entering
    /\ Enqueue(globalEntry[r])

\* The turn ends: the model loop returned, threw, timed out or was aborted.
EndTurn(r, outcome) ==
    /\ Quiet
    /\ Complete(globalEntry[r], outcome)

\* The session entry settles as the promise it returned.
SessionReturns(r) ==
    /\ Quiet
    /\ phase[globalEntry[r]] \in Settled
    /\ Complete(sessionEntry[r],
                IF phase[globalEntry[r]] = "resolved" THEN "resolved" ELSE "failed")

\* A cron run catches the failure of its job and resolves.
CronReturns(r) ==
    /\ Quiet
    /\ phase[sessionEntry[r]] \in Settled
    /\ Complete(cronEntry[r], "resolved")

\* A run that is skipped, or whose job runs into its timeout: the run it has begun
\* goes on, aborted, in its own lanes.
CronReturnsEarly(r) ==
    /\ Quiet
    /\ Complete(cronEntry[r], "resolved")

\* applyGatewayLaneConcurrency and config reloads; other lanes keep the cap 1.
Configure(l, n) ==
    /\ Quiet
    /\ SetConcurrency(l, n)

\* clearSessionQueues and interrupt mode: only session lanes are cleared.
ClearSession(s) ==
    /\ Quiet
    /\ Clear(sessionLane[s])

\* The in-process restart, in the loose order any caller could take its steps;
\* GatewayRunLoop has the order of the run loop.
Restart ==
    /\ Quiet
    /\ MarkDraining \/ WaitStart \/ WaitPoll \/ Reset

-----------------------------------------------------------------------------
LaneStep ==
    \/ \E r \in Run : Submit(r)
    \/ \E r \in Cron : SubmitCron(r) \/ CronBody(r)
    \/ \E r \in Run : EnterGlobalLane(r)
    \/ \E r \in Run, o \in Outcomes : EndTurn(r, o)
    \/ \E r \in Run : SessionReturns(r)
    \/ \E r \in Cron : CronReturns(r) \/ CronReturnsEarly(r)
    \/ \E l \in {Main, CronLane, Subagent}, n \in 0 .. MaxConcurrent : Configure(l, n)
    \/ \E s \in Session : ClearSession(s)

AgentNext == LaneStep \/ Restart

AgentSpec == QueueInit /\ [][AgentNext]_queueVars

\* A gateway that is not restarted.
UninterruptedSpec == QueueInit /\ [][LaneStep]_queueVars

\* Turns end (runs carry a timeout), promise continuations run, and a cron
\* task that has started reaches its run.  No one has to submit anything.
LaneFairness ==
    /\ \A r \in Run : /\ WF_queueVars(EnterGlobalLane(r))
                      /\ WF_queueVars(\E o \in Outcomes : EndTurn(r, o))
                      /\ WF_queueVars(SessionReturns(r))
    /\ \A r \in Cron : WF_queueVars(CronBody(r)) /\ WF_queueVars(CronReturns(r))

FairLaneSpec == UninterruptedSpec /\ LaneFairness

-----------------------------------------------------------------------------
(***************************************************************************)
(* Correctness.                                                             *)
(***************************************************************************)

\* A run is in a global lane only inside its session entry: the global entry
\* is queued or executing only while the session entry runs, and a session
\* entry that has not started has no global entry.  This is what makes the
\* session lane a lock around the turn.
NestedInSession ==
    \A r \in Run :
        /\ phase[globalEntry[r]] \in {"queued", "running"}
             => phase[sessionEntry[r]] = "running"
        /\ phase[sessionEntry[r]] \in {"new", "queued"} => phase[globalEntry[r]] = "new"

\* Between two resets of the lanes, at most one run of a session executes.
OneTurnPerLifecycle ==
    \A r, v \in Run :
        /\ r # v /\ SessionOf[r] = SessionOf[v]
        /\ Executing(r) /\ Executing(v)
        => taskGeneration[sessionEntry[r]] # taskGeneration[sessionEntry[v]]

\* docs/concepts/queue.md:20, "to guarantee only one active run per session".
SessionExclusion ==
    \A r, v \in Run :
        r # v /\ SessionOf[r] = SessionOf[v] => ~(Executing(r) /\ Executing(v))

\* A run that was accepted comes to an end: no cycle of runs waiting for the
\* slot another one holds, in particular no cron job waiting in the lane it
\* occupies (pi-embedded-runner/lanes.ts:10).
RunSettles ==
    /\ \A r \in Run : phase[sessionEntry[r]] \in {"queued", "running"}
                        ~> phase[sessionEntry[r]] \in Settled
    /\ \A r \in Cron : phase[cronEntry[r]] \in {"queued", "running"}
                        ~> phase[cronEntry[r]] \in Settled

\* The lanes implement the line of each session.
RunOfEntry(t) == CHOOSE r \in Run : sessionEntry[r] = t

LineOf(s) ==
    LET l == sessionLane[s]
        runOf(t) == RunOfEntry(t)
    IN  (IF active[l] = {} THEN <<>> ELSE <<runOf(CHOOSE t \in active[l] : TRUE)>>)
            \o [i \in 1 .. Len(queue[l]) |-> runOf(queue[l][i])]

Turns == INSTANCE SessionTurns WITH
    line <- [s \in Session |-> LineOf(s)],
    turn <- {r \in Run : Executing(r)},
    finished <- {r \in Run : phase[globalEntry[r]] \in Outcomes}

ServesSessionsInTurn == Turns!Spec

\* The composition uses the queue only through its operations.
UsesTheQueue == QueueSpec

=============================================================================
