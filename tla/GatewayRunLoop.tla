---------------------------- MODULE GatewayRunLoop ----------------------------
(***************************************************************************)
(* The gateway process around the lanes: runGatewayLoop of                  *)
(* src/src/cli/gateway-cli/run-loop.ts.                                     *)
(*                                                                          *)
(* Two asynchronous activities share its local variables.  The loop starts  *)
(* the server and then awaits a promise; a signal handler closes the server *)
(* in a detached closure, and, for a restart, resolves that promise.  The   *)
(* closure finds a promise to resolve (`restartResolver`) only while the    *)
(* loop awaits one, so loop = "awaiting" stands for that variable.          *)
(*                                                                          *)
(* The run handles behind getActiveEmbeddedRunCount are not modelled: they  *)
(* can only delay the end of the drain, or make it time out.                *)
(***************************************************************************)
EXTENDS AgentLanes

CONSTANTS
    MaxRestarts   \* bound: restart signals of one process

ASSUME RestartBound == MaxRestarts \in Nat /\ MaxRestarts <= MaxGeneration

VARIABLES
    loop,          \* where runGatewayLoop stands
    firstStart,    \* isFirstStart
    serverUp,      \* server is not null
    lockHeld,      \* lock is not null
    shuttingDown,  \* a signal is being handled
    shutdown,      \* where the closure of request() stands
    action,        \* the action that closure was requested for
    hadLock,       \* what releaseLockIfHeld returned to it
    drained,       \* its drain ended before the timeout
    restarts,      \* restart signals so far
    early,         \* observed: one came while this life's loop awaited no promise
    exit           \* how the process ended

loopVars == <<loop, firstStart, serverUp, lockHeld, shuttingDown, shutdown,
              action, hadLock, drained, restarts, early, exit>>
gatewayVars == <<queueVars, loopVars>>

LoopTypeOK ==
    /\ loop \in {"starting", "releasing", "awaiting", "resuming"}
    /\ shutdown \in {"none", "marked", "draining", "closing", "respawning", "relocking"}
    /\ action \in {"stop", "restart"}
    /\ exit \in {"running", "clean", "error"}
    /\ restarts \in 0 .. MaxRestarts
    /\ firstStart \in BOOLEAN /\ serverUp \in BOOLEAN /\ lockHeld \in BOOLEAN
    /\ shuttingDown \in BOOLEAN /\ hadLock \in BOOLEAN /\ drained \in BOOLEAN
    /\ early \in BOOLEAN

\* Type correctness of the run loop and of the lanes under it.
GatewayTypeOK == QueueTypeOK /\ LoopTypeOK

\* The lock is acquired before the loop is entered.
GatewayInit ==
    /\ QueueInit
    /\ loop = "starting"
    /\ firstStart = TRUE
    /\ serverUp = FALSE
    /\ lockHeld = TRUE
    /\ shuttingDown = FALSE
    /\ shutdown = "none"
    /\ action = "stop"
    /\ hadLock = FALSE
    /\ drained = FALSE
    /\ restarts = 0
    /\ early = FALSE
    /\ exit = "running"

-----------------------------------------------------------------------------
\* The loop.

\* `server = await params.start()`, then a fresh promise to await.  While the
\* closure awaits the close of no server, one microtask, start does not return.
StartReturns ==
    /\ loop = "starting"
    /\ shutdown = "closing" => serverUp
    /\ serverUp' = TRUE
    /\ firstStart' = FALSE
    /\ loop' = "awaiting"
    /\ UNCHANGED <<queueVars, lockHeld, shuttingDown, shutdown, action, hadLock,
                   drained, restarts, early, exit>>

\* A failed first start ends the process; a later one does not.
StartThrows ==
    /\ loop = "starting"
    /\ \/ /\ firstStart
          /\ lockHeld' = FALSE
          /\ exit' = "error"
          /\ UNCHANGED <<loop, serverUp>>
       \/ /\ ~firstStart
          /\ serverUp' = FALSE
          /\ loop' = "releasing"
          /\ UNCHANGED <<lockHeld, exit>>
    /\ UNCHANGED <<queueVars, firstStart, shuttingDown, shutdown, action, hadLock,
                   drained, restarts, early>>

\* `await releaseLockIfHeld()`, then a fresh promise to await.
ReleaseAfterFailure ==
    /\ loop = "releasing"
    /\ lockHeld' = FALSE
    /\ loop' = "awaiting"
    /\ UNCHANGED <<queueVars, firstStart, serverUp, shuttingDown, shutdown, action,
                   hadLock, drained, restarts, early, exit>>

\* The next iteration: onIteration resets the lanes, then start is called.
Iterate ==
    /\ loop = "resuming"
    /\ Quiet
    /\ Reset
    /\ loop' = "starting"
    /\ early' = FALSE
    /\ UNCHANGED <<firstStart, serverUp, lockHeld, shuttingDown, shutdown, action,
                   hadLock, drained, restarts, exit>>

-----------------------------------------------------------------------------
\* The signals.  request() ignores every signal while it handles one.

\* An authorised SIGUSR1.  request() marks the lanes and counts the active
\* tasks in one go: "marked" is the state between the two, where nothing else
\* is enabled.
SignalRestart ==
    /\ ~shuttingDown
    /\ loop # "resuming"
    /\ restarts < MaxRestarts
    /\ Quiet
    /\ MarkDraining
    /\ shuttingDown' = TRUE
    /\ shutdown' = "marked"
    /\ action' = "restart"
    /\ restarts' = restarts + 1
    /\ early' = (early \/ loop # "awaiting")
    /\ UNCHANGED <<loop, firstStart, serverUp, lockHeld, hadLock, drained, exit>>

CountActive ==
    /\ shutdown = "marked"
    /\ Quiet
    /\ WaitStart
    /\ shutdown' = "draining"
    /\ UNCHANGED <<loop, firstStart, serverUp, lockHeld, shuttingDown, action,
                   hadLock, drained, restarts, early, exit>>

\* SIGTERM or SIGINT.  The loop resumes within the same turn of the event
\* loop, so no signal comes in between.
SignalStop ==
    /\ ~shuttingDown
    /\ loop # "resuming"
    /\ Quiet
    /\ shuttingDown' = TRUE
    /\ shutdown' = "closing"
    /\ action' = "stop"
    /\ UNCHANGED <<queueVars, loop, firstStart, serverUp, lockHeld, hadLock, drained,
                   restarts, early, exit>>

-----------------------------------------------------------------------------
\* The closure of request().

PollDrain ==
    /\ shutdown = "draining"
    /\ Quiet
    /\ WaitPoll
    /\ UNCHANGED loopVars

\* Mutant: a drain that timed out does not close the server.
DrainTimeoutSkipsClose ==
    /\ shutdown = "draining"
    /\ waiter # "polling"
    /\ drained' \in {FALSE, waiter = "drained"}
    /\ shutdown' = IF drained' THEN "closing" ELSE "respawning"
    /\ UNCHANGED <<queueVars, loop, firstStart, serverUp, lockHeld, shuttingDown,
                   action, hadLock, restarts, early, exit>>

\* Both waits have answered; the one for the embedded runs may have timed out.
DrainEnds ==
    /\ shutdown = "draining"
    /\ waiter # "polling"
    /\ drained' \in {FALSE, waiter = "drained"}
    /\ shutdown' = "closing"
    /\ UNCHANGED <<queueVars, loop, firstStart, serverUp, lockHeld, shuttingDown,
                   action, hadLock, restarts, early, exit>>

\* server.close() returns or throws; the finally block releases the lock.
CloseEnds ==
    /\ shutdown = "closing"
    /\ serverUp' = FALSE
    /\ hadLock' = lockHeld
    /\ lockHeld' = FALSE
    /\ shutdown' = "respawning"
    /\ UNCHANGED <<queueVars, loop, firstStart, shuttingDown, action, drained,
                   restarts, early, exit>>

\* server.close() hangs and the force-exit timer fires.
ForceExit ==
    /\ shutdown = "closing"
    /\ serverUp
    /\ exit' = "error"
    /\ UNCHANGED <<queueVars, loop, firstStart, serverUp, lockHeld, shuttingDown,
                   shutdown, action, hadLock, drained, restarts, early>>

\* A stop ends here, and so does a restart that has a new process.
ProcessEnds ==
    /\ shutdown = "respawning"
    /\ exit' = "clean"
    /\ UNCHANGED <<queueVars, loop, firstStart, serverUp, lockHeld, shuttingDown,
                   shutdown, action, hadLock, drained, restarts, early>>

\* `shuttingDown = false; restartResolver?.()`.
Resolve ==
    /\ shuttingDown' = FALSE
    /\ shutdown' = "none"
    /\ loop' = IF loop = "awaiting" THEN "resuming" ELSE loop

\* Mutant: the lock is not acquired again.
RestartUnlocked ==
    /\ shutdown = "respawning"
    /\ action = "restart"
    /\ Resolve
    /\ UNCHANGED <<queueVars, firstStart, serverUp, lockHeld, action, hadLock,
                   drained, restarts, early, exit>>

\* No new process: restart in this one, with the lock the old server had.
RestartInProcess ==
    /\ shutdown = "respawning"
    /\ action = "restart"
    /\ \/ /\ hadLock
          /\ shutdown' = "relocking"
          /\ UNCHANGED <<shuttingDown, loop>>
       \/ /\ ~hadLock
          /\ Resolve
    /\ UNCHANGED <<queueVars, firstStart, serverUp, lockHeld, action, hadLock,
                   drained, restarts, early, exit>>

\* reacquireLockForInProcessRestart; another process may hold the lock.
Relock ==
    /\ shutdown = "relocking"
    /\ \/ /\ lockHeld' = TRUE
          /\ Resolve
          /\ UNCHANGED exit
       \/ /\ exit' = "error"
          /\ UNCHANGED <<lockHeld, shuttingDown, shutdown, loop>>
    /\ UNCHANGED <<queueVars, firstStart, serverUp, action, hadLock, drained, restarts, early>>

-----------------------------------------------------------------------------
LoopStep ==
    \/ StartReturns
    \/ StartThrows
    \/ ReleaseAfterFailure
    \/ Iterate

ShutdownStep ==
    \/ SignalRestart
    \/ SignalStop
    \/ PollDrain
    \/ DrainEnds
    \/ CloseEnds
    \/ ForceExit
    \/ ProcessEnds
    \/ RestartInProcess
    \/ Relock

\* The process lives and no handler is halfway.
Free == exit = "running" /\ shutdown # "marked"

GatewayNext ==
    \/ exit = "running" /\ CountActive
    \/ Free /\ LaneStep /\ UNCHANGED loopVars
    \/ Free /\ LoopStep
    \/ Free /\ ShutdownStep

GatewaySpec == GatewayInit /\ [][GatewayNext]_gatewayVars

\* start returns or throws, the drain polls on a timer up to its deadline, a
\* close that hangs is cut off by the force-exit timer, acquiring the lock has
\* a timeout; turns end and continuations run as in AgentLanes.  No signal is
\* ever owed.
GatewayFairness ==
    /\ WF_gatewayVars(exit = "running" /\ CountActive)
    /\ WF_gatewayVars(Free /\ (StartReturns \/ StartThrows))
    /\ WF_gatewayVars(Free /\ ReleaseAfterFailure)
    /\ WF_gatewayVars(Free /\ Iterate)
    /\ WF_gatewayVars(Free /\ PollDrain)
    /\ WF_gatewayVars(Free /\ DrainEnds)
    /\ WF_gatewayVars(Free /\ (CloseEnds \/ ForceExit))
    /\ WF_gatewayVars(Free /\ (ProcessEnds \/ RestartInProcess))
    /\ WF_gatewayVars(Free /\ Relock)
    /\ \A r \in Run :
          /\ WF_gatewayVars(Free /\ EnterGlobalLane(r) /\ UNCHANGED loopVars)
          /\ WF_gatewayVars(Free /\ (\E o \in Outcomes : EndTurn(r, o))
                                 /\ UNCHANGED loopVars)
          /\ WF_gatewayVars(Free /\ SessionReturns(r) /\ UNCHANGED loopVars)
    /\ \A r \in Cron :
          /\ WF_gatewayVars(Free /\ CronBody(r) /\ UNCHANGED loopVars)
          /\ WF_gatewayVars(Free /\ CronReturns(r) /\ UNCHANGED loopVars)

FairGatewaySpec == GatewaySpec /\ GatewayFairness

-----------------------------------------------------------------------------
(***************************************************************************)
(* Correctness.                                                             *)
(***************************************************************************)

\* "all active work drained" (run-loop.ts:152) is true when it is said: until
\* the lanes are reset, no run executes whose session entry belongs to the
\* lifecycle that is being closed, although waitForActiveTasks looks only at
\* the tasks that were active when the drain began.
DrainLeavesNoRun ==
    /\ action = "restart" /\ shutdown \in {"closing", "respawning", "relocking"}
    /\ drained
    => \A r \in Run : Executing(r) => ~HoldsSlot(sessionEntry[r])

\* The lanes are reset only between two lives of the server, when they refuse
\* new entries: a reset under a live server would run its sessions twice.  When
\* the restart signal came while the server was starting, there may be nothing to
\* close yet, and the server that starts meanwhile is still up.
ResetBetweenServers ==
    [][\A l \in Lane : generation'[l] # generation[l]
                         => gatewayDraining /\ ~shuttingDown /\ (serverUp => early)]_gatewayVars

\* A process that leaves in good order leaves the lock to its successor
\* (run-loop.ts:68), and one that restarts in place does not lose it.
LockHandedOver ==
    /\ exit = "clean" => ~lockHeld
    /\ loop = "resuming" /\ hadLock => lockHeld

\* command-queue.ts:16-19 and run-loop.ts:127: new entries are refused "during
\* the drain window", so a gateway that goes on accepts work again; unless the
\* restart signal came while the loop awaited no promise: restartResolver is
\* then that of no or of a former promise (run-loop.ts:92, 256).
DrainWindowCloses == gatewayDraining ~> (~gatewayDraining \/ exit # "running" \/ early)

\* Work that was queued before a restart is not lost by it: it runs, fails or
\* is cleared, or the process has gone, with the same exception.
AcceptedRunSettles ==
    \A r \in Run : phase[sessionEntry[r]] \in {"queued", "running"}
                     ~> (phase[sessionEntry[r]] \in Settled \/ exit # "running" \/ early)

=============================================================================
