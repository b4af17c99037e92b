---------------------------- MODULE DeliveryQueue ----------------------------
(***************************************************************************)
(* The write-ahead queue of outbound messages: deliverOutboundPayloads of   *)
(* src/src/infra/outbound/deliver.ts, delivery-queue-storage.ts and         *)
(* delivery-queue-recovery.ts.                                              *)
(*                                                                          *)
(* A delivery is one call of deliverOutboundPayloads with Parts payloads.   *)
(* It is written to <id>.json, sent, and acknowledged by renaming the file  *)
(* to <id>.delivered and unlinking that; a failure is counted in the file.  *)
(* When a gateway starts, a recovery reads the directory and sends again    *)
(* what it finds, while new deliveries are already being made.  Nothing     *)
(* waits for it: after an in-process restart the next one may start while   *)
(* it still goes through its list.  The process can crash between any two   *)
(* file operations or sends.                                                *)
(*                                                                          *)
(* A worker is the sender of one delivery or a recovery; both run the same  *)
(* core, and a recovery works on one entry at a time.  Reading the          *)
(* directory is one step: entries are read one by one, but what happens to  *)
(* one does not depend on when another is read.  The order of a recovery    *)
(* (enqueuedAt) is left open.  Renaming a written temporary file over the   *)
(* entry is the step that counts.                                           *)
(***************************************************************************)
EXTENDS Integers, FiniteSets

CONSTANTS
    Delivery,      \* ids of deliveries
    BestEffort,    \* those with params.bestEffort
    WithOnError,   \* those with params.onError
    Parts,         \* payloads of a delivery
    MaxRetries,    \* MAX_RETRIES
    MaxStarts,     \* bound: starts of the gateway after the first
    Recovery       \* recoveries that may be at work at once

ASSUME DeliveryAssumption ==
    /\ Delivery # {}
    /\ BestEffort \subseteq Delivery /\ WithOnError \subseteq Delivery
    /\ Parts \in Nat \ {0} /\ MaxRetries \in Nat \ {0} /\ MaxStarts \in Nat
    /\ Recovery # {} /\ Recovery \cap Delivery = {}

VARIABLES
    json,       \* <id>.json: the retry count in it, -1 without the file
    marker,     \* <id>.delivered exists
    failedDir,  \* failed/<id>.json exists
    pc,         \* where each worker stands
    next,       \* the payload the worker sends next
    flawed,     \* hadPartialFailure of the worker
    readCount,  \* the retry count failDelivery has read
    queued,     \* queueId is not null, per delivery
    scan,       \* the state of each recovery
    pending,    \* the entries it has read and not finished
    entry,      \* the one it works on
    late,       \* its time budget is exceeded, with entries left
    shared,     \* entries that a recovery found in the hands of another worker (history)
    starts,     \* starts of the gateway after the first
    copies,     \* copies of each payload the recipient got, up to two (history)
    aborted     \* the caller aborted the delivery (history)

fileVars == <<json, marker, failedDir>>
scanVars == <<scan, pending, entry, late, shared>>
historyVars == <<copies, aborted>>
vars == <<fileVars, pc, next, flawed, readCount, queued, scanVars, starts, historyVars>>

Worker == Delivery \cup Recovery
Entry == [id : Delivery, retries : Nat]
Steps == {"idle", "sending", "acking", "unlinking", "reading", "writing", "moving", "done"}

TypeOK ==
    /\ json \in [Delivery -> Nat \cup {-1}]
    /\ marker \in [Delivery -> BOOLEAN] /\ failedDir \in [Delivery -> BOOLEAN]
    /\ pc \in [Worker -> Steps]
    /\ next \in [Worker -> 1 .. Parts + 1]
    /\ flawed \in [Worker -> BOOLEAN] /\ readCount \in [Worker -> Nat]
    /\ queued \in [Delivery -> BOOLEAN]
    /\ scan \in [Recovery -> {"due", "running", "over"}]
    /\ pending \in [Recovery -> SUBSET Entry] /\ entry \in [Recovery -> Delivery]
    /\ late \in [Recovery -> BOOLEAN]
    /\ shared \in SUBSET Delivery
    /\ starts \in 0 .. MaxStarts
    /\ copies \in [Delivery -> [1 .. Parts -> 0 .. 2]]
    /\ aborted \in [Delivery -> BOOLEAN]

\* What a recovery that has not begun works on is of no account.
noEntry == CHOOSE d \in Delivery : TRUE

\* A process has one recovery to run as it starts.
FirstOnly(first) == [r \in Recovery |-> IF r = first THEN "due" ELSE "over"]

Init ==
    /\ json = [d \in Delivery |-> -1]
    /\ marker = [d \in Delivery |-> FALSE]
    /\ failedDir = [d \in Delivery |-> FALSE]
    /\ pc = [w \in Worker |-> "idle"]
    /\ next = [w \in Worker |-> 1]
    /\ flawed = [w \in Worker |-> FALSE]
    /\ readCount = [w \in Worker |-> 0]
    /\ queued = [d \in Delivery |-> FALSE]
    /\ \E first \in Recovery : scan = FirstOnly(first)
    /\ pending = [r \in Recovery |-> {}]
    /\ late = [r \in Recovery |-> FALSE]
    /\ entry = [r \in Recovery |-> noEntry]
    /\ shared = {}
    /\ starts = 0
    /\ copies = [d \in Delivery |-> [i \in 1 .. Parts |-> 0]]
    /\ aborted = [d \in Delivery |-> FALSE]

-----------------------------------------------------------------------------
Exists(d) == json[d] >= 0

Target(w) == IF w \in Recovery THEN entry[w] ELSE w

\* A worker whose delivery has no entry has no bookkeeping to do.
Booked(w) == w \in Recovery \cup {d \in Delivery : queued[d]}

\* A recovery goes on to its next entry; a sender has returned to its caller.
Ended(w) == IF w \in Recovery THEN "idle" ELSE "done"

GoTo(w, step) == pc' = [pc EXCEPT ![w] = step]

\* enqueueDelivery; delivery goes on without an entry when the write fails.
Persist(d) ==
    /\ pc[d] = "idle"
    /\ \/ /\ json' = [json EXCEPT ![d] = 0]
          /\ queued' = [queued EXCEPT ![d] = TRUE]
       \/ UNCHANGED <<json, queued>>
    /\ GoTo(d, "sending")
    /\ UNCHANGED <<marker, failedDir, next, flawed, readCount, scanVars, starts, historyVars>>

-----------------------------------------------------------------------------
(***************************************************************************)
(* deliverOutboundPayloadsCore and the handlers around it.                  *)
(***************************************************************************)
\* Mutant: every error is taken for an abort.
ThrewAcks(w) ==
    \/ ~Booked(w) /\ GoTo(w, "done")
    \/ Booked(w) /\ GoTo(w, "acking")

\* The call threw.  A recovery moves an entry with a permanent error away.
Threw(w) ==
    \/ ~Booked(w) /\ GoTo(w, "done")
    \/ Booked(w) /\ GoTo(w, "reading")
    \/ w \in Recovery /\ GoTo(w, "moving")

\* One payload is handed to the channel.  An error may hide a send that
\* reached the recipient; under bestEffort it is reported to onError only, but
\* for one that creating the channel's handler throws before the first payload.
SendPart(w) ==
    LET d == Target(w)
        got == [copies EXCEPT ![d][next[w]] = IF @ = 2 THEN 2 ELSE @ + 1]
    IN  /\ pc[w] = "sending" /\ next[w] <= Parts
        /\ \/ /\ copies' = got
              /\ next' = [next EXCEPT ![w] = @ + 1]
              /\ UNCHANGED <<pc, flawed, aborted>>
           \/ /\ copies' \in {copies, got}
              /\ d \in BestEffort
              /\ next' = [next EXCEPT ![w] = @ + 1]
              /\ flawed' = [flawed EXCEPT ![w] = @ \/ w \in WithOnError]
              /\ UNCHANGED <<pc, aborted>>
           \/ /\ copies' \in {copies, got}
              /\ d \in BestEffort => next[w] = 1 /\ copies' = copies
              /\ Threw(w)
              /\ UNCHANGED <<next, flawed, aborted>>
           \/ /\ w \notin Recovery /\ d \notin BestEffort
              /\ aborted' = [aborted EXCEPT ![d] = TRUE]
              /\ GoTo(w, IF queued[d] THEN "acking" ELSE "done")
              /\ UNCHANGED <<copies, next, flawed>>
        /\ UNCHANGED <<fileVars, readCount, queued, scanVars, starts>>

\* All payloads were tried, and the call returns; appending to the transcript
\* may still throw.
SentAll(w) ==
    /\ pc[w] = "sending" /\ next[w] = Parts + 1
    /\ \/ /\ GoTo(w, IF ~Booked(w) THEN "done"
                     ELSE IF flawed[w] THEN "reading" ELSE "acking")
       \/ Threw(w)
    /\ next' = [next EXCEPT ![w] = 1] /\ flawed' = [flawed EXCEPT ![w] = FALSE]
    /\ UNCHANGED <<fileVars, readCount, queued, scanVars, starts, historyVars>>

-----------------------------------------------------------------------------
(***************************************************************************)
(* The bookkeeping; every file operation is a step, and may fail.           *)
(***************************************************************************)
fileStepUnchanged == <<next, flawed, queued, scanVars, starts, historyVars>>

\* ackDelivery, phase 1.  An entry that is gone was renamed by someone else;
\* a rename that fails is a failed delivery to a recovery, nothing to a sender.
AckRename(w) ==
    LET d == Target(w)
    IN  /\ pc[w] = "acking"
        /\ \/ /\ Exists(d)
              /\ json' = [json EXCEPT ![d] = -1]
              /\ marker' = [marker EXCEPT ![d] = TRUE]
              /\ GoTo(w, "unlinking")
           \/ /\ ~Exists(d)
              /\ marker' = [marker EXCEPT ![d] = FALSE]
              /\ GoTo(w, Ended(w))
              /\ UNCHANGED json
           \/ /\ Exists(d)
              /\ GoTo(w, IF w \in Recovery THEN "reading" ELSE "done")
              /\ UNCHANGED <<json, marker>>
        /\ UNCHANGED <<failedDir, readCount, fileStepUnchanged>>

\* ackDelivery, phase 2.
AckUnlink(w) ==
    /\ pc[w] = "unlinking"
    /\ marker' = [marker EXCEPT ![Target(w)] = FALSE]
    /\ GoTo(w, Ended(w))
    /\ UNCHANGED <<json, failedDir, readCount, fileStepUnchanged>>

\* failDelivery reads the entry; an error of either half is ignored by all
\* its callers.
FailRead(w) ==
    LET d == Target(w)
    IN  /\ pc[w] = "reading"
        /\ \/ /\ Exists(d)
              /\ readCount' = [readCount EXCEPT ![w] = json[d]]
              /\ GoTo(w, "writing")
           \/ /\ GoTo(w, Ended(w))
              /\ UNCHANGED readCount
        /\ UNCHANGED <<fileVars, fileStepUnchanged>>

\* ... and writes it back, whether or not the file is still there.
FailWrite(w) ==
    LET d == Target(w)
    IN  /\ pc[w] = "writing"
        /\ json' = [json EXCEPT ![d] = readCount[w] + 1]
        /\ GoTo(w, Ended(w))
        /\ readCount' = [readCount EXCEPT ![w] = 0]
        /\ UNCHANGED <<marker, failedDir, fileStepUnchanged>>

\* moveToFailed; recovery logs an error and goes on.
MoveToFailed(r) ==
    LET d == entry[r]
    IN  /\ pc[r] = "moving"
        /\ \/ /\ Exists(d)
              /\ json' = [json EXCEPT ![d] = -1]
              /\ failedDir' = [failedDir EXCEPT ![d] = TRUE]
           \/ UNCHANGED <<json, failedDir>>
        /\ GoTo(r, "idle")
        /\ UNCHANGED <<marker, readCount, fileStepUnchanged>>

-----------------------------------------------------------------------------
(***************************************************************************)
(* recoverPendingDeliveries.                                                *)
(***************************************************************************)
scanUnchanged == <<json, failedDir, readCount, queued, starts, historyVars>>

\* The entry is in the hands of its sender, or of a recovery that works on it or
\* has it in its list.
InHands(d) ==
    \/ pc[d] \notin {"idle", "done"}
    \/ \E r \in Recovery : \/ pc[r] # "idle" /\ entry[r] = d
                           \/ \E e \in pending[r] : e.id = d

\* Mutant: the markers are read as entries.
LoadMarkersToo(r) ==
    /\ scan[r] = "due"
    /\ scan' = [scan EXCEPT ![r] = "running"]
    /\ marker' = [d \in Delivery |-> FALSE]
    /\ pending' = [pending EXCEPT ![r] =
            {[id |-> d, retries |-> IF Exists(d) THEN json[d] ELSE 0] :
                d \in {x \in Delivery : Exists(x) \/ marker[x]}}]
    /\ shared' = shared \cup {d \in Delivery : Exists(d) /\ InHands(d)}
    /\ UNCHANGED <<pc, next, flawed, entry, late, scanUnchanged>>

\* loadPendingDeliveries, which also removes the markers it finds.
Load(r) ==
    /\ scan[r] = "due"
    /\ scan' = [scan EXCEPT ![r] = "running"]
    /\ marker' = [d \in Delivery |-> FALSE]
    /\ pending' = [pending EXCEPT ![r] =
            {[id |-> d, retries |-> json[d]] : d \in {x \in Delivery : Exists(x)}}]
    /\ shared' = shared \cup {d \in Delivery : Exists(d) /\ InHands(d)}
    /\ UNCHANGED <<pc, next, flawed, entry, late, scanUnchanged>>

\* Mutant: off by one.
ExhaustedTooLate(e) == e.retries > MaxRetries

Exhausted(e) == e.retries >= MaxRetries

\* The loop body.  An entry nobody has tried is eligible, any other one is when
\* its backoff has passed; lastAttemptAt is written together with the count.
Take(r, e) ==
    /\ scan[r] = "running" /\ pc[r] = "idle"
    /\ e \in pending[r]
    /\ pending' = [pending EXCEPT ![r] = @ \ {e}]
    /\ entry' = [entry EXCEPT ![r] = e.id]
    /\ next' = [next EXCEPT ![r] = 1]
    /\ \/ /\ late' = [late EXCEPT ![r] = pending[r] # {e}]
          /\ GoTo(r, "reading")
       \/ /\ ~late[r] /\ Exhausted(e)
          /\ GoTo(r, "moving")
          /\ UNCHANGED late
       \/ /\ ~late[r] /\ ~Exhausted(e) /\ e.retries > 0
          /\ UNCHANGED <<pc, late>>
       \/ /\ ~late[r] /\ ~Exhausted(e)
          /\ GoTo(r, "sending")
          /\ UNCHANGED late
    /\ UNCHANGED <<marker, flawed, scan, shared, scanUnchanged>>

RecoveryEnds(r) ==
    /\ scan[r] = "running" /\ pc[r] = "idle" /\ pending[r] = {}
    /\ scan' = [scan EXCEPT ![r] = "over"]
    /\ entry' = [entry EXCEPT ![r] = noEntry]
    /\ UNCHANGED <<marker, pc, next, flawed, pending, late, shared, scanUnchanged>>

\* The process ends, in order or not, and a new one starts: only files remain.
Crash ==
    /\ starts < MaxStarts
    /\ starts' = starts + 1
    /\ pc' = [w \in Worker |-> IF w \in Recovery THEN "idle"
                               ELSE IF pc[w] = "idle" THEN "idle" ELSE "done"]
    /\ readCount' = [w \in Worker |-> 0]
    /\ \E first \in Recovery : scan' = FirstOnly(first)
    /\ pending' = [r \in Recovery |-> {}] /\ late' = [r \in Recovery |-> FALSE]
    /\ entry' = [r \in Recovery |-> noEntry] /\ shared' = {}
    /\ next' = [w \in Worker |-> 1] /\ flawed' = [w \in Worker |-> FALSE]
    /\ UNCHANGED <<fileVars, queued, historyVars>>

\* An in-process restart: deliveries and recoveries that are under way go on, and
\* a further recovery is started beside them.
RestartInProcess(r) ==
    /\ starts < MaxStarts
    /\ scan[r] = "over"
    /\ starts' = starts + 1
    /\ scan' = [scan EXCEPT ![r] = "due"]
    /\ UNCHANGED <<fileVars, pc, next, flawed, readCount, queued, pending, entry, late,
                   shared, historyVars>>

Next ==
    \/ \E d \in Delivery : Persist(d)
    \/ \E w \in Worker : \/ SendPart(w) \/ SentAll(w)
                         \/ AckRename(w) \/ AckUnlink(w)
                         \/ FailRead(w) \/ FailWrite(w)
    \/ \E r \in Recovery : \/ MoveToFailed(r) \/ Load(r) \/ RecoveryEnds(r)
                           \/ \E e \in pending[r] : Take(r, e)
                           \/ RestartInProcess(r)
    \/ Crash

Spec == Init /\ [][Next]_vars

-----------------------------------------------------------------------------
(***************************************************************************)
(* Correctness.                                                             *)
(***************************************************************************)
Reached(d) == \A i \in 1 .. Parts : copies[d][i] > 0

\* Write-ahead: a delivery that was persisted and neither reached the
\* recipient in full nor was aborted is still on disk, to be sent again or in
\* failed/, whatever crashes, lost updates and failing file operations there
\* were.  (Best-effort deliveries may be dropped.)
NotLost ==
    \A d \in Delivery :
        queued[d] /\ d \notin BestEffort /\ ~aborted[d] /\ ~Reached(d)
        => Exists(d) \/ failedDir[d]

\* The two-phase acknowledgement: once the entry is renamed (or moved away) it
\* does not come back and nothing of it is sent again, also after a crash
\* between the two phases, and whichever of the sender and the recoveries of
\* several lives dealt with it.  Entries that a recovery found in the hands of
\* another worker are left out: a failure noted by one undoes the other's
\* acknowledgement.
AckedIsFinal ==
    [][\A d \in Delivery \ shared : queued[d] /\ ~Exists(d)
            => json'[d] = json[d] /\ copies'[d] = copies[d]]_vars

\* Recovery gives up: it sends an entry only while the file says that fewer
\* than MAX_RETRIES attempts failed, and the count in a file never falls.
\* Entries that a recovery found in the hands of another worker are left out, as
\* above: two workers read one count and both write the next.
GivesUp ==
    [][/\ \A r \in Recovery : pc[r] = "idle" /\ pc'[r] = "sending" =>
              json[entry'[r]] \in 0 .. MaxRetries - 1 \/ entry'[r] \in shared
       /\ \A d \in Delivery \ shared : Exists(d) /\ json'[d] >= 0 => json'[d] >= json[d]]_vars

=============================================================================
