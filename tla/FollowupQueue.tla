---------------------------- MODULE FollowupQueue ----------------------------
(***************************************************************************)
(* The follow-up queue of one session, src/src/auto-reply/reply/queue/*.ts  *)
(* with src/src/utils/queue-helpers.ts: messages that arrive while the      *)
(* session's agent run is active wait here for a turn of their own.         *)
(*                                                                          *)
(* FOLLOWUP_QUEUES maps the session key to a queue object.  A drain keeps a *)
(* reference to the object it began with across its awaits, and the map may *)
(* meanwhile have been cleared or hold a newer object, so objects have      *)
(* identities here: `current` is the map entry, and an object that is       *)
(* neither current nor drained is garbage and its identity is used again.   *)
(*                                                                          *)
(* A drain is at an await in every state between two actions: pc is         *)
(* "debounce" at waitForQueueDebounce and "turn" at runFollowup.  A message *)
(* has a message id and a route; the window of the recent-id cache (five    *)
(* minutes, 10000 ids) does not end within a behaviour.  The drain callback *)
(* is the same function for every drain of a key and is not a variable, and *)
(* droppedCount is the size of `dropped`.                                   *)
(***************************************************************************)
EXTENDS Integers, Sequences, FiniteSets, Functions

CONSTANTS
    Message,     \* the inbound messages, by message id
    RouteOf,     \* the channel, account, recipient and thread of each
    Unroutable,  \* the route resolveCrossChannelKey calls `cross`
    Settings,    \* the queue settings a message may come with
    Object,      \* bound: the queue objects alive at once
    None,        \* no queue object under the key
    MaxClears    \* bound: how often the session's queues are cleared

ASSUME SettingsAssumption ==
    /\ Settings \subseteq [mode : {"collect", "followup"},
                           cap : Nat \ {0},
                           drop : {"summarize", "old", "new"}]
    /\ Settings # {}
ASSUME ObjectAssumption == None \notin Object /\ MaxClears \in Nat

VARIABLES
    current,   \* FOLLOWUP_QUEUES.get(key)
    items,     \* queue.items, per object
    dropped,   \* the messages queue.droppedCount counts, per object
    settings,  \* queue.mode, queue.cap, queue.dropPolicy, per object
    pc,        \* where the object's drain stands
    forced,    \* collectState.forceIndividualCollect of that drain
    turn,      \* the turn that drain has in flight
    recent,    \* RECENT_QUEUE_MESSAGE_IDS
    main,      \* the session's ordinary run: active, or about to finalize
    clears,    \* how often the queues were cleared
    fate       \* what became of each message (history)

drainVars == <<current, pc, forced>>
vars == <<drainVars, items, dropped, settings, turn, recent, main, clears, fate>>

Fates == {"new", "queued", "evicted", "discarded", "answered", "cleared"}

TypeOK ==
    /\ current \in Object \cup {None}
    /\ items \in [Object -> Seq(Message)] /\ \A q \in Object : IsInjective(items[q])
    /\ dropped \in [Object -> SUBSET Message]
    /\ settings \in [Object -> Settings]
    /\ pc \in [Object -> {"idle", "debounce", "turn"}]
    /\ forced \in [Object -> BOOLEAN]
    /\ turn \in [Object -> [prompt : SUBSET Message, report : SUBSET Message, take : Nat]]
    /\ recent \subseteq Message
    /\ main \in {"idle", "active", "finishing"}
    /\ clears \in 0 .. MaxClears
    /\ fate \in [Message -> Fates]

NoTurn == [prompt |-> {}, report |-> {}, take |-> 0]

Init ==
    /\ current = None
    /\ items = [q \in Object |-> <<>>]
    /\ dropped = [q \in Object |-> {}]
    /\ settings = [q \in Object |-> CHOOSE s \in Settings : TRUE]
    /\ pc = [q \in Object |-> "idle"]
    /\ forced = [q \in Object |-> FALSE]
    /\ turn = [q \in Object |-> NoTurn]
    /\ recent = {}
    /\ main = "idle"
    /\ clears = 0
    /\ fate = [m \in Message |-> "new"]

-----------------------------------------------------------------------------
(***************************************************************************)
(* Starting and ending a drain.  Both are given the queue contents and the  *)
(* program counters the rest of the handler has computed.                   *)
(***************************************************************************)
Empty(q, its, drp) == its[q] = <<>> /\ drp[q] = {}

\* scheduleFollowupDrain(key): nothing to do without a queue or while it is
\* draining; an empty queue's loop is not entered and its entry is deleted.
Schedule(cur, pcs, its, drp) ==
    \/ /\ cur = None \/ (cur \in Object /\ pcs[cur] # "idle")
       /\ current' = cur /\ pc' = pcs
       /\ UNCHANGED forced
    \/ /\ cur \in Object /\ pcs[cur] = "idle" /\ ~Empty(cur, its, drp)
       /\ current' = cur
       /\ pc' = [pcs EXCEPT ![cur] = "debounce"]
       /\ forced' = [forced EXCEPT ![cur] = FALSE]
    \/ /\ cur \in Object /\ pcs[cur] = "idle" /\ Empty(cur, its, drp)
       /\ current' = None /\ pc' = pcs
       /\ UNCHANGED forced

\* Mutant: a drain that stops on an error does not schedule the next one.
EndDrainNoReschedule(q, its, drp) ==
    /\ pc' = [pc EXCEPT ![q] = "idle"]
    /\ current' = IF Empty(q, its, drp) THEN None ELSE current
    /\ UNCHANGED forced

\* The `finally` of the drain.  The key is deleted without looking at which
\* object it now leads to.
EndDrain(q, its, drp) ==
    IF Empty(q, its, drp)
    THEN /\ current' = None
         /\ pc' = [pc EXCEPT ![q] = "idle"]
         /\ UNCHANGED forced
    ELSE Schedule(current, [pc EXCEPT ![q] = "idle"], its, drp)

\* The `while` condition, after a turn.
Loop(q, its, drp) ==
    IF Empty(q, its, drp)
    THEN EndDrain(q, its, drp)
    ELSE pc' = [pc EXCEPT ![q] = "debounce"] /\ UNCHANGED <<current, forced>>

-----------------------------------------------------------------------------
(***************************************************************************)
(* A message arrives while the session was seen active: enqueueFollowupRun, *)
(* and scheduleFollowupDrain when the run turns out to have ended.          *)
(***************************************************************************)
\* isEmbeddedPiRunActive: a turn is registered during part of it only.
MayBeActive == main = "active" \/ \E q \in Object : pc[q] = "turn"
MayBeInactive == main # "active"

\* How many of the oldest items applyQueueDropPolicy splices out.
Overflow(its, cap) == IF Len(its) < cap THEN 0 ELSE Len(its) - cap + 1

Accept(q, m, its, drp, s) ==
    LET n == Overflow(its[q], s.cap)
        out == {its[q][i] : i \in 1 .. n}
        gone == IF s.drop = "summarize" THEN "evicted" ELSE "discarded"
    IN  /\ items' = [its EXCEPT ![q] = Append(SubSeq(@, n + 1, Len(@)), m)]
        /\ dropped' = IF s.drop = "summarize" THEN [drp EXCEPT ![q] = @ \cup out] ELSE drp
        /\ recent' = recent \cup {m}
        /\ fate' = [x \in Message |-> IF x = m THEN "queued"
                                      ELSE IF x \in out THEN gone ELSE fate[x]]

Reject(its, drp) == items' = its /\ dropped' = drp /\ UNCHANGED <<recent, fate>>

IsDuplicate(m, queued) == m \in recent \/ m \in Range(queued)

Garbage == {q \in Object : q # current /\ pc[q] = "idle"}

Deliver(m, s) ==
    \E q \in IF current = None THEN Garbage ELSE {current} :
        LET its == IF current = None THEN [items EXCEPT ![q] = <<>>] ELSE items
            drp == IF current = None THEN [dropped EXCEPT ![q] = {}] ELSE dropped
            full == Overflow(its[q], s.cap) > 0 /\ s.drop = "new"
            refused == IsDuplicate(m, its[q]) \/ full
        IN  /\ settings' = [settings EXCEPT ![q] = s]
            /\ \/ refused /\ Reject(its, drp)
               \/ ~refused /\ Accept(q, m, its, drp, s)
            /\ \/ /\ MayBeActive
                  /\ current' = q
                  /\ UNCHANGED <<pc, forced>>
               \/ /\ MayBeInactive
                  /\ Schedule(q, pc, items', dropped')
            /\ UNCHANGED <<turn, main, clears>>

-----------------------------------------------------------------------------
(***************************************************************************)
(* The drain.                                                               *)
(***************************************************************************)
CrossChannel(its) ==
    \/ Unroutable \in {RouteOf[m] : m \in Range(its)}
    \/ \E m, n \in Range(its) : RouteOf[m] # RouteOf[n]

\* previewQueueSummaryPrompt: what the summary would report.
Summary(q) == IF settings[q].drop = "summarize" THEN dropped[q] ELSE {}

\* Mutant: the newest item is handed out first.
OneByOneNewest(q) ==
    IF items[q] = <<>> THEN {}
    ELSE {[prompt |-> {items[q][Len(items[q])]}, report |-> {}, take |-> 1]}

OneByOne(q) ==
    IF items[q] = <<>> THEN {}
    ELSE {[prompt |-> {Head(items[q])}, report |-> {}, take |-> 1]}

Batch(q) == [prompt |-> Range(items[q]), report |-> Summary(q), take |-> Len(items[q])]

\* The turn the loop body runs next; none when it breaks.  queue.lastRun is
\* missing only after a clear, and then nothing is queued or counted.
CollectTurns(q) ==
    IF forced[q] \/ CrossChannel(items[q]) THEN OneByOne(q)
    ELSE IF Empty(q, items, dropped) THEN {} ELSE {Batch(q)}

\* A summary takes the place of the prompt of the item at the head.
FollowupTurns(q) ==
    IF Summary(q) = {} THEN OneByOne(q)
    ELSE IF items[q] = <<>> THEN {}
    ELSE {[prompt |-> {}, report |-> Summary(q), take |-> 1]}

\* The debounce is over and the loop body runs up to its next await.
BeginTurn(q) ==
    LET collect == settings[q].mode = "collect"
        next == IF collect THEN CollectTurns(q) ELSE FollowupTurns(q)
    IN  /\ pc[q] = "debounce"
        /\ \/ /\ next = {}
              /\ EndDrain(q, items, dropped)
              /\ UNCHANGED turn
           \/ /\ \E t \in next : turn' = [turn EXCEPT ![q] = t]
              /\ pc' = [pc EXCEPT ![q] = "turn"]
              /\ forced' = [forced EXCEPT ![q] =
                               @ \/ (collect /\ CrossChannel(items[q]))]
              /\ UNCHANGED current
        /\ UNCHANGED <<items, dropped, settings, recent, main, clears, fate>>

\* Mutant: the items are spliced out of the snapshot.
TakenFromCopy(q) == items[q]

\* shift or splice(0, items.length), on whatever the queue holds by now.
Taken(q) == SubSeq(items[q], turn[q].take + 1, Len(items[q]))

\* runFollowup resolved: the turn's items are removed, and with them the
\* whole summary state when the turn carried a summary.
TurnReturns(q) ==
    LET its == [items EXCEPT ![q] = Taken(q)]
        drp == IF turn[q].report = {} THEN dropped ELSE [dropped EXCEPT ![q] = {}]
    IN  /\ pc[q] = "turn"
        /\ items' = its
        /\ dropped' = drp
        /\ fate' = [m \in Message |->
                IF m \in turn[q].prompt /\ fate[m] # "cleared" THEN "answered"
                ELSE fate[m]]
        /\ turn' = [turn EXCEPT ![q] = NoTurn]
        /\ Loop(q, its, drp)
        /\ UNCHANGED <<settings, recent, main, clears>>

\* Mutant: the items of a turn that threw are removed as well.
TurnThrowsConsumed(q) ==
    LET its == [items EXCEPT ![q] = Taken(q)]
    IN  /\ pc[q] = "turn"
        /\ items' = its
        /\ turn' = [turn EXCEPT ![q] = NoTurn]
        /\ EndDrain(q, its, dropped)
        /\ UNCHANGED <<dropped, settings, recent, main, clears, fate>>

\* runFollowup rejected: nothing is removed and the drain starts again.
TurnThrows(q) ==
    /\ pc[q] = "turn"
    /\ turn' = [turn EXCEPT ![q] = NoTurn]
    /\ EndDrain(q, items, dropped)
    /\ UNCHANGED <<items, dropped, settings, recent, main, clears, fate>>

-----------------------------------------------------------------------------
\* Mutant: the entry is deleted and the object is left as it is.
ClearEntryOnly ==
    /\ clears < MaxClears
    /\ clears' = clears + 1
    /\ current' = None
    /\ fate' = [m \in Message |->
            IF current # None /\ m \in Range(items[current]) \cup dropped[current]
            THEN "cleared" ELSE fate[m]]
    /\ UNCHANGED <<items, dropped, pc, forced, settings, turn, recent, main>>

\* clearSessionQueues, the follow-up half: the object is emptied in place, so
\* that a drain that holds it sees it empty, and the entry is deleted.
Clear ==
    /\ clears < MaxClears
    /\ clears' = clears + 1
    /\ current' = None
    /\ items' = [q \in Object |-> IF q = current THEN <<>> ELSE items[q]]
    /\ dropped' = [q \in Object |-> IF q = current THEN {} ELSE dropped[q]]
    /\ fate' = [m \in Message |->
            IF current # None /\ m \in Range(items[current]) \cup dropped[current]
               /\ fate[m] \in {"queued", "evicted"}
            THEN "cleared" ELSE fate[m]]
    /\ UNCHANGED <<pc, forced, settings, turn, recent, main>>

\* The ordinary run of the session: it is registered as active, its handle is
\* removed when the agent stops, and runReplyAgent finalizes some awaits later.
MainStarts ==
    /\ main = "idle" /\ main' = "active"
    /\ UNCHANGED <<drainVars, items, dropped, settings, turn, recent, clears, fate>>

MainEnds ==
    /\ main = "active" /\ main' = "finishing"
    /\ UNCHANGED <<drainVars, items, dropped, settings, turn, recent, clears, fate>>

\* finalizeWithFollowup
MainFinalizes ==
    /\ main = "finishing" /\ main' = "idle"
    /\ Schedule(current, pc, items, dropped)
    /\ UNCHANGED <<items, dropped, settings, turn, recent, clears, fate>>

Next ==
    \/ \E m \in Message, s \in Settings : Deliver(m, s)
    \/ \E q \in Object : BeginTurn(q) \/ TurnReturns(q) \/ TurnThrows(q)
    \/ Clear
    \/ MainStarts \/ MainEnds \/ MainFinalizes

Spec == Init /\ [][Next]_vars

\* Timers fire, the ordinary run ends (run timeout) and finalizes (its catch
\* does too), a turn settles, and one that is retried for ever succeeds in
\* the end: follow-up runs report agent errors without throwing.
Fairness ==
    /\ WF_vars(MainEnds) /\ WF_vars(MainFinalizes)
    /\ \A q \in Object : WF_vars(BeginTurn(q)) /\ SF_vars(TurnReturns(q))

FairSpec == Spec /\ Fairness

-----------------------------------------------------------------------------
(***************************************************************************)
(* Correctness.                                                             *)
(***************************************************************************)
\* The key leads to a queue with the message in it, or a drain works on one.
Kept(m) == \E q \in Object : (q = current \/ pc[q] # "idle") /\ m \in Range(items[q])

\* No accepted message is lost: until it is answered, evicted by the cap or
\* cleared, it is in a queue that the key leads to or that a drain works on
\* ("retries collect-mode batches without losing queued items").
NoneLost == \A m \in Message : fate[m] = "queued" => Kept(m)

\* With evictions and clears a message is lost in three cases only: a drain ends
\* that a clear has taken the key from, and deletes the newer queue of that key
\* (drain.ts:180); the cap has evicted items of the turn in flight, and the drain
\* removes as many items as it had read (drain.ts:138); or the turn that reports
\* a summary takes the item at the head with it (drain.ts:152).  Retries, mode
\* and cap changes, redeliveries and concurrent drains lose none.
LostOnlyBy ==
    [][\A m \in Message :
            fate[m] = "queued" /\ fate'[m] = "queued" /\ Kept(m) /\ ~Kept(m)' =>
                \E q \in Object :
                    \/ q # current /\ pc[q] # "idle" /\ pc'[q] = "idle"
                    \/ /\ pc[q] = "turn" /\ pc'[q] # "turn"
                       /\ \/ ~(turn[q].prompt \subseteq Range(items[q]))
                          \/ turn[q].prompt = {} /\ m = Head(items[q])]_vars

\* A message that was answered or cleared is not queued again by a redelivery,
\* and no turn begins with one, whatever retries, clears and concurrent drains
\* happen in between ("does not process messages after clearSessionQueues
\* clears the callback").
NeverAskedAgain ==
    [][/\ \A m \in Message : fate[m] \in {"answered", "cleared"} => fate'[m] = fate[m]
       /\ \A q \in Object : pc[q] = "debounce" /\ pc'[q] = "turn" =>
              \A m \in turn'[q].prompt : fate[m] = "queued"]_vars

\* A message is not answered while one that is ahead of it in the queue is
\* still waiting.
InOrder ==
    [][\A q \in Object : \A i, j \in 1 .. Len(items[q]) :
            i < j /\ fate[items[q][j]] = "queued" /\ fate'[items[q][j]] = "answered"
            => fate'[items[q][i]] # "queued"]_vars

\* Every accepted message gets its turn, unless it is evicted or cleared.
Answered == \A m \in Message : fate[m] = "queued" ~> fate[m] # "queued"

\* Draining comes to an end: when no more messages arrive, no drain goes
\* round for ever.
DrainsRest == \A q \in Object : pc[q] # "idle" ~> pc[q] = "idle"

=============================================================================
