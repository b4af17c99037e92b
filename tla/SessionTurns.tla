---------------------------- MODULE SessionTurns ----------------------------
(***************************************************************************)
(* What the two levels of lanes promise a session: its runs form a line,    *)
(* they are served in the order they arrived, and only the run at the head  *)
(* of the line executes a turn, once (docs/concepts/queue.md: "to guarantee *)
(* only one active run per session").                                       *)
(***************************************************************************)
EXTENDS Sequences, FiniteSets

CONSTANTS Session, Run, SessionOf

VARIABLES
    line,      \* per session, the runs admitted and not yet gone, in order
    turn,      \* the runs whose turn executes now
    finished   \* the runs whose turn is over

vars == <<line, turn, finished>>

Init ==
    /\ line = [s \in Session |-> <<>>]
    /\ turn = {}
    /\ finished = {}

Heads == {line[s][1] : s \in {x \in Session : line[x] # <<>>}}

\* A run joins the end of its session's line.
Arrive(r) ==
    /\ line' = [line EXCEPT ![SessionOf[r]] = Append(@, r)]
    /\ UNCHANGED <<turn, finished>>

\* Turns of runs at the head begin and end; an ended turn does not begin again.
Turns ==
    /\ turn' \in SUBSET ((Heads \ finished) \cup turn)
    /\ finished' = finished \cup (turn \ turn')
    /\ UNCHANGED line

\* The run at the head leaves when its turn is over or was refused.
Leave(s) ==
    /\ line[s] # <<>>
    /\ line[s][1] \notin turn
    /\ line' = [line EXCEPT ![s] = Tail(@)]
    /\ UNCHANGED <<turn, finished>>

\* The runs behind the head give up (the session was reset or aborted).
Cancel(s) ==
    /\ line[s] # <<>>
    /\ line' = [line EXCEPT ![s] = SubSeq(@, 1, 1)]
    /\ UNCHANGED <<turn, finished>>

Next ==
    \/ \E r \in Run : Arrive(r)
    \/ Turns
    \/ \E s \in Session : Leave(s)
    \/ \E s \in Session : Cancel(s)

Spec == Init /\ [][Next]_vars

=============================================================================
