----------------------------- MODULE NodeRegistry -----------------------------
(***************************************************************************)
(* Connected nodes and the invokes that wait for them,                      *)
(* src/src/gateway/node-registry.ts.                                        *)
(*                                                                          *)
(* A node may come back on a new connection before the gateway sees the old *)
(* one close.  The functions of the class run to completion; an invoke      *)
(* waits for a result, a disconnect or its timeout.  An open connection may *)
(* have lost its peer: nothing forces a result.                             *)
(***************************************************************************)
EXTENDS Integers, FiniteSets

CONSTANTS
    Node,      \* node ids
    Conn,      \* connections of nodes
    NodeOf,    \* the node at the other end of each connection
    Invoke,    \* calls of invoke
    TargetOf,  \* the node each call names
    none       \* no connection

ASSUME RegistryAssumption ==
    /\ NodeOf \in [Conn -> Node]
    /\ TargetOf \in [Invoke -> Node]
    /\ none \notin Conn

VARIABLES
    conn,         \* the socket of each connection
    nodesById,    \* the connection of the session kept for each node
    nodesByConn,  \* the connections that are registered
    invoke,       \* where each call stands: pendingInvokes has the waiting ones
    sentOn,       \* the connection its request went out on
    latest,       \* observed: the last connection of each node to register
    cut           \* observed: an older one has closed since

registryVars == <<conn, nodesById, nodesByConn, invoke, sentOn, latest, cut>>

InvokeEnds == {"answered", "timedOut", "disconnected", "unavailable"}

RegistryTypeOK ==
    /\ conn \in [Conn -> {"new", "open", "closed"}]
    /\ nodesById \in [Node -> Conn \cup {none}]
    /\ nodesByConn \in SUBSET Conn
    /\ invoke \in [Invoke -> {"new", "waiting"} \cup InvokeEnds]
    /\ sentOn \in [Invoke -> Conn \cup {none}]
    /\ latest \in [Node -> Conn \cup {none}]
    /\ cut \in [Node -> BOOLEAN]

RegistryInit ==
    /\ conn = [c \in Conn |-> "new"]
    /\ nodesById = [n \in Node |-> none]
    /\ nodesByConn = {}
    /\ invoke = [i \in Invoke |-> "new"]
    /\ sentOn = [i \in Invoke |-> none]
    /\ latest = [n \in Node |-> none]
    /\ cut = [n \in Node |-> FALSE]

Connected(n) == nodesById[n] # none

\* Mutant: the session of a node that has come back is not replaced.
RegisterFirst(c) ==
    /\ conn[c] = "new"
    /\ conn' = [conn EXCEPT ![c] = "open"]
    /\ nodesById' = [nodesById EXCEPT ![NodeOf[c]] = IF @ = none THEN c ELSE @]
    /\ nodesByConn' = nodesByConn \cup {c}
    /\ latest' = [latest EXCEPT ![NodeOf[c]] = c]
    /\ cut' = [cut EXCEPT ![NodeOf[c]] = FALSE]
    /\ UNCHANGED <<invoke, sentOn>>

\* register, when the handshake of a node is done
Register(c) ==
    /\ conn[c] = "new"
    /\ conn' = [conn EXCEPT ![c] = "open"]
    /\ nodesById' = [nodesById EXCEPT ![NodeOf[c]] = c]
    /\ nodesByConn' = nodesByConn \cup {c}
    /\ latest' = [latest EXCEPT ![NodeOf[c]] = c]
    /\ cut' = [cut EXCEPT ![NodeOf[c]] = FALSE]
    /\ UNCHANGED <<invoke, sentOn>>

\* The calls of a node that is said to be gone are rejected.
Reject(n) ==
    [i \in Invoke |-> IF invoke[i] = "waiting" /\ TargetOf[i] = n
                      THEN "disconnected" ELSE invoke[i]]

\* Mutant: the close of a connection that is not the current one is ignored.
UnregisterCurrentOnly(c) ==
    LET n == NodeOf[c] IN
    /\ conn[c] = "open"
    /\ conn' = [conn EXCEPT ![c] = "closed"]
    /\ nodesByConn' = nodesByConn \ {c}
    /\ nodesById' = [nodesById EXCEPT ![n] = IF @ = c THEN none ELSE @]
    /\ invoke' = IF nodesById[n] = c THEN Reject(n) ELSE invoke
    /\ cut' = [cut EXCEPT ![n] = @ \/ latest[n] # c]
    /\ UNCHANGED <<sentOn, latest>>

\* unregister, when a connection closes: it is not compared with the one that
\* nodesById holds.
Unregister(c) ==
    LET n == NodeOf[c] IN
    /\ conn[c] = "open"
    /\ conn' = [conn EXCEPT ![c] = "closed"]
    /\ nodesByConn' = nodesByConn \ {c}
    /\ nodesById' = [nodesById EXCEPT ![n] = none]
    /\ invoke' = Reject(n)
    /\ cut' = [cut EXCEPT ![n] = @ \/ latest[n] # c]
    /\ UNCHANGED <<sentOn, latest>>

\* invoke: the request goes out on the connection kept for the node, or cannot
\* be sent.
SendInvoke(i) ==
    /\ invoke[i] = "new"
    /\ Connected(TargetOf[i])
    /\ \/ /\ invoke' = [invoke EXCEPT ![i] = "waiting"]
          /\ sentOn' = [sentOn EXCEPT ![i] = nodesById[TargetOf[i]]]
       \/ /\ invoke' = [invoke EXCEPT ![i] = "unavailable"]
          /\ UNCHANGED sentOn
    /\ UNCHANGED <<conn, nodesById, nodesByConn, latest, cut>>

InvokeTimesOut(i) ==
    /\ invoke[i] = "waiting"
    /\ invoke' = [invoke EXCEPT ![i] = "timedOut"]
    /\ UNCHANGED <<conn, nodesById, nodesByConn, sentOn, latest, cut>>

\* handleInvokeResult: a node answers on whatever connection it has; an answer
\* to a call that no longer waits is ignored.
InvokeResult(i, c) ==
    /\ conn[c] = "open"
    /\ invoke[i] = "waiting"
    /\ TargetOf[i] = NodeOf[c]
    /\ invoke' = [invoke EXCEPT ![i] = "answered"]
    /\ UNCHANGED <<conn, nodesById, nodesByConn, sentOn, latest, cut>>

-----------------------------------------------------------------------------
\* A node with an open connection can be invoked on the last one it opened,
\* unless an older one closed after that one was registered
\* (node-registry.ts:87 then takes the newer session away).
Reachable ==
    \A n \in Node :
        latest[n] \in nodesByConn => nodesById[n] = latest[n] \/ cut[n]

\* The two maps and the pending calls agree: the session kept for a node is that
\* of a registered connection of it, so no request goes out on one that has
\* closed (node-registry.ts:86-87); and a caller waits only as long as the
\* connection its request was sent on, whatever connection the node has by the
\* time that one closes (node-registry.ts:88-95).
RegistryConsistent ==
    /\ \A n \in Node : Connected(n) => /\ nodesById[n] \in nodesByConn
                                       /\ NodeOf[nodesById[n]] = n
    /\ \A i \in Invoke : invoke[i] = "waiting" => sentOn[i] \in nodesByConn
=============================================================================
