--------------------------- MODULE MCHeartbeatWake ---------------------------
(* A small instance of HeartbeatWake: two targets, an interval wake and an    *)
(* action wake, and two handlers, one after the other.                             *)
EXTENDS HeartbeatWake, TLC

CONSTANTS t1, t2

MCTarget == {t1, t2}
\* REASON_PRIORITY.INTERVAL and REASON_PRIORITY.ACTION
MCPriority == {1, 3}
\* The interval timer of the runner asks for 0, all others for the default.
MCCoalesce == {0, 1}
MCRequests == {<<t1, 1, 0>>, <<t1, 3, 1>>, <<t2, 1, 0>>}
=============================================================================
