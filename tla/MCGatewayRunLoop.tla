--------------------------- MODULE MCGatewayRunLoop ---------------------------
(* The run loop over two runs of one session, through two restarts.           *)
EXTENDS GatewayRunLoop, TLC

CONSTANTS s1, r1, r2

MCSession == {s1}
MCRun == {r1, r2}
MCCron == {}
MCSessionOf == [r \in Run |-> s1]
MCLaneParam == [r \in Run |-> ""]

MCMain == <<"lane", "main">>
MCCronLane == <<"lane", "cron">>
MCSubagent == <<"lane", "subagent">>
MCNested == <<"lane", "nested">>
MCSessionLane == [s \in MCSession |-> <<"session", s>>]
MCLane == {MCMain, MCCronLane, MCSubagent, MCNested}
            \cup {MCSessionLane[s] : s \in MCSession}

MCSessionEntry == [r \in Run |-> <<r, "session">>]
MCGlobalEntry == [r \in Run |-> <<r, "global">>]
MCCronEntry == [r \in Cron |-> <<r, "cron">>]
MCTask == {<<r, k>> : r \in Run, k \in {"session", "global"}}
MCLaneOf == [t \in MCTask |->
                IF t[2] = "session" THEN MCSessionLane[MCSessionOf[t[1]]] ELSE MCMain]

=============================================================================
