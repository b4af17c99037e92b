---------------------------- MODULE MCAgentLanes ----------------------------
(* Two user runs and a cron run that was started by hand, all of one session: *)
(* three runs are needed for one to overtake another while the first runs,    *)
(* and the cron run holds a slot of the cron lane around its place in line.   *)
EXTENDS AgentLanes, TLC

CONSTANTS s1, r1, r2, cr

MCSession == {s1}
MCCron == {cr}
MCRun == {r1, r2, cr}
MCSessionOf == [r \in Run |-> s1]
MCLaneParam == [r \in Run |-> IF r = cr THEN "cron" ELSE ""]

MCMain == <<"lane", "main">>
MCCronLane == <<"lane", "cron">>
MCSubagent == <<"lane", "subagent">>
MCNested == <<"lane", "nested">>
MCSessionLane == [s \in MCSession |-> <<"session", s>>]
MCLane == {MCMain, MCCronLane, MCSubagent, MCNested}
            \cup {MCSessionLane[s] : s \in MCSession}

MCSessionEntry == [r \in Run |-> <<r, "session">>]
MCGlobalEntry == [r \in Run |-> <<r, "global">>]
MCCronEntry == [r \in Cron |-> <<r, "cron">>]
MCTask == {<<r, k>> : r \in Run, k \in {"session", "global"}}
            \cup {<<r, "cron">> : r \in Cron}
MCLaneOf == [t \in MCTask |->
                IF t[2] = "session" THEN MCSessionLane[MCSessionOf[t[1]]]
                ELSE IF t[2] = "cron" THEN MCCronLane
                ELSE ResolveGlobalLane(MCLaneParam[t[1]])]

=============================================================================
