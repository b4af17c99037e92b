--------------------------- MODULE MCFollowupQueue ---------------------------
(***************************************************************************)
(* Small instances of FollowupQueue: three messages, two of one route.      *)
(***************************************************************************)
EXTENDS FollowupQueue, TLC

CONSTANTS m1, m2, m3, q1, q2

ThreeMessages == {m1, m2, m3}
TwoRoutes == m1 :> "dm" @@ m2 :> "dm" @@ m3 :> "group"

Made(modes, caps, drops) == [mode : modes, cap : caps, drop : drops]

Objects == {q1, q2}
ObjectSymmetry == Permutations(Objects)

\* Nothing queued is ever evicted.
KeepQueued == Made({"collect", "followup"}, {1, 2}, {"new"})

\* Evictions of both kinds, with the cap and the mode changing on the way.
Evicting ==
    {[mode |-> "collect",  cap |-> 2, drop |-> "summarize"],
     [mode |-> "collect",  cap |-> 1, drop |-> "old"],
     [mode |-> "followup", cap |-> 1, drop |-> "summarize"]}
=============================================================================
