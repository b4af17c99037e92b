--------------------------- MODULE MCCommandQueue ---------------------------
(* CommandQueue on two lanes, caps up to two and one reset.  Three calls into *)
(* one lane are needed for one to overtake another while a third runs; the    *)
(* fourth call, into the other lane, shows that lanes do not disturb each     *)
(* other and that waitForActiveTasks looks at all of them.                    *)
EXTENDS CommandQueue, TLC

CONSTANTS main, nested, t1, t2, t3, t4

MCLane == {main, nested}
MCTask == {t1, t2, t3, t4}
MCLaneOf == (t1 :> main) @@ (t2 :> main) @@ (t3 :> main) @@ (t4 :> nested)

\* The calls into one lane are interchangeable.
MCSymmetry == Permutations({t1, t2, t3})

=============================================================================
