-------------------------- MODULE MCSessionWriteLock --------------------------
(* Two tasks in one process, and a third one in another.                      *)
EXTENDS SessionWriteLock, TLC

CONSTANTS p1, p2, t1, t2, t3

MCOf == [t \in Task |-> IF t = t3 THEN p2 ELSE p1]
MCSymmetry == Permutations({t1, t2})

=============================================================================
