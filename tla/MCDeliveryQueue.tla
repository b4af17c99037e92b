--------------------------- MODULE MCDeliveryQueue ---------------------------
(* A small instance of DeliveryQueue: one delivery with best effort and an    *)
(* onError callback, and one that fails at its first error.                   *)
EXTENDS DeliveryQueue, TLC

CONSTANTS d1, d2, r1, r2

Two == {d1, d2}
First == {d1}
MCSymmetry == Permutations(Recovery)

=============================================================================
