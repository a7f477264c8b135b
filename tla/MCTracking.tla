----------------------------- MODULE MCTracking -----------------------------
(* Small sets of options for Tracking.                                     *)
EXTENDS Tracking, TLC

Option(i, p, d) == [interval |-> i, power |-> p, distance |-> d]

(* A fast session of low accuracy, a slow one of high accuracy, a slow one *)
(* of low accuracy, and one that asks for a minimum distance.              *)
MCOptions ==
  {Option(1, 2, FALSE), Option(2, 1, FALSE), Option(2, 2, FALSE), Option(2, 2, TRUE)}

Symmetry == Permutations(Sessions)

=============================================================================
