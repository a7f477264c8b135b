----------------------------- MODULE MCLocTimer -----------------------------
(* A kept timer that may be started again, another one, and a wrapper.     *)
EXTENDS LocTimer, TLC
Symmetry == Permutations(Kept)
=============================================================================
