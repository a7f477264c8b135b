----------------------------- MODULE MCBatching -----------------------------
(* A routine and an unreported session, a long trip at a short interval and *)
(* a short one at a long interval.  Clients are interchangeable.            *)
EXTENDS Batching, TLC

MCOptions ==
  {[mode |-> "routine", distance |-> 0, tbf |-> 0],
   [mode |-> "unreported", distance |-> 0, tbf |-> 0],
   [mode |-> "trip", distance |-> 4, tbf |-> 2],
   [mode |-> "trip", distance |-> 2, tbf |-> 4]}

MCCommands == "calm" :> 5 @@ "lossy" :> 4 @@ "crowded" :> 3

Symmetry == Permutations(Clients)
=============================================================================
