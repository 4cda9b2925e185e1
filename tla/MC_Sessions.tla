---------------------------- MODULE MC_Sessions ----------------------------
(* Instances of Sessions for the model checker. *)
EXTENDS Sessions, TLC

CONSTANTS x1, x2, x3, x4, x5

MCRequests == Permutations(Requests)
==============================================================================
