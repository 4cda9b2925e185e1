------------------------------- MODULE MC_Worker -------------------------------
(* Worker with two replicas of the API. *)
EXTENDS Worker, TLC

ReplicaSymmetry == Permutations(Replicas)
================================================================================
