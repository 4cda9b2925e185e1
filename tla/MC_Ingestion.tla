----------------------------- MODULE MC_Ingestion -----------------------------
(* Instances of Ingestion for the model checker. *)
EXTENDS Ingestion, TLC

CONSTANTS w1, w2

MCBackoff == <<1, 2>>
MCAllSimilar == Recordings \X Recordings
MCReplicas == Permutations(Workers)
==============================================================================
