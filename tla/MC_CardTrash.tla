----------------------------- MODULE MC_CardTrash -----------------------------
(* Instances of CardTrash for the model checker. *)
EXTENDS CardTrash

CONSTANTS w1, w2

MCBackoff == <<1>>
MCAllSimilar == Recordings \X Recordings
==============================================================================
