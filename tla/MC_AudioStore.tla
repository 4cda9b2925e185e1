---------------------------- MODULE MC_AudioStore ----------------------------
(* Instances of AudioStore for the model checker. *)
EXTENDS AudioStore

CONSTANT s1
==============================================================================
