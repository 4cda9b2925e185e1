------------------------------ MODULE MC_Capture ------------------------------
(* Capture on a small device. *)
EXTENDS Capture, TLC

DeviceSymmetry == Permutations(Pages) \cup Permutations(Recordings)
================================================================================
