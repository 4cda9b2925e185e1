------------------------------ MODULE MC_Cards ------------------------------
(* Instances of Cards for the model checker. *)
EXTENDS Cards, TLC

CONSTANTS x1, x2, x3, ingestion

\* Each body pairs fields that do not condition each other.
MCPatches ==
    {[titolo |-> "riscritto", costs |-> 2],
     [steps |-> 2],
     [steps |-> 0, visibility |-> "PUBBLICA"],
     [scope |-> "CLIENTE"],
     [status |-> "COMPLETA", contieneDatiSensibili |-> FALSE]}

MCRequests == Permutations(Requests)
==============================================================================
