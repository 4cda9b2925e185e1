------------------------------ MODULE MC_Accounts ------------------------------
(* Two addresses, two Google accounts, two rows and four requests at once. *)
EXTENDS Accounts, TLC

AccountsSymmetry == Permutations(Requests) \cup Permutations(Emails) \cup Permutations(Subs)
================================================================================
