----------------------------- MODULE MC_ApiClient -----------------------------
(* ApiClient in a browser with two tabs. *)
EXTENDS ApiClient
================================================================================
