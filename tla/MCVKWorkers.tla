----------------------------- MODULE MCVKWorkers -----------------------------
(* Instances of VKWorkers for TLC. *)
EXTENDS VKWorkers
=============================================================================
