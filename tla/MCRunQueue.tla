----------------------------- MODULE MCRunQueue -----------------------------
(* RunQueue on small sets for TLC. *)
EXTENDS RunQueue
=============================================================================
