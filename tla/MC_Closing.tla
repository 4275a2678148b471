----------------------------- MODULE MC_Closing -----------------------------
(* Small instances of Closing for TLC. *)
EXTENDS Closing, TLC
=============================================================================
