----------------------------- MODULE MCGProxy -------------------------------
(* Instances of GProxy small enough for TLC. *)
EXTENDS GProxy
=============================================================================
