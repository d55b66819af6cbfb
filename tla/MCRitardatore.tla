--------------------------- MODULE MCRitardatore ----------------------------
(* Instances of Ritardatore small enough for TLC. *)
EXTENDS Ritardatore
=============================================================================
