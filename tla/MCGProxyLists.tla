--------------------------- MODULE MCGProxyLists ----------------------------
(* Instances of GProxyLists small enough for TLC. *)
EXTENDS GProxyLists
=============================================================================
