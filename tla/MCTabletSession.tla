-------------------------- MODULE MCTabletSession --------------------------
(* Instances of TabletSession for TLC: numbers only, given in the cfg. *)
EXTENDS TabletSession
=============================================================================
