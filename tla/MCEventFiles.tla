----------------------------- MODULE MCEventFiles -----------------------------
(* An instance of EventFiles for TLC. *)
EXTENDS EventFiles

CONSTANTS e1, e2
MCEvents == {e1, e2}
=============================================================================
