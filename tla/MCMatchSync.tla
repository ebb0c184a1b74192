----------------------------- MODULE MCMatchSync -----------------------------
(* An instance of MatchSync for TLC. *)
EXTENDS MatchSync

CONSTANTS m1, m2
MCMatches == {m1, m2}
=============================================================================
