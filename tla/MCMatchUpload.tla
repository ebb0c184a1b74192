---------------------------- MODULE MCMatchUpload ----------------------------
(* An instance of MatchUpload for TLC. *)
EXTENDS MatchUpload, TLC

CONSTANTS p1, p2

MCPoints  == {p1, p2}
MCMatches == {{p1}, {p2}, {p1, p2}}     \* every match of one point or two
Symmetric == Permutations(MCPoints)
=============================================================================
