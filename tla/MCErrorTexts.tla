---------------------------- MODULE MCErrorTexts ----------------------------
(* The GUI thread and the workers of two tablets. *)
EXTENDS ErrorTexts, TLC
CONSTANTS gui, worker1, worker2
MCThreads == {gui, worker1, worker2}
Symmetric == Permutations(MCThreads)
=============================================================================
