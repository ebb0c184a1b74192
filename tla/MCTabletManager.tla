-------------------------- MODULE MCTabletManager --------------------------
(* Instances of TabletManager for TLC. *)
EXTENDS TabletManager, TLC

CONSTANTS t1, t2, t3

Two   == {t1, t2}
Three == {t1, t2, t3}

\* Connections are alike: sound for the safety runs, not used with liveness.
Symmetric == Permutations(Tablets)

AllCodes == {"match", "matchList", "info", "otherRead", "send", "otherSend", "close"}
SomeCodes == {"match", "info", "send"}
SafeCodes == {"info", "send"}
ClosingCodes == {"info", "close"}
=============================================================================
