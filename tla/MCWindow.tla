------------------------------ MODULE MCWindow ------------------------------
(* One button stands for those that do not concern the window: it is in the
   database scene, where an upload may cut its frame. *)
EXTENDS Window
MCScannerButtons  == {}
MCDatabaseButtons == {"rest"}
MCKillButtons     == {"kill"}
=============================================================================
