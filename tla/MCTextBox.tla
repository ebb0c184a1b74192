----------------------------- MODULE MCTextBox -----------------------------
(* Two characters to tell apart. *)
EXTENDS TextBox
MCChars == {"a", "b"}
=============================================================================
