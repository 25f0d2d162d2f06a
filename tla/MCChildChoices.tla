--------------------------- MODULE MCChildChoices ---------------------------
(***************************************************************************)
(* Two nodes of a goal that choose their children side by side.            *)
(***************************************************************************)
EXTENDS ChildChoices
=============================================================================
