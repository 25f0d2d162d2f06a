---------------------------- MODULE MCRecompiling ----------------------------
(***************************************************************************)
(* A sequence handed one motion, a sequence to hold a step in, a motion to *)
(* insert or to choose, and a node choosing its child.                     *)
(***************************************************************************)
EXTENDS Recompiling

MCHanded == [p \in Composite |-> IF p = "sequence" THEN <<"first">> ELSE <<>>]
=============================================================================
