----------------------- MODULE MCActionServerHandler ------------------------
(***************************************************************************)
(* Three goals, so that one can be answered while another is accepted and  *)
(* a third still polls.                                                    *)
(***************************************************************************)
EXTENDS ActionServerHandler

CONSTANTS g1, g2, g3
MCGoal == {g1, g2, g3}
=============================================================================
