--------------------------- MODULE MCMotionServer ---------------------------
(***************************************************************************)
(* Two goals of two clients, on a server whose idle loop and clean up may  *)
(* raise.                                                                  *)
(***************************************************************************)
EXTENDS MotionServer

CONSTANTS g1, g2, c1, c2
MCGoal == {g1, g2}
MCClient == {c1, c2}
MCClientOf == [g \in MCGoal |-> IF g = g2 THEN c2 ELSE c1]

LoopBreaks == {"idle", "cleanup"}
=============================================================================
