------------------------- MODULE MCWorldPublication -------------------------
(***************************************************************************)
(* Threads t1 and t2 modify a world of one degree of freedom and introduce *)
(* a second; t3 writes positions.                                          *)
(***************************************************************************)
EXTENDS WorldPublication

CONSTANTS t1, t2, t3, d1, d2

TwoThreads == {t1, t2}
ThreeThreads == {t1, t2, t3}
Third == {t3}
MCDof == {d1, d2}
OldDof == {d1}
AnythingFails == {"body", "validation", "mismatch"}
=============================================================================
