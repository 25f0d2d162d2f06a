---------------------------- MODULE MCGoalWorlds ----------------------------
(***************************************************************************)
(* Giskard and one client that joins late, and a chain of entities, each   *)
(* built on the one before.                                                *)
(***************************************************************************)
EXTENDS GoalWorlds

MCBase == [e \in Entity |-> IF e = 1 THEN 0 ELSE e - 1]
=============================================================================
