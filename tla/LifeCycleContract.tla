------------------------ MODULE LifeCycleContract --------------------------
(***************************************************************************)
(* What a statechart promises about the life cycles of its nodes, whatever *)
(* its conditions, observations and nodes are: the table and the rules of  *)
(* cramph/doc/statecharts.md without the way a tick computes them.         *)
(*                                                                         *)
(* In one pass any set of nodes that have not moved of their own accord in *)
(* this tick may do so, along an edge of the life cycle; every other node  *)
(* goes where its parent forces it, and every node ends up in a state that *)
(* fits the one its parent reaches in the same pass.                       *)
(***************************************************************************)
EXTENDS LifeCycle

CONSTANTS Node, NoParent

VARIABLES
  parent,  \* the parent of every node, or NoParent
  life,    \* the life cycle state of every node
  spent    \* the nodes that took a transition of their own in this tick

ParentState(n, lives) ==
  IF parent[n] = NoParent THEN NoParentState ELSE lives[parent[n]]

Consistent(lives) == \A n \in Node : FitsParent(lives[n], ParentState(n, lives))

Init ==
  /\ parent \in [Node -> Node \union {NoParent}]
  /\ life = [n \in Node |-> "NOT_STARTED"]
  /\ spent = {}

BeginTick ==
  /\ spent' = {}
  /\ UNCHANGED <<parent, life>>

Pass ==
  \E movers \in SUBSET (Node \ spent) :
    /\ life' \in [Node -> LifeCycleValues]
    /\ \A n \in Node :
         /\ Edge(life[n], life'[n])
         /\ n \notin movers
              => life'[n] = ForcedByParent(life[n], ParentState(n, life'))
    /\ Consistent(life')
    /\ spent' = spent \union movers
    /\ UNCHANGED parent

Next == BeginTick \/ Pass

vars == <<parent, life, spent>>
Spec == Init /\ [][Next]_vars
=============================================================================
