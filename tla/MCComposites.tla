---------------------------- MODULE MCComposites ----------------------------
(***************************************************************************)
(* Every template around every other template: the root 1 holds the        *)
(* composite 2 over the nodes 3 and 4 beside the node 6, in either order   *)
(* where the order matters; 5 and 7 cancel the statechart where 2 and 1    *)
(* carry an exception, 8 ends it once the root reached its goal, 9 cancels *)
(* it once the root failed.                                                *)
(***************************************************************************)
EXTENDS Composites

CONSTANTS Outer, Inner

MCNode == 1..9
MCNoParent == 0

\* The orders in which a template takes the composite and the node beside it.
Orders(kind, first, second, exception) ==
  CASE kind = "RepeatUntil" -> {<<first, second>>, <<first, second, exception>>}
    [] kind = "CancelledWhenTrue" -> {<<second, first, exception>>}
    [] kind \in {"PausedUntilTrue", "StoppedWhenTrue"} -> {<<second, first>>, <<first, second>>}
    [] kind = "PausedWhileTrue" -> {<<second, first>>}
    [] kind \in {"Parallel", "TryAll"} -> {<<first, second>>}
    [] OTHER -> {<<first, second>>, <<second, first>>}

OwnEnds == {"SucceedsOnObservingTrue", "FailsOnObservingFalse"}

PlanOf(outer, inner, around, within, minimum, innerEnds, fail) ==
  Joined(
    [kind |-> [n \in MCNode |->
       CASE n = 1 -> outer [] n = 2 -> inner
         [] n = 5 -> IF Len(within) = 3 THEN "CancelStatechart" ELSE "Absent"
         [] n = 7 -> IF Len(around) = 3 THEN "CancelStatechart" ELSE "Absent"
         [] n = 8 -> "EndStatechart" [] n = 9 -> "CancelStatechart"
         [] OTHER -> "Node"],
     children |-> [n \in MCNode |->
       CASE n = 1 -> around [] n = 2 -> within [] OTHER -> <<>>],
     minimum |-> [n \in {m \in {1, 2} : <<outer, inner>>[m] = "Parallel"} |-> minimum],
     ends |-> [n \in MCNode |-> CASE n = 3 -> innerEnds
                                  [] n = 6 /\ outer \in EndingItsChildren \ {"RepeatUntil"}
                                       -> OwnEnds
                                  [] OTHER -> {}],
     watched |-> [n \in MCNode |-> 1],
     fail |-> [n \in MCNode |-> IF n = 3 THEN fail ELSE ConstFalse],
     success |-> [n \in MCNode |-> ConstFalse]])

Minima(outer, inner) == IF "Parallel" \in {outer, inner} THEN {1, 2} ELSE {2}

\* Node 3 ends of itself, or leaves succeeding to its owner and fails on
\* observing False, or once node 4 beside it observes True.
JoinedPlans ==
  UNION {UNION {
    {PlanOf(outer, inner, around, within, minimum, way[1], way[2]) :
       around \in Orders(outer, 2, 6, 7), within \in Orders(inner, 3, 4, 5),
       minimum \in Minima(outer, inner),
       way \in {<<OwnEnds, ConstFalse>>, <<{"FailsOnObservingFalse"}, ConstFalse>>,
                <<{}, {{Is(4, "OBSERVES_TRUE")}}>>}} :
    outer \in Outer} : inner \in Inner}

\* A Parallel over a Parallel watching over node 6: it reads its children one pass
\* late, so it may be at its goal for a single pass of a tick.
LateMonitorPlan(kind) ==
  Joined(
    [kind |-> [n \in MCNode |-> CASE n = 1 -> kind [] n \in {2, 4} -> "Parallel"
                                   [] n \in {3, 5, 6} -> "Node" [] OTHER -> "Absent"],
     children |-> [n \in MCNode |-> CASE n = 1 -> <<2, 6>> [] n = 2 -> <<3, 4>>
                                       [] n = 4 -> <<5>> [] OTHER -> <<>>],
     minimum |-> <<>>,
     ends |-> [n \in MCNode |-> {}], watched |-> [n \in MCNode |-> 1],
     fail |-> [n \in MCNode |-> ConstFalse], success |-> [n \in MCNode |-> ConstFalse]])

ComposedCharts ==
  {Compiled(plan) : plan \in {p \in JoinedPlans : IsAccepted(p)}
                               \union {LateMonitorPlan(kind) : kind \in Pausing}}

\* A Parallel of one node as a step of a Sequence, one of two nodes to be at its
\* goal: the second node is inserted after the sequence joined.
GrownPlan ==
  LET small == PlanOf("Sequence", "Parallel", <<2, 6>>, <<3>>, 1,
                      {"FailsOnObservingFalse"}, ConstFalse)
  IN  InsertedAfter([small EXCEPT !.kind[4] = "Absent"], 3, 4)

GrownCharts == {Compiled(GrownPlan)}

AllTemplates == Composite
=============================================================================
