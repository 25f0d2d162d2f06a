----------------------------- MODULE LifeCycle -----------------------------
(***************************************************************************)
(* The vocabulary of cramph's statecharts (cramph/data_types.py) and the   *)
(* life cycle state machine of one node (cramph/node.py), as pure          *)
(* operators.                                                              *)
(*                                                                         *)
(* A transition condition of the code is a symbolic Boolean expression     *)
(* over predicates of nodes.  Here it is kept as data, in disjunctive      *)
(* normal form: a set of clauses, each a set of literals, so that a chart  *)
(* is a value TLC can enumerate and a proof need only know that a          *)
(* condition is true or false.                                             *)
(***************************************************************************)
EXTENDS Naturals

LifeCycleValues ==
  {"NOT_STARTED", "RUNNING", "PAUSED", "SUCCEEDED", "FAILED", "INTERRUPTED"}
TerminalStates == {"SUCCEEDED", "FAILED", "INTERRUPTED"}
ActiveStates == {"RUNNING", "PAUSED"}

ObservationStateValues == {"FALSE", "UNKNOWN", "TRUE"}

TransitionKinds == {"START", "PAUSE", "SUCCEED", "RESET", "FAIL", "INTERRUPT"}

Outcome == [SUCCEED |-> "SUCCEEDED", FAIL |-> "FAILED",
            INTERRUPT |-> "INTERRUPTED"]
-----------------------------------------------------------------------------
\* Predicates on nodes.

LifeCyclePredicate ==
  [IS_NOT_STARTED |-> {"NOT_STARTED"},
   IS_RUNNING     |-> {"RUNNING"},
   IS_PAUSED      |-> {"PAUSED"},
   IS_TERMINATED  |-> TerminalStates,
   IS_SUCCEEDED   |-> {"SUCCEEDED"},
   IS_FAILED      |-> {"FAILED"},
   IS_INTERRUPTED |-> {"INTERRUPTED"}]

ObservationPredicate ==
  [OBSERVES_TRUE |-> "TRUE", OBSERVES_FALSE |-> "FALSE"]

\* A literal: `predicate' of `node' is true (holds) or not.
Is(node, predicate) == [node |-> node, predicate |-> predicate, holds |-> TRUE]
IsNot(node, predicate) == [Is(node, predicate) EXCEPT !.holds = FALSE]

Predicate(literal, life, observation, last) ==
  LET node == literal.node
      name == literal.predicate
  IN  \/ /\ name \in DOMAIN LifeCyclePredicate
         /\ life[node] \in LifeCyclePredicate[name]
      \/ /\ name \in DOMAIN ObservationPredicate
         /\ observation[node] = ObservationPredicate[name]
      \/ /\ name = "LAST_OBSERVED_TRUE"
         /\ last[node] = "TRUE"

Holds(condition, life, observation, last) ==
  \E clause \in condition :
    \A literal \in clause :
      literal.holds = Predicate(literal, life, observation, last)

ConstTrue == {{}}
ConstFalse == {}
UnwiredCondition ==
  [kind \in TransitionKinds |-> IF kind = "START" THEN ConstTrue ELSE ConstFalse]
-----------------------------------------------------------------------------
\* The state machine of one node.  `parent' is the life cycle state its
\* parent reaches in the same pass.  A top level node has no parent and moves
\* exactly like the child of a node that always runs.

NoParentState == "RUNNING"

\* Mutant: a child that ended of itself is interrupted again by its parent's end.
ForcedByParentAlsoWhenEnded(state, parent) ==
  IF parent = "NOT_STARTED" THEN "NOT_STARTED"
  ELSE IF parent \in TerminalStates THEN "INTERRUPTED"
  ELSE IF parent = "PAUSED" /\ state = "RUNNING" THEN "PAUSED"
  ELSE state

ForcedByParent(state, parent) ==
  IF parent = "NOT_STARTED" THEN "NOT_STARTED"
  ELSE IF parent \in TerminalStates /\ state \in ActiveStates THEN "INTERRUPTED"
  ELSE IF parent = "PAUSED" /\ state = "RUNNING" THEN "PAUSED"
  ELSE state

\* A node's own conditions count only while it may still move by itself.
OwnTrigger(trigger, allowed) == trigger /\ allowed

\* Mutant: ending conditions count even after the node moved by itself.
EndCaseAtAnyTime(parent, condition, allowed) ==
  IF condition["SUCCEED"] THEN Outcome["SUCCEED"]
  ELSE IF condition["FAIL"] THEN Outcome["FAIL"]
  ELSE IF condition["INTERRUPT"] \/ parent \in TerminalStates
    THEN Outcome["INTERRUPT"]
  ELSE "NONE"

\* The outcome a running or paused node ends with, "NONE" if it does not end:
\* its own ending conditions in their order of precedence, then a parent that
\* has ended.
EndCase(parent, condition, allowed) ==
  IF OwnTrigger(condition["SUCCEED"], allowed) THEN Outcome["SUCCEED"]
  ELSE IF OwnTrigger(condition["FAIL"], allowed) THEN Outcome["FAIL"]
  ELSE IF OwnTrigger(condition["INTERRUPT"], allowed) \/ parent \in TerminalStates
    THEN Outcome["INTERRUPT"]
  ELSE "NONE"

Starts(parent, condition, allowed) ==
  OwnTrigger(condition["START"], allowed) /\ parent = "RUNNING"

\* `condition' says which of the node's conditions hold, `allowed' whether it
\* may still take a transition triggered by its own conditions in this tick.
NextLifeCycle(state, parent, condition, allowed) ==
  IF OwnTrigger(condition["RESET"], allowed) \/ parent = "NOT_STARTED"
    THEN "NOT_STARTED"
  ELSE IF state = "NOT_STARTED" THEN
    IF ~ Starts(parent, condition, allowed) THEN "NOT_STARTED"
    ELSE IF condition["PAUSE"] THEN "PAUSED" ELSE "RUNNING"
  ELSE IF state \in TerminalStates THEN state
  ELSE IF EndCase(parent, condition, allowed) # "NONE"
    THEN EndCase(parent, condition, allowed)
  ELSE IF state = "RUNNING" THEN
    IF OwnTrigger(condition["PAUSE"], allowed) \/ parent = "PAUSED"
    THEN "PAUSED" ELSE "RUNNING"
  ELSE
    IF OwnTrigger(~ condition["PAUSE"], allowed) /\ parent = "RUNNING"
    THEN "RUNNING" ELSE "PAUSED"

\* The edges of the life cycle: where one pass can take a node at all.
Edge(from, to) ==
  \/ to = from
  \/ to = "NOT_STARTED"
  \/ from = "NOT_STARTED" /\ to \in ActiveStates
  \/ from \in ActiveStates /\ to \in ActiveStates \union TerminalStates

\* What a parent's state allows its child to be in.
FitsParent(state, parent) ==
  /\ state = "RUNNING" => parent = "RUNNING"
  /\ state = "PAUSED" => parent \in ActiveStates
  /\ parent = "NOT_STARTED" => state = "NOT_STARTED"
=============================================================================
