-------------------------- MODULE Composites_proofs --------------------------
(***************************************************************************)
(* Machine-checked proofs about the templates of cramph, for every plan:   *)
(* however deep composites are nested, whatever their nodes observe and    *)
(* whoever pauses, stops or repeats them.                                  *)
(***************************************************************************)
EXTENDS Composites, CompiledTick_proofs, FiniteSetTheorems

-----------------------------------------------------------------------------
\* What the connectives of conditions mean.

\* A conjunction holds where every condition does: each contributes a clause.
LEMMA AllOfHolds ==
  ASSUME NEW conditions, NEW lives, NEW observed, NEW last
  PROVE  Holds(AllOf(conditions), lives, observed, last)
           <=> \A c \in conditions : Holds(c, lives, observed, last)
<1> DEFINE True(clause) == \A literal \in clause :
             literal.holds = Predicate(literal, lives, observed, last)
<1>1. ASSUME NEW clause \in AllOf(conditions), True(clause), NEW c \in conditions
      PROVE  \E part \in c : True(part)
  <2>1. PICK f \in [conditions -> UNION conditions] :
          /\ \A d \in conditions : f[d] \in d
          /\ clause = UNION {f[d] : d \in conditions}
    BY <1>1 DEF AllOf
  <2>2. f[c] \in c /\ f[c] \subseteq clause
    BY <2>1, <1>1
  <2> QED BY <2>2, <1>1
<1>2. ASSUME \A c \in conditions : \E part \in c : True(part)
      PROVE  \E clause \in AllOf(conditions) : True(clause)
  <2> DEFINE f == [c \in conditions |-> CHOOSE part \in c : True(part)]
             clause == UNION {f[c] : c \in conditions}
  <2> HIDE DEF True
  <2>1. ASSUME NEW c \in conditions PROVE f[c] \in c /\ True(f[c])
    BY <1>2
  <2> HIDE DEF f
  <2>2. f \in [conditions -> UNION conditions]
    <3>1. f = [c \in conditions |-> f[c]]
      BY DEF f
    <3> QED BY <2>1, <3>1
  <2>3. clause \in AllOf(conditions)
    BY <2>1, <2>2 DEF AllOf
  <2>4. True(clause)
    BY <2>1 DEF True
  <2> QED BY <2>3, <2>4
<1> QED BY <1>1, <1>2 DEF Holds

\* A negation holds where the condition does not: one literal of every clause
\* is false.
LEMMA NotHolds ==
  ASSUME NEW condition \in Condition, NEW lives, NEW observed, NEW last
  PROVE  Holds(Not(condition), lives, observed, last)
           <=> ~ Holds(condition, lives, observed, last)
<1> DEFINE negated(literal) == [literal EXCEPT !.holds = ~ @]
           Negation(clause) == {{negated(literal)} : literal \in clause}
           True(literal) == literal.holds = Predicate(literal, lives, observed, last)
<1>1. ASSUME NEW clause \in condition, NEW literal \in clause
      PROVE  True(negated(literal)) <=> ~ True(literal)
  <2>1. literal \in Literals
    BY <1>1 DEF Condition
  <2>2. /\ literal.holds \in BOOLEAN
        /\ negated(literal).node = literal.node
        /\ negated(literal).predicate = literal.predicate
        /\ negated(literal).holds = ~ literal.holds
    BY <2>1 DEF Literals
  <2>3. Predicate(negated(literal), lives, observed, last)
         = Predicate(literal, lives, observed, last)
    <3> HIDE DEF negated
    <3> QED BY <2>2 DEF Predicate
  <2>4. Predicate(literal, lives, observed, last) \in BOOLEAN
    BY DEF Predicate
  <2> QED BY <2>2, <2>3, <2>4
<1>2. ASSUME NEW clause \in condition
      PROVE  Holds(Negation(clause), lives, observed, last)
               <=> \E literal \in clause : ~ True(literal)
  <2> HIDE DEF negated
  <2>1. Holds(Negation(clause), lives, observed, last)
          <=> \E literal \in clause : True(negated(literal))
    <3>1. Holds(Negation(clause), lives, observed, last)
            <=> \E part \in Negation(clause) : \A literal \in part : True(literal)
      BY DEF Holds
    <3> HIDE DEF True
    <3>2. ASSUME NEW literal \in clause, True(negated(literal))
          PROVE  \E part \in Negation(clause) : \A l \in part : True(l)
      <4>1. {negated(literal)} \in Negation(clause)
        BY <3>2
      <4> QED BY <4>1, <3>2
    <3>3. ASSUME NEW part \in Negation(clause), \A l \in part : True(l)
          PROVE  \E literal \in clause : True(negated(literal))
      <4>1. PICK literal \in clause : part = {negated(literal)}
        BY <3>3
      <4> QED BY <4>1, <3>3
    <3> QED BY <3>1, <3>2, <3>3
  <2> HIDE DEF True
  <2> QED BY <1>1, <2>1
<1>3. Holds(Not(condition), lives, observed, last)
        <=> \A clause \in condition : Holds(Negation(clause), lives, observed, last)
  <2>1. Holds(Not(condition), lives, observed, last)
          <=> \A c \in {Negation(clause) : clause \in condition} :
                Holds(c, lives, observed, last)
    BY AllOfHolds DEF Not
  <2> HIDE DEF Negation
  <2> QED BY <2>1
<1> HIDE DEF Negation
<1> QED BY <1>2, <1>3 DEF Holds

\* A condition of one literal reads one predicate of one node.
LEMMA LiteralHolds ==
  ASSUME NEW node, NEW predicate \in DOMAIN LifeCyclePredicate,
         NEW lives, NEW observed, NEW last
  PROVE  Holds({{Is(node, predicate)}}, lives, observed, last)
           <=> lives[node] \in LifeCyclePredicate[predicate]
  BY DEF Holds, Is, Predicate, LifeCyclePredicate, ObservationPredicate

LEMMA EndedWithoutSuccessHolds ==
  ASSUME NEW node, NEW lives, NEW observed, NEW last
  PROVE  Holds(EndedWithoutSuccess(node), lives, observed, last)
           <=> lives[node] \in Unsuccessful
<1>1. Holds(EndedWithoutSuccess(node), lives, observed, last)
        <=> \/ Holds({{Is(node, "IS_FAILED")}}, lives, observed, last)
            \/ Holds({{Is(node, "IS_INTERRUPTED")}}, lives, observed, last)
  BY DEF EndedWithoutSuccess, Holds
<1> QED BY <1>1, LiteralHolds DEF LifeCyclePredicate, Unsuccessful
-----------------------------------------------------------------------------
\* Every reachable state of a run is one the tick was proved sound for.

LEMMA ComposedNextIsNext == [ComposedNext]_vars => [Next]_vars
  BY DEF ComposedNext, FinishRun

LEMMA ComposedSoundAlways == ComposedSpec => [](Sound /\ ResetsArePinned)
<1>1. Init => Sound /\ ResetsArePinned
  BY InitIsTyped, InitIsConsistent DEF Sound, Init, ResetsArePinned
<1>2. Sound /\ ResetsArePinned /\ [ComposedNext]_vars => (Sound /\ ResetsArePinned)'
  BY ComposedNextIsNext, NextKeepsTypes, NextKeepsHierarchy, NextKeepsResetsPinned
     DEF Sound
<1> QED BY <1>1, <1>2, PTL DEF ComposedSpec

\* A run is one of the chart its plan compiles to.
LEMMA ChartIsCompiled ==
  ASSUME ChartOK
  PROVE  /\ IsPlan(chart.plan)
         /\ chart.parent = [n \in Node |-> Owner(chart.plan, n)]
         /\ chart.condition = [n \in Node |-> ConditionsWritten(chart.plan, n)]
         /\ chart.ends = [n \in Node |-> EndsOfItself(chart.plan, n)]
         /\ chart.observation = [n \in Node |-> ObservationCases(chart.plan, n)]
         /\ chart.onTick = [n \in Node |-> IF chart.plan.kind[n] = "Node" THEN Ticks
                                           ELSE {NoObservation}]
<1>1. IsPlan(chart.plan) /\ chart = Compiled(chart.plan)
  BY PlansAssumption DEF ChartOK
<1>2. ASSUME NEW plan
      PROVE  /\ Compiled(plan).parent = [n \in Node |-> Owner(plan, n)]
             /\ Compiled(plan).condition = [n \in Node |-> ConditionsWritten(plan, n)]
             /\ Compiled(plan).ends = [n \in Node |-> EndsOfItself(plan, n)]
             /\ Compiled(plan).observation = [n \in Node |-> ObservationCases(plan, n)]
             /\ Compiled(plan).onTick = [n \in Node |-> IF plan.kind[n] = "Node" THEN Ticks
                                                        ELSE {NoObservation}]
  BY DEF Compiled
<1> QED BY <1>1, <1>2

\* The child at a position of a node is owned by that node and by no other.
LEMMA ChildIsOwned ==
  ASSUME ChartOK, NEW n \in Node, NEW i \in DOMAIN StepsOf(n)
  PROVE  /\ StepsOf(n)[i] \in Node
         /\ StepsOf(n)[i] \in Children(n)
         /\ Owner(chart.plan, StepsOf(n)[i]) = n
         /\ chart.parent[StepsOf(n)[i]] = n
         /\ \A j \in DOMAIN StepsOf(n) : StepsOf(n)[j] = StepsOf(n)[i] => j = i
<1> DEFINE m == StepsOf(n)[i]
<1>1. StepsOf(n) \in Seq(Node) /\ m \in Node
  BY ChartIsCompiled DEF StepsOf, Steps, IsPlan
<1>2. m \in Children(n)
  BY DEF StepsOf, Children, ChildrenOf, Range, Steps
<1>3. ASSUME NEW o \in Node, m \in ChildrenOf(chart.plan, o) PROVE o = n
  <2>1. PICK j \in DOMAIN chart.plan.children[o] : chart.plan.children[o][j] = m
    BY <1>3 DEF ChildrenOf, Range
  <2> QED BY <2>1, ChartIsCompiled DEF IsPlan, StepsOf, Steps
<1>4. Owner(chart.plan, m) = n
  <2> HIDE DEF m
  <2> QED BY <1>2, <1>3 DEF Owner, Children
<1>5. chart.parent[m] = n
  BY <1>1, <1>4, ChartIsCompiled
<1>6. \A j \in DOMAIN StepsOf(n) : StepsOf(n)[j] = m => j = i
  BY ChartIsCompiled DEF IsPlan, StepsOf, Steps
<1> QED BY <1>1, <1>2, <1>4, <1>5, <1>6

\* Every child is at some position.
LEMMA ChildHasParent ==
  ASSUME ChartOK, NEW n \in Node, NEW m \in Children(n)
  PROVE  m \in Node /\ chart.parent[m] = n
<1>1. PICK i \in DOMAIN StepsOf(n) : StepsOf(n)[i] = m
  BY DEF Children, ChildrenOf, Range, StepsOf, Steps
<1> QED BY <1>1, ChildIsOwned
-----------------------------------------------------------------------------
\* Steps run one after another.

\* How a step has to have ended for the next one to start.
Wanted(n) == IF chart.plan.kind[n] = "Sequence" THEN {"SUCCEEDED"} ELSE Unsuccessful

\* A pass resets no step of its own accord.
LEMMA StepIsNeverReset ==
  ASSUME ChartOK, NEW n \in NodesOf(RunningItsChildrenInTurn),
         NEW i \in DOMAIN StepsOf(n)
  PROVE  chart.condition[StepsOf(n)[i]]["RESET"] = ConstFalse
<1> DEFINE m == StepsOf(n)[i]
<1>1. n \in Node /\ chart.plan.kind[n] \in RunningItsChildrenInTurn
  BY DEF NodesOf
<1>2. m \in Node /\ Owner(chart.plan, m) = n
  BY <1>1, ChildIsOwned
<1> HIDE DEF m
<1>3. OwnerKind(chart.plan, m) # "RepeatUntil"
  BY <1>1, <1>2, NodeAssumption DEF OwnerKind, RunningItsChildrenInTurn
<1>4. ResetCondition(chart.plan, m) = ConstFalse
  BY <1>3 DEF ResetCondition, IsTask, IsChild
<1>5. chart.condition[m] = ConditionsWritten(chart.plan, m)
  BY <1>2, ChartIsCompiled
<1> QED BY <1>4, <1>5 DEF ConditionsWritten, m

\* A step behind another one starts only once that one ended as wanted.
LEMMA StepStartsAfterPrevious ==
  ASSUME ChartOK, NEW n \in NodesOf(RunningItsChildrenInTurn),
         NEW j \in DOMAIN StepsOf(n), j > 1, NEW observed, NEW last,
         Holds(chart.condition[StepsOf(n)[j]]["START"], life, observed, last)
  PROVE  j - 1 \in DOMAIN StepsOf(n) /\ life[StepsOf(n)[j - 1]] \in Wanted(n)
<1> DEFINE m == StepsOf(n)[j]
           previous == StepsOf(n)[j - 1]
<1>1. n \in Node /\ chart.plan.kind[n] \in RunningItsChildrenInTurn
  BY DEF NodesOf
<1>2. /\ m \in Node /\ Owner(chart.plan, m) = n
      /\ \A k \in DOMAIN StepsOf(n) : StepsOf(n)[k] = m => k = j
  BY <1>1, ChildIsOwned
<1>3. StepsOf(n) \in Seq(Node)
  BY <1>1, ChartIsCompiled DEF IsPlan, StepsOf, Steps
<1>4. j - 1 \in DOMAIN StepsOf(n)
  BY <1>3
<1>5. OwnerKind(chart.plan, m) = chart.plan.kind[n]
  BY <1>1, <1>2, NodeAssumption DEF OwnerKind
<1>6. (CHOOSE k \in DOMAIN Steps(chart.plan, n) : Steps(chart.plan, n)[k] = m) = j
  BY <1>2 DEF StepsOf
<1>7. StartCondition(chart.plan, m)
        \in {ConstFalse, StartConditionAfter(chart.plan, n, previous)}
  <2>1. ~ IsChild(chart.plan, m, 3, {"RepeatUntil", "CancelledWhenTrue"})
        /\ ~ IsTask(chart.plan, m)
    BY <1>1, <1>5 DEF IsChild, IsTask, RunningItsChildrenInTurn
  <2>2. OwnerKind(chart.plan, m) \in RunningItsChildrenInTurn
    BY <1>1, <1>5
  <2>3. Owner(chart.plan, m) # NoParent
    BY <1>1, <1>2, NodeAssumption
  <2> HIDE DEF m
  <2> QED BY <1>2, <1>6, <2>1, <2>2, <2>3 DEF StartCondition, StepsOf
<1>8. chart.condition[m]["START"] = StartCondition(chart.plan, m)
  <2> HIDE DEF m
  <2> QED BY <1>2, ChartIsCompiled DEF ConditionsWritten
<1>9. Holds(StartConditionAfter(chart.plan, n, previous), life, observed, last)
  <2>1. ~ Holds(ConstFalse, life, observed, last)
    BY DEF Holds, ConstFalse
  <2> HIDE DEF m
  <2> QED BY <1>7, <1>8, <2>1 DEF m
<1>10. life[previous] \in Wanted(n)
  <2> HIDE DEF previous
  <2>1. CASE chart.plan.kind[n] = "Sequence"
    <3>1. Holds({{Is(previous, "IS_SUCCEEDED")}}, life, observed, last)
      BY <1>9, <2>1 DEF StartConditionAfter
    <3> QED BY <3>1, <2>1, LiteralHolds DEF Wanted, LifeCyclePredicate
  <2>2. CASE chart.plan.kind[n] # "Sequence"
    BY <1>9, <2>2, EndedWithoutSuccessHolds DEF StartConditionAfter, Wanted
  <2> QED BY <2>1, <2>2
<1> QED BY <1>4, <1>10

\* A step that ended stays as it is for as long as its owner has started.
LEMMA EndedStepStays ==
  ASSUME Sound, NEW n \in NodesOf(RunningItsChildrenInTurn),
         NEW i \in DOMAIN StepsOf(n), life[StepsOf(n)[i]] \in TerminalStates,
         LatestPass.life[n] # "NOT_STARTED"
  PROVE  LatestPass.life[StepsOf(n)[i]] = life[StepsOf(n)[i]]
<1> DEFINE m == StepsOf(n)[i]
<1>1. m \in Node /\ chart.parent[m] = n /\ n \in Node
  BY ChildIsOwned DEF NodesOf, Sound
<1>2. ParentState(m, LatestPass.life) = LatestPass.life[n]
  BY <1>1, NodeAssumption DEF ParentState
<1>3. PICK observed, lastObserved :
        LatestPass.life[m] =
          NextOf(m, life[m], ParentState(m, LatestPass.life), observed, lastObserved)
  BY <1>1, PassKeepsPromises DEF Sound
<1>4. chart.condition[m]["RESET"] = ConstFalse
  BY StepIsNeverReset DEF Sound
<1>5. ~ ConditionsOf(m, observed, lastObserved)["RESET"]
  BY <1>4 DEF ConditionsOf, EffectiveCondition, TransitionKinds, Holds, ConstFalse
<1> HIDE DEF m
<1>6. life[m] \in TerminalStates
  BY DEF m
<1>7. LatestPass.life[m] = life[m]
  BY <1>2, <1>3, <1>5, <1>6 DEF NextOf, NextLifeCycle, OwnTrigger, TerminalStates
<1> QED BY <1>7 DEF m

\* A step that starts in a pass starts by its own condition.
LEMMA StepStartsByItsCondition ==
  ASSUME Sound, NEW m \in Node, life[m] = "NOT_STARTED",
         LatestPass.life[m] # "NOT_STARTED"
  PROVE  \E observed, last : Holds(chart.condition[m]["START"], life, observed, last)
<1>1. PICK observed, lastObserved :
        LatestPass.life[m] =
          NextOf(m, life[m], ParentState(m, LatestPass.life), observed, lastObserved)
  BY PassKeepsPromises DEF Sound
<1>2. ConditionsOf(m, observed, lastObserved)["START"]
  BY <1>1 DEF NextOf, NextLifeCycle, OwnTrigger, Starts
<1>3. EffectiveCondition(m, "START") = chart.condition[m]["START"]
  BY DEF EffectiveCondition
<1> QED BY <1>2, <1>3 DEF ConditionsOf, TransitionKinds

LEMMA PassKeepsStepsInTurn ==
  ASSUME Sound, StepsRunInTurn, TakeOverLatestPass
  PROVE  StepsRunInTurn'
<1>1. life' = LatestPass.life /\ chart' = chart
  BY DEF TakeOverLatestPass
<1>2. ASSUME NEW n \in NodesOf(RunningItsChildrenInTurn),
             NEW i \in DOMAIN StepsOf(n), NEW j \in DOMAIN StepsOf(n),
             i < j, LatestPass.life[StepsOf(n)[j]] # "NOT_STARTED"
      PROVE  LatestPass.life[StepsOf(n)[i]] \in Wanted(n)
  <2> DEFINE m == StepsOf(n)[j]
  <2>0. StepsOf(n) \in Seq(Node) /\ n \in Node
    BY ChartIsCompiled DEF IsPlan, StepsOf, Steps, Sound, NodesOf
  <2>1. m \in Node /\ chart.parent[m] = n
    BY <2>0, ChildIsOwned DEF Sound
  <2>2. LatestPass.life[n] # "NOT_STARTED"
    <3>1. FitsParent(LatestPass.life[m], ParentState(m, LatestPass.life))
      BY <2>1, PassKeepsPromises DEF Sound
    <3>2. ParentState(m, LatestPass.life) = LatestPass.life[n]
      BY <2>0, <2>1, NodeAssumption DEF ParentState
    <3> QED BY <3>1, <3>2, <1>2 DEF FitsParent
  <2>3. Wanted(n) \subseteq TerminalStates
    BY DEF Wanted, Unsuccessful, TerminalStates
  <2>4. ASSUME NEW k \in DOMAIN StepsOf(n), k < j, life[StepsOf(n)[k]] \in Wanted(n)
        PROVE  LatestPass.life[StepsOf(n)[k]] \in Wanted(n)
    BY <2>2, <2>3, <2>4, EndedStepStays
  <2>5. ASSUME NEW k \in DOMAIN StepsOf(n), NEW l \in DOMAIN StepsOf(n),
               k < l, life[StepsOf(n)[l]] # "NOT_STARTED"
        PROVE  life[StepsOf(n)[k]] \in Wanted(n)
    BY <2>5 DEF StepsRunInTurn, Wanted
  <2>6. CASE life[m] # "NOT_STARTED"
    BY <2>4, <2>5, <2>6, <1>2
  <2>7. CASE life[m] = "NOT_STARTED"
    <3>1. PICK observed, last :
            Holds(chart.condition[m]["START"], life, observed, last)
      BY <2>1, <2>7, <1>2, StepStartsByItsCondition
    <3>2. j > 1
      BY <2>0, <1>2
    <3>3. j - 1 \in DOMAIN StepsOf(n) /\ life[StepsOf(n)[j - 1]] \in Wanted(n)
      BY <3>1, <3>2, StepStartsAfterPrevious DEF Sound
    <3>4. CASE i = j - 1
      BY <3>3, <3>4, <2>4, <1>2
    <3>5. CASE i # j - 1
      <4>1. i < j - 1
        BY <3>5, <2>0, <1>2
      <4>2. life[StepsOf(n)[j - 1]] # "NOT_STARTED"
        BY <3>3, <2>3 DEF TerminalStates
      <4> QED BY <4>1, <4>2, <3>3, <2>4, <2>5, <1>2
    <3> QED BY <3>4, <3>5
  <2> QED BY <2>6, <2>7
<1> QED BY <1>1, <1>2 DEF StepsRunInTurn, Wanted, NodesOf, StepsOf

\* In every pass of every tick of every plan, a step has only started once
\* every step before it ended the way its owner waits for.
THEOREM StepsTakeTurns == ComposedSpec => []StepsRunInTurn
<1>1. Init => StepsRunInTurn
  <2> SUFFICES ASSUME Init, NEW n \in NodesOf(RunningItsChildrenInTurn),
                      NEW j \in DOMAIN StepsOf(n)
               PROVE  life[StepsOf(n)[j]] = "NOT_STARTED"
    BY DEF StepsRunInTurn
  <2>1. StepsOf(n)[j] \in Node
    BY InitIsTyped, ChildIsOwned DEF NodesOf
  <2> QED BY <2>1 DEF Init
<1>2. Sound /\ StepsRunInTurn /\ [ComposedNext]_vars => StepsRunInTurn'
  <2> SUFFICES ASSUME Sound, StepsRunInTurn, [Next]_vars PROVE StepsRunInTurn'
    BY ComposedNextIsNext
  <2>1. CASE life' = life
    BY <2>1, OnlyPassesMoveNodes DEF StepsRunInTurn, NodesOf, StepsOf
  <2> QED BY <2>1, PassKeepsStepsInTurn, OnlyPassesMoveNodes
<1> QED BY <1>1, <1>2, ComposedSoundAlways, PTL DEF ComposedSpec
-----------------------------------------------------------------------------
\* A composite starts over as a unit.

\* The nodes that had not started when the tick began and have not since.
Untouched == {m \in Node : lifeAtCycleStart[m] = "NOT_STARTED"
                           /\ life[m] = "NOT_STARTED"}

\* What is below an untouched node is untouched.
LEMMA BelowUntouched ==
  ASSUME Sound, ResetsArePinned, phase = "settling", NEW n \in Untouched
  PROVE  Below(n) \subseteq Untouched
<1>1. ASSUME NEW k \in Untouched PROVE Children(k) \subseteq Untouched
  <2> SUFFICES ASSUME NEW m \in Children(k) PROVE m \in Untouched
    OBVIOUS
  <2>1. k \in Node /\ m \in Node /\ chart.parent[m] = k
    BY ChildHasParent DEF Untouched, Sound
  <2>2. ParentState(m, life) = "NOT_STARTED"
        /\ ParentState(m, lifeAtCycleStart) = "NOT_STARTED"
    BY <2>1, NodeAssumption DEF ParentState, Untouched
  <2> QED BY <2>1, <2>2 DEF Sound, HierarchyConsistent, ResetsArePinned, FitsParent,
                            Untouched
<1>2. Untouched \in SUBSET Node
  BY DEF Untouched
<1> QED BY <1>1, <1>2 DEF Below

\* A node that starts in a pass was untouched, since none that was reset in the
\* tick starts again.
LEMMA StartedWasUntouched ==
  ASSUME Sound, ResetsArePinned, phase = "settling", NEW n \in Node,
         life[n] = "NOT_STARTED", LatestPass.life[n] # "NOT_STARTED"
  PROVE  n \in Untouched
<1>1. ~ ResetInTick(n)
  BY ResetNodesStay
<1> QED BY <1>1 DEF ResetInTick, Untouched

\* A pass leaves an untouched node without any memory.
LEMMA UntouchedRemembersNothing ==
  ASSUME Sound, NEW m \in Untouched
  PROVE  /\ LatestPass.life[m] \in {"NOT_STARTED"} \union ActiveStates
         /\ LatestPass.lastObservation[m] = "UNKNOWN"
<1>1. m \in Node /\ lifeAtCycleStart[m] = "NOT_STARTED" /\ life[m] = "NOT_STARTED"
  BY DEF Untouched
<1>2. Edge(life[m], LatestPass.life[m])
  BY <1>1, PassKeepsPromises DEF Sound
<1>3. LatestPass.life[m] \in {"NOT_STARTED"} \union ActiveStates
  BY <1>1, <1>2 DEF Edge, ActiveStates, TerminalStates
<1>4. NextObservation[m] = "UNKNOWN"
  BY <1>1 DEF NextObservation, ActiveStates
<1>5. NextLastObservation(NextObservation)[m] = "UNKNOWN"
  BY <1>1, <1>4 DEF NextLastObservation, TerminalStates
<1>6. LatestPass.lastObservation = NextLastObservation(NextObservation)
  BY DEF LatestPass
<1> QED BY <1>3, <1>5, <1>6

\* Whatever plan a composite is part of, when it starts nothing below it
\* remembers an earlier attempt.
THEOREM CompositesStartOver == ComposedSpec => StartsOverAsAUnit
<1>1. Sound /\ ResetsArePinned /\ [ComposedNext]_vars =>
        [\A n \in CompositeNodes :
           (life[n] = "NOT_STARTED" /\ life'[n] # "NOT_STARTED") =>
             \A m \in Below(n) :
               /\ life'[m] \in {"NOT_STARTED"} \union ActiveStates
               /\ lastObservation'[m] = "UNKNOWN"]_vars
  <2> SUFFICES ASSUME Sound, ResetsArePinned, [Next]_vars,
                      NEW n \in CompositeNodes, NEW m \in Below(n),
                      life[n] = "NOT_STARTED", life'[n] # "NOT_STARTED"
               PROVE  /\ life'[m] \in {"NOT_STARTED"} \union ActiveStates
                      /\ lastObservation'[m] = "UNKNOWN"
    BY ComposedNextIsNext
  <2>1. TakeOverLatestPass
    BY OnlyPassesMoveNodes
  <2>2. /\ phase = "settling" /\ life' = LatestPass.life
        /\ lastObservation' = LatestPass.lastObservation
    BY <2>1 DEF TakeOverLatestPass
  <2>3. n \in Untouched
    BY <2>2, StartedWasUntouched DEF CompositeNodes, NodesOf
  <2>4. m \in Untouched
    BY <2>2, <2>3, BelowUntouched
  <2> QED BY <2>2, <2>4, UntouchedRemembersNothing
<1> QED BY <1>1, ComposedSoundAlways, PTL DEF ComposedSpec, StartsOverAsAUnit
-----------------------------------------------------------------------------
\* A child that fails is not ended as successful.

\* Every owner wrote the success of its children against what they can fail by
\* now: no child changed since its owner was wired.
WiredAsTheyAre ==
  \A n \in Node : chart.plan.success[n] = WiredSuccess(chart.plan, n)

\* Every chart is compiled from a plan as it joined, with nothing inserted after that.
NothingInserted ==
  \A c \in Charts : \E plan : "success" \in DOMAIN plan /\ c = Compiled(Joined(plan))

\* What an owner writes on its children does not depend on what is written on them.
LEMMA JoinedIsWired ==
  ASSUME NEW plan, "success" \in DOMAIN plan, NEW n \in Node
  PROVE  Joined(plan).success[n] = WiredSuccess(Joined(plan), n)
<1> DEFINE joined == Joined(plan)
<1>1. /\ joined.kind = plan.kind /\ joined.children = plan.children
      /\ joined.minimum = plan.minimum /\ joined.ends = plan.ends
      /\ joined.fail = plan.fail
      /\ joined.success = [m \in Node |-> WiredSuccess(plan, m)]
  BY DEF Joined
<1> HIDE DEF joined
<1>2. /\ Steps(joined, n) = Steps(plan, n) /\ ChildrenOf(joined, n) = ChildrenOf(plan, n)
      /\ Owner(joined, n) = Owner(plan, n) /\ OwnerKind(joined, n) = OwnerKind(plan, n)
      /\ EndsOfItself(joined, n) = EndsOfItself(plan, n)
  BY <1>1 DEF Steps, ChildrenOf, Owner, OwnerKind, EndsOfItself
<1>3. EndedByItsOwner(joined, n) = EndedByItsOwner(plan, n)
  BY <1>1, <1>2 DEF EndedByItsOwner, IsTask, IsChild, Steps
<1>4. EffectiveFailCondition(joined, n) = EffectiveFailCondition(plan, n)
  BY <1>1, <1>2 DEF EffectiveFailCondition, InherentFailCondition, CannotArriveAnyMore,
                    RequiredSuccesses, Steps, Watched
<1>5. WiredSuccess(joined, n) = WiredSuccess(plan, n)
  BY <1>3, <1>4 DEF WiredSuccess, SucceedAtItsGoal
<1> QED BY <1>1, <1>5 DEF joined

\* A plan as it joined is wired as its nodes are, for as long as it runs.
THEOREM JoinedPlansAreWired ==
  ASSUME NothingInserted
  PROVE  ComposedSpec => []WiredAsTheyAre
<1>1. Init => WiredAsTheyAre
  <2> SUFFICES ASSUME Init PROVE WiredAsTheyAre
    OBVIOUS
  <2>1. PICK plan : "success" \in DOMAIN plan /\ chart = Compiled(Joined(plan))
    BY DEF Init, NothingInserted
  <2>2. chart.plan = Joined(plan)
    BY <2>1 DEF Compiled
  <2> QED BY <2>1, <2>2, JoinedIsWired DEF WiredAsTheyAre
<1>2. WiredAsTheyAre /\ [ComposedNext]_vars => WiredAsTheyAre'
  <2> SUFFICES ASSUME WiredAsTheyAre, [ComposedNext]_vars PROVE WiredAsTheyAre'
    OBVIOUS
  <2>1. chart' = chart
    BY ComposedNextIsNext, OnlyPassesMoveNodes
  <2> QED BY <2>1 DEF WiredAsTheyAre
<1> QED BY <1>1, <1>2, PTL DEF ComposedSpec

\* What an owner writes lets a child succeed only where it does not fail.
LEMMA SuccessExcludesFailure ==
  ASSUME ChartOK, WiredAsTheyAre, NEW n \in Node, EndedByItsOwner(chart.plan, n),
         NEW observed, NEW last,
         Holds(EffectiveCondition(n, "SUCCEED"), life, observed, last)
  PROVE  ~ Holds(EffectiveFailCondition(chart.plan, n), life, observed, last)
<1> DEFINE fails == EffectiveFailCondition(chart.plan, n)
<1>1. /\ chart.condition[n] = ConditionsWritten(chart.plan, n)
      /\ chart.ends[n] = EndsOfItself(chart.plan, n)
  BY ChartIsCompiled
<1>2. EffectiveCondition(n, "SUCCEED") = SucceedAtItsGoal(chart.plan, n)
  BY <1>1 DEF EffectiveCondition, ConditionsWritten, WiredAsTheyAre, WiredSuccess,
              EndedByItsOwner
<1>3. fails \in Condition
  <2>1. chart.condition[n]["FAIL"] \in Condition
    BY DEF ChartOK, IsChart, TransitionKinds
  <2> QED BY <1>1, <2>1 DEF ConditionsWritten
<1>4. Holds(Not(fails), life, observed, last)
  BY <1>2, AllOfHolds DEF SucceedAtItsGoal
<1> HIDE DEF fails
<1>5. ~ Holds(fails, life, observed, last)
  BY <1>3, <1>4, NotHolds
<1> QED BY <1>5 DEF fails

\* A node succeeds in a pass only where its own condition to succeed holds.
LEMMA SucceedsByItsCondition ==
  ASSUME Sound, NEW n \in Node, life[n] # "SUCCEEDED", LatestPass.life[n] = "SUCCEEDED"
  PROVE  Holds(EffectiveCondition(n, "SUCCEED"), life,
               LatestPass.observation, LatestPass.lastObservation)
<1> DEFINE observed == NextObservation
           last == NextLastObservation(observed)
<1>1. LatestPass.life[n] =
        NextLifeCycle(life[n], ParentState(n, LatestPass.life),
                      ConditionsOf(n, observed, last), n \notin ownTransitionTaken)
  <2>1. LatestPass.life = NextLife(observed, last)
    BY DEF LatestPass
  <2> HIDE DEF observed, last
  <2> QED BY <2>1, NextLifeIsDefined DEF Sound
<1>2. ConditionsOf(n, observed, last)["SUCCEED"]
  <2> HIDE DEF observed, last
  <2>1. life[n] \in LifeCycleValues
    BY DEF Sound, TypeOK
  <2> QED BY <1>1, <2>1 DEF NextLifeCycle, EndCase, OwnTrigger, Outcome
<1>3. LatestPass.observation = observed /\ LatestPass.lastObservation = last
  BY DEF LatestPass
<1> HIDE DEF observed, last
<1> QED BY <1>2, <1>3 DEF ConditionsOf, TransitionKinds

\* In every plan whose children did not change after their owner wired them, a
\* child its owner ends fails where it fails and observes true at once.
THEOREM FailingChildrenFail ==
  ComposedSpec /\ []WiredAsTheyAre => FailingChildFails
<1>1. Sound /\ WiredAsTheyAre /\ [ComposedNext]_vars =>
        [\A n \in Node :
           (EndedByItsOwner(chart.plan, n) /\ life'[n] = "SUCCEEDED"
              /\ life[n] # "SUCCEEDED")
             => ~ Holds(EffectiveFailCondition(chart.plan, n), life, observation',
                        lastObservation')]_vars
  <2> SUFFICES ASSUME Sound, WiredAsTheyAre, [Next]_vars, NEW n \in Node,
                      EndedByItsOwner(chart.plan, n),
                      life'[n] = "SUCCEEDED", life[n] # "SUCCEEDED"
               PROVE  ~ Holds(EffectiveFailCondition(chart.plan, n), life,
                              observation', lastObservation')
    BY ComposedNextIsNext DEF Sound
  <2>1. TakeOverLatestPass
    BY OnlyPassesMoveNodes
  <2>2. /\ life' = LatestPass.life /\ observation' = LatestPass.observation
        /\ lastObservation' = LatestPass.lastObservation
    BY <2>1 DEF TakeOverLatestPass
  <2> QED BY <2>2, SucceedsByItsCondition, SuccessExcludesFailure DEF Sound
<1> QED BY <1>1, ComposedSoundAlways, PTL DEF ComposedSpec, FailingChildFails

-----------------------------------------------------------------------------
\* What a composite makes of its children.

\* Among some of finitely many there is a group of a size when they are as many.
LEMMA GroupsWithin ==
  ASSUME NEW all, IsFiniteSet(all), NEW some \in SUBSET all, NEW size \in Nat
  PROVE  (\E group \in kSubset(size, all) : group \subseteq some)
           <=> Cardinality(some) >= size
<1>1. IsFiniteSet(some) /\ Cardinality(some) \in Nat
  BY FS_Subset, FS_CardinalityType
<1>2. ASSUME NEW group \in kSubset(size, all), group \subseteq some
      PROVE  Cardinality(some) >= size
  <2>1. Cardinality(group) = size
    BY DEF kSubset
  <2>2. Cardinality(group) <= Cardinality(some)
    BY <1>1, <1>2, FS_Subset
  <2> QED BY <1>1, <2>1, <2>2
<1>3. ASSUME Cardinality(some) >= size
      PROVE  \E group \in kSubset(size, all) : group \subseteq some
  <2>1. PICK f : f \in Bijection(1..Cardinality(some), some)
    BY <1>1, FS_CardinalityType DEF ExistsBijection
  <2>2. /\ 1..size \subseteq 1..Cardinality(some)
        /\ f \in [1..Cardinality(some) -> some]
        /\ \A i, j \in 1..Cardinality(some) : f[i] = f[j] => i = j
    BY <1>1, <1>3, <2>1 DEF Bijection, Injection, IsInjective
  <2> DEFINE group == {f[i] : i \in 1..size}
             h == [i \in 1..size |-> f[i]]
  <2>3. h \in Bijection(1..size, group)
    BY <2>2 DEF Bijection, Injection, IsInjective, Surjection
  <2>4. Cardinality(group) = size
    <3> HIDE DEF group, h
    <3> QED BY <2>3, FS_CountingElements DEF ExistsBijection
  <2>5. group \subseteq some
    BY <2>2
  <2> QED BY <2>4, <2>5 DEF kSubset
<1> QED BY <1>2, <1>3

\* A node has as many children as it holds steps.
LEMMA CountOfChildren ==
  ASSUME ChartOK, NEW n \in Node
  PROVE  IsFiniteSet(Children(n)) /\ Cardinality(Children(n)) = Len(StepsOf(n))
<1>1. StepsOf(n) \in Seq(Node) /\ Len(StepsOf(n)) \in Nat
  BY ChartIsCompiled DEF IsPlan, StepsOf, Steps
<1>2. StepsOf(n) \in Bijection(1..Len(StepsOf(n)), Children(n))
  <2>1. \A i, j \in DOMAIN StepsOf(n) : StepsOf(n)[i] = StepsOf(n)[j] => i = j
    BY ChildIsOwned
  <2>2. Children(n) = {StepsOf(n)[i] : i \in DOMAIN StepsOf(n)}
    BY DEF Children, ChildrenOf, Range, StepsOf, Steps
  <2> QED BY <1>1, <2>1, <2>2 DEF Bijection, Injection, IsInjective, Surjection
<1>3. ExistsBijection(1..Len(StepsOf(n)), Children(n))
  BY <1>2 DEF ExistsBijection
<1> QED BY <1>1, <1>3, FS_CountingElements, FS_NatBijection

\* A disjunction holds where one of its conditions does.
LEMMA AnyOfHolds ==
  ASSUME NEW conditions, NEW lives, NEW observed, NEW last
  PROVE  Holds(UNION conditions, lives, observed, last)
           <=> \E c \in conditions : Holds(c, lives, observed, last)
  BY DEF Holds

\* One of some children ended without succeeding, or all of them did.
LEMMA LostChildren ==
  ASSUME NEW nodes, NEW lives, NEW observed, NEW last
  PROVE  /\ Holds(UNION {EndedWithoutSuccess(m) : m \in nodes}, lives, observed, last)
              <=> \E m \in nodes : lives[m] \in Unsuccessful
         /\ Holds(AllOf({EndedWithoutSuccess(m) : m \in nodes}), lives, observed, last)
              <=> \A m \in nodes : lives[m] \in Unsuccessful
<1> DEFINE lost == {EndedWithoutSuccess(m) : m \in nodes}
<1>1. \A m : Holds(EndedWithoutSuccess(m), lives, observed, last)
               <=> lives[m] \in Unsuccessful
  BY EndedWithoutSuccessHolds
<1>2. /\ Holds(UNION lost, lives, observed, last)
           <=> \E c \in lost : Holds(c, lives, observed, last)
      /\ Holds(AllOf(lost), lives, observed, last)
           <=> \A c \in lost : Holds(c, lives, observed, last)
  <2> HIDE DEF lost
  <2> QED BY AnyOfHolds, AllOfHolds
<1> QED BY <1>1, <1>2

\* The nodes of a Parallel that are at their goals.
AtTheirGoals(n) ==
  {m \in Children(n) : lastObservation[m] = "TRUE" /\ life[m] \notin Unsuccessful}

LEMMA AtItsGoalHolds ==
  ASSUME NEW m, NEW lives, NEW observed, NEW last
  PROVE  Holds(AtItsGoal(m), lives, observed, last)
           <=> last[m] = "TRUE" /\ lives[m] \notin Unsuccessful
<1> DEFINE goal == {Is(m, "LAST_OBSERVED_TRUE"), IsNot(m, "IS_FAILED"),
                    IsNot(m, "IS_INTERRUPTED")}
<1>1. Holds(AtItsGoal(m), lives, observed, last)
        <=> \A literal \in goal : literal.holds = Predicate(literal, lives, observed, last)
  BY DEF Holds, AtItsGoal
<1>2. /\ Is(m, "LAST_OBSERVED_TRUE").holds = TRUE
      /\ IsNot(m, "IS_FAILED").holds = FALSE
      /\ IsNot(m, "IS_INTERRUPTED").holds = FALSE
  BY DEF Is, IsNot
<1>3. /\ Predicate(Is(m, "LAST_OBSERVED_TRUE"), lives, observed, last)
           <=> last[m] = "TRUE"
      /\ Predicate(IsNot(m, "IS_FAILED"), lives, observed, last)
           <=> lives[m] = "FAILED"
      /\ Predicate(IsNot(m, "IS_INTERRUPTED"), lives, observed, last)
           <=> lives[m] = "INTERRUPTED"
  BY DEF Predicate, Is, IsNot, LifeCyclePredicate, ObservationPredicate
<1>4. \A literal \in goal : Predicate(literal, lives, observed, last) \in BOOLEAN
  BY DEF Predicate
<1> QED BY <1>1, <1>2, <1>3, <1>4 DEF Unsuccessful

\* Enough nodes of a Parallel are at their goals where some group of the size it
\* asks for is.
LEMMA EnoughAtTheirGoals ==
  ASSUME ChartOK, NEW n \in Node, RequiredSuccesses(chart.plan, n) \in Nat
  PROVE  Holds(UNION {AllOf({AtItsGoal(m) : m \in group}) :
                        group \in kSubset(RequiredSuccesses(chart.plan, n),
                                          ChildrenOf(chart.plan, n))},
               life, observation, lastObservation)
           <=> Cardinality(AtTheirGoals(n)) >= RequiredSuccesses(chart.plan, n)
<1> DEFINE size == RequiredSuccesses(chart.plan, n)
           groups == kSubset(size, Children(n))
           together(group) == AllOf({AtItsGoal(m) : m \in group})
<1>1. ASSUME NEW group \in groups
      PROVE  Holds(together(group), life, observation, lastObservation)
               <=> group \subseteq AtTheirGoals(n)
  <2> DEFINE goals == {AtItsGoal(m) : m \in group}
  <2>1. Holds(AllOf(goals), life, observation, lastObservation)
          <=> \A c \in goals : Holds(c, life, observation, lastObservation)
    BY AllOfHolds
  <2>2. \A m \in group : Holds(AtItsGoal(m), life, observation, lastObservation)
          <=> lastObservation[m] = "TRUE" /\ life[m] \notin Unsuccessful
    BY AtItsGoalHolds
  <2>3. group \subseteq Children(n)
    BY DEF kSubset
  <2> QED BY <2>1, <2>2, <2>3 DEF AtTheirGoals
<1>2. Holds(UNION {together(group) : group \in groups}, life, observation, lastObservation)
        <=> \E group \in groups : Holds(together(group), life, observation, lastObservation)
  <2> DEFINE all == {together(group) : group \in groups}
  <2>1. Holds(UNION all, life, observation, lastObservation)
          <=> \E c \in all : Holds(c, life, observation, lastObservation)
    <3> HIDE DEF all
    <3> QED BY AnyOfHolds
  <2> HIDE DEF together, groups
  <2> QED BY <2>1
<1>3. (\E group \in groups : group \subseteq AtTheirGoals(n))
        <=> Cardinality(AtTheirGoals(n)) >= size
  <2>1. AtTheirGoals(n) \subseteq Children(n)
    BY DEF AtTheirGoals
  <2> QED BY <2>1, CountOfChildren, GroupsWithin
<1> HIDE DEF together, groups
<1>4. Holds(UNION {together(group) : group \in groups}, life, observation, lastObservation)
        <=> Cardinality(AtTheirGoals(n)) >= size
  BY <1>1, <1>2, <1>3
<1> QED BY <1>4 DEF together, groups, Children

\* A Parallel cannot arrive any more exactly where its condition to fail says so.
LEMMA TooFewLeft ==
  ASSUME ChartOK, NEW n \in Node, RequiredSuccesses(chart.plan, n) \in Nat,
         NEW observed, NEW last
  PROVE  Holds(CannotArriveAnyMore(chart.plan, n), life, observed, last)
           <=> Cardinality(Children(n) \ InState(n, Unsuccessful))
                 < RequiredSuccesses(chart.plan, n)
<1> DEFINE required == RequiredSuccesses(chart.plan, n)
           size == Len(StepsOf(n)) - required + 1
           lost == InState(n, Unsuccessful)
           groups == kSubset(size, Children(n))
           together(group) == AllOf({EndedWithoutSuccess(m) : m \in group})
<1>1. /\ IsFiniteSet(Children(n)) /\ Cardinality(Children(n)) = Len(StepsOf(n))
      /\ lost \subseteq Children(n) /\ Children(n) \cap lost = lost
  BY CountOfChildren DEF InState
<1>2. /\ Cardinality(Children(n) \ lost) = Len(StepsOf(n)) - Cardinality(lost)
      /\ Cardinality(lost) \in Nat /\ Len(StepsOf(n)) \in Nat
      /\ Cardinality(lost) <= Len(StepsOf(n))
  <2> HIDE DEF lost
  <2>1. Cardinality(Children(n)) \in Nat
    BY <1>1, FS_CardinalityType
  <2>2. IsFiniteSet(lost) /\ Cardinality(lost) <= Cardinality(Children(n))
    BY <1>1, FS_Subset
  <2>3. Cardinality(lost) \in Nat
    BY <2>2, FS_CardinalityType
  <2>4. Cardinality(Children(n) \ lost)
          = Cardinality(Children(n)) - Cardinality(Children(n) \cap lost)
    BY <1>1, FS_Difference
  <2> QED BY <1>1, <2>1, <2>2, <2>3, <2>4
<1>3. CASE size <= 0
  <2>1. CannotArriveAnyMore(chart.plan, n) = ConstTrue
    BY <1>3 DEF CannotArriveAnyMore, StepsOf
  <2>2. Holds(ConstTrue, life, observed, last)
    BY DEF Holds, ConstTrue
  <2> QED BY <1>2, <1>3, <2>1, <2>2
<1>4. CASE ~ (size <= 0)
  <2>0. size \in Nat
    BY <1>2, <1>4
  <2>1. ASSUME NEW group \in groups
        PROVE  Holds(together(group), life, observed, last) <=> group \subseteq lost
    <3>1. Holds(together(group), life, observed, last)
            <=> \A m \in group : life[m] \in Unsuccessful
      BY LostChildren
    <3>2. group \subseteq Children(n)
      BY DEF kSubset
    <3> QED BY <3>1, <3>2 DEF InState
  <2>2. Holds(UNION {together(group) : group \in groups}, life, observed, last)
          <=> \E group \in groups : Holds(together(group), life, observed, last)
    <3> DEFINE all == {together(group) : group \in groups}
    <3>1. Holds(UNION all, life, observed, last)
            <=> \E c \in all : Holds(c, life, observed, last)
      <4> HIDE DEF all
      <4> QED BY AnyOfHolds
    <3> HIDE DEF together, groups
    <3> QED BY <3>1
  <2>3. (\E group \in groups : group \subseteq lost) <=> Cardinality(lost) >= size
    <3> HIDE DEF lost, size
    <3> QED BY <1>1, <2>0, GroupsWithin
  <2>4. CannotArriveAnyMore(chart.plan, n) = UNION {together(group) : group \in groups}
    BY <1>4 DEF CannotArriveAnyMore, StepsOf, Children
  <2>5. Holds(CannotArriveAnyMore(chart.plan, n), life, observed, last)
          <=> Cardinality(lost) >= size
    <3> HIDE DEF together, groups, lost, size
    <3> QED BY <2>1, <2>2, <2>3, <2>4
  <2> QED BY <1>2, <2>5
<1> QED BY <1>3, <1>4


LEMMA LeastIsChosen ==
  ASSUME NEW numbers \in SUBSET Nat, NEW i \in numbers, \A j \in numbers : i <= j
  PROVE  (CHOOSE k \in numbers : \A j \in numbers : k <= j) = i
<1> DEFINE least == CHOOSE k \in numbers : \A j \in numbers : k <= j
<1>1. least \in numbers /\ \A j \in numbers : least <= j
  OBVIOUS
<1> HIDE DEF least
<1>2. least \in Nat /\ i \in Nat /\ least <= i /\ i <= least
  BY <1>1
<1> QED BY <1>2 DEF least

\* An expression of two cases with a value each.
LEMMA TwoCases ==
  ASSUME NEW n, NEW first, NEW whenFirst, NEW second, NEW whenSecond,
         chart.observation[n] = <<Observes(first, whenFirst), Observes(second, whenSecond)>>
  PROVE  ObservationExpression(n) =
           IF Holds(whenFirst, life, observation, lastObservation) THEN first
           ELSE IF Holds(whenSecond, life, observation, lastObservation) THEN second
           ELSE "UNKNOWN"
<1> DEFINE cases == chart.observation[n]
           matching == {i \in DOMAIN cases :
                          Holds(cases[i].when, life, observation, lastObservation)}
           least == CHOOSE i \in matching : \A j \in matching : i <= j
<1>1. /\ DOMAIN cases = 1..2
      /\ cases[1].when = whenFirst /\ cases[2].when = whenSecond
      /\ cases[1].reads.of = "value" /\ cases[1].reads.value = first
      /\ cases[2].reads.of = "value" /\ cases[2].reads.value = second
  BY DEF Observes
<1>2. /\ 1 \in matching <=> Holds(whenFirst, life, observation, lastObservation)
      /\ 2 \in matching <=> Holds(whenSecond, life, observation, lastObservation)
      /\ matching \subseteq 1..2
  <2> HIDE DEF cases
  <2> QED BY <1>1
<1>3. ObservationExpression(n) =
        IF matching = {} THEN "UNKNOWN"
        ELSE IF cases[least].reads.of = "value" THEN cases[least].reads.value
        ELSE IF cases[least].reads.of = "observation"
          THEN observation[cases[least].reads.node]
        ELSE lastObservation[cases[least].reads.node]
  BY DEF ObservationExpression
<1> HIDE DEF cases, matching
<1>4. 1 \in matching => least = 1
  BY <1>2, LeastIsChosen
<1>5. 1 \notin matching /\ 2 \in matching => least = 2
  BY <1>2, LeastIsChosen
<1>6. 1 \notin matching /\ 2 \notin matching => matching = {}
  BY <1>2
<1> HIDE DEF least
<1> QED BY <1>1, <1>2, <1>3, <1>4, <1>5, <1>6

LEMMA CasesOfKind ==
  ASSUME ChartOK, NEW n \in Node
  PROVE  LET kind == chart.plan.kind[n]
             cases == chart.observation[n]
         IN  /\ kind = "Sequence" => cases = ObservesSteps(chart.plan, n)
             /\ kind \in {"TryAll", "TryInOrder"} => cases = ObservesAlternatives(chart.plan, n)
             /\ kind = "Parallel" => cases = ObservesEnough(chart.plan, n)
             /\ kind = "RepeatUntil" => cases = ObservesTask(chart.plan, n)
             /\ kind \in Stopping => cases = ObservesUnlessStopped(chart.plan, n)
             /\ kind \in Pausing =>
                  cases = <<[when |-> ConstTrue,
                             reads |-> [of |-> "last", node |-> Watched(chart.plan, n)]]>>
<1>1. chart.observation[n] = ObservationCases(chart.plan, n)
  BY ChartIsCompiled
<1> QED BY <1>1 DEF ObservationCases, Pausing, Stopping, Terminal

\* What each kind of composite observes, said of its children.
LEMMA SequenceReads ==
  ASSUME ChartOK, NEW n \in Node, chart.plan.kind[n] = "Sequence"
  PROVE  ObservationExpression(n) =
           IF InState(n, Unsuccessful) # {} THEN "FALSE"
           ELSE IF life[StepsOf(n)[Len(StepsOf(n))]] = "SUCCEEDED" THEN "TRUE"
           ELSE "UNKNOWN"
<1> DEFINE last == StepsOf(n)[Len(StepsOf(n))]
           lost == UNION {EndedWithoutSuccess(m) : m \in Children(n)}
<1>1. chart.observation[n]
        = <<Observes("FALSE", lost), Observes("TRUE", {{Is(last, "IS_SUCCEEDED")}})>>
  BY CasesOfKind DEF ObservesSteps, StepsOf, Children
<1>2. Holds(lost, life, observation, lastObservation) <=> InState(n, Unsuccessful) # {}
  BY LostChildren DEF InState
<1>3. Holds({{Is(last, "IS_SUCCEEDED")}}, life, observation, lastObservation)
        <=> life[last] = "SUCCEEDED"
  BY LiteralHolds, ZenonT(60) DEF LifeCyclePredicate
<1> HIDE DEF last, lost
<1>4. ObservationExpression(n) =
        IF Holds(lost, life, observation, lastObservation) THEN "FALSE"
        ELSE IF Holds({{Is(last, "IS_SUCCEEDED")}}, life, observation, lastObservation)
          THEN "TRUE" ELSE "UNKNOWN"
  BY <1>1, TwoCases
<1> QED BY <1>2, <1>3, <1>4 DEF last

LEMMA AlternativesRead ==
  ASSUME ChartOK, NEW n \in Node, chart.plan.kind[n] \in {"TryAll", "TryInOrder"}
  PROVE  ObservationExpression(n) =
           IF InState(n, {"SUCCEEDED"}) # {} THEN "TRUE"
           ELSE IF InState(n, Unsuccessful) = Children(n) THEN "FALSE"
           ELSE "UNKNOWN"
<1> DEFINE worked == {{Is(m, "IS_SUCCEEDED")} : m \in Children(n)}
           lost == AllOf({EndedWithoutSuccess(m) : m \in Children(n)})
<1>1. chart.observation[n] = <<Observes("TRUE", worked), Observes("FALSE", lost)>>
  BY CasesOfKind DEF ObservesAlternatives, Children
<1>2. Holds(lost, life, observation, lastObservation)
        <=> InState(n, Unsuccessful) = Children(n)
  BY LostChildren DEF InState
<1>3. Holds(worked, life, observation, lastObservation) <=> InState(n, {"SUCCEEDED"}) # {}
  <2> DEFINE True(literal) ==
               literal.holds = Predicate(literal, life, observation, lastObservation)
  <2>1. \A m : True(Is(m, "IS_SUCCEEDED")) <=> life[m] = "SUCCEEDED"
    BY DEF Is, Predicate, LifeCyclePredicate, ObservationPredicate
  <2>2. Holds(worked, life, observation, lastObservation)
          <=> \E clause \in worked : \A literal \in clause : True(literal)
    BY DEF Holds
  <2>3. (\E clause \in worked : \A literal \in clause : True(literal))
          <=> \E m \in Children(n) : True(Is(m, "IS_SUCCEEDED"))
    <3> HIDE DEF True
    <3>1. ASSUME NEW m \in Children(n), True(Is(m, "IS_SUCCEEDED"))
          PROVE  \E clause \in worked : \A literal \in clause : True(literal)
      <4>1. {Is(m, "IS_SUCCEEDED")} \in worked
        OBVIOUS
      <4> QED BY <3>1, <4>1
    <3>2. ASSUME NEW clause \in worked, \A literal \in clause : True(literal)
          PROVE  \E m \in Children(n) : True(Is(m, "IS_SUCCEEDED"))
      <4>1. PICK m \in Children(n) : clause = {Is(m, "IS_SUCCEEDED")}
        OBVIOUS
      <4> QED BY <3>2, <4>1
    <3> QED BY <3>1, <3>2
  <2> HIDE DEF True, worked
  <2> QED BY <2>1, <2>2, <2>3 DEF InState
<1> HIDE DEF worked, lost
<1>4. ObservationExpression(n) =
        IF Holds(worked, life, observation, lastObservation) THEN "TRUE"
        ELSE IF Holds(lost, life, observation, lastObservation) THEN "FALSE" ELSE "UNKNOWN"
  BY <1>1, TwoCases
<1> QED BY <1>2, <1>3, <1>4

LEMMA ParallelReads ==
  ASSUME ChartOK, NEW n \in Node, chart.plan.kind[n] = "Parallel"
  PROVE  /\ RequiredSuccesses(chart.plan, n) \in Nat
         /\ ObservationExpression(n) =
              IF Cardinality(AtTheirGoals(n)) >= RequiredSuccesses(chart.plan, n)
              THEN "TRUE" ELSE "FALSE"
<1> DEFINE enough == UNION {AllOf({AtItsGoal(m) : m \in group}) :
                              group \in kSubset(RequiredSuccesses(chart.plan, n),
                                                ChildrenOf(chart.plan, n))}
<1>1. chart.observation[n] = <<Observes("TRUE", enough), Observes("FALSE", ConstTrue)>>
  BY CasesOfKind DEF ObservesEnough
<1>2. RequiredSuccesses(chart.plan, n) \in Nat
  BY ChartIsCompiled DEF RequiredSuccesses, IsPlan, Steps
<1>3. Holds(enough, life, observation, lastObservation)
        <=> Cardinality(AtTheirGoals(n)) >= RequiredSuccesses(chart.plan, n)
  BY <1>2, EnoughAtTheirGoals
<1>4. Holds(ConstTrue, life, observation, lastObservation)
  BY DEF Holds, ConstTrue
<1> HIDE DEF enough
<1>5. ObservationExpression(n) =
        IF Holds(enough, life, observation, lastObservation) THEN "TRUE"
        ELSE IF Holds(ConstTrue, life, observation, lastObservation) THEN "FALSE"
        ELSE "UNKNOWN"
  BY <1>1, TwoCases
<1> QED BY <1>2, <1>3, <1>4, <1>5

\* A monitor that fired is read through its last observation.
LEMMA FiredHolds ==
  ASSUME NEW n, NEW lives, NEW observed, NEW last
  PROVE  Holds(Fired(chart.plan, n), lives, observed, last)
           <=> last[Monitor(chart.plan, n)] = "TRUE"
  BY DEF Holds, Fired, Is, Predicate, LifeCyclePredicate, ObservationPredicate

LEMMA TaskReads ==
  ASSUME ChartOK, NEW n \in Node, chart.plan.kind[n] = "RepeatUntil"
  PROVE  ObservationExpression(n) =
           IF life[WatchedBy(n)] = "SUCCEEDED" THEN "TRUE"
           ELSE IF HasFired(n) THEN "FALSE" ELSE "UNKNOWN"
<1> DEFINE task == WatchedBy(n)
           fired == Fired(chart.plan, n)
<1>1. chart.observation[n]
        = <<Observes("TRUE", {{Is(task, "IS_SUCCEEDED")}}), Observes("FALSE", fired)>>
  BY CasesOfKind DEF ObservesTask, WatchedBy
<1>2. Holds({{Is(task, "IS_SUCCEEDED")}}, life, observation, lastObservation)
        <=> life[task] = "SUCCEEDED"
  BY LiteralHolds DEF LifeCyclePredicate
<1>3. Holds(fired, life, observation, lastObservation) <=> HasFired(n)
  BY FiredHolds DEF HasFired
<1> HIDE DEF task, fired
<1>4. ObservationExpression(n) =
        IF Holds({{Is(task, "IS_SUCCEEDED")}}, life, observation, lastObservation)
          THEN "TRUE"
        ELSE IF Holds(fired, life, observation, lastObservation) THEN "FALSE"
        ELSE "UNKNOWN"
  BY <1>1, TwoCases
<1> QED BY <1>2, <1>3, <1>4 DEF task

LEMMA StoppingReads ==
  ASSUME ChartOK, NEW n \in Node, chart.plan.kind[n] \in Stopping
  PROVE  ObservationExpression(n) =
           IF \/ life[WatchedBy(n)] = "SUCCEEDED"
              \/ life[WatchedBy(n)] \notin TerminalStates
                   /\ observation[WatchedBy(n)] = "TRUE"
           THEN "TRUE"
           ELSE IF HasFired(n) THEN "FALSE" ELSE "UNKNOWN"
<1> DEFINE watched == WatchedBy(n)
           running == {IsNot(watched, "IS_TERMINATED"), Is(watched, "OBSERVES_TRUE")}
           arrived == {running, {Is(watched, "IS_SUCCEEDED")}}
           fired == Fired(chart.plan, n)
           True(literal) ==
             literal.holds = Predicate(literal, life, observation, lastObservation)
<1>1. chart.observation[n] = <<Observes("TRUE", arrived), Observes("FALSE", fired)>>
  BY CasesOfKind DEF ObservesUnlessStopped, WatchedBy
<1>2. Holds(fired, life, observation, lastObservation) <=> HasFired(n)
  BY FiredHolds DEF HasFired
<1>3. /\ True(IsNot(watched, "IS_TERMINATED")) <=> life[watched] \notin TerminalStates
      /\ True(Is(watched, "OBSERVES_TRUE")) <=> observation[watched] = "TRUE"
      /\ True(Is(watched, "IS_SUCCEEDED")) <=> life[watched] = "SUCCEEDED"
  <2> HIDE DEF watched
  <2> QED BY DEF Predicate, Is, IsNot, LifeCyclePredicate, ObservationPredicate
<1>4. Holds(arrived, life, observation, lastObservation)
        <=> \/ life[watched] = "SUCCEEDED"
            \/ life[watched] \notin TerminalStates /\ observation[watched] = "TRUE"
  <2>1. Holds(arrived, life, observation, lastObservation)
          <=> \E clause \in arrived : \A literal \in clause : True(literal)
    BY DEF Holds
  <2> HIDE DEF True
  <2> QED BY <1>3, <2>1
<1> HIDE DEF arrived, fired, watched
<1>5. ObservationExpression(n) =
        IF Holds(arrived, life, observation, lastObservation) THEN "TRUE"
        ELSE IF Holds(fired, life, observation, lastObservation) THEN "FALSE"
        ELSE "UNKNOWN"
  BY <1>1, TwoCases
<1> QED BY <1>2, <1>4, <1>5 DEF watched

LEMMA PausingReads ==
  ASSUME ChartOK, NEW n \in Node, chart.plan.kind[n] \in Pausing
  PROVE  ObservationExpression(n) = lastObservation[WatchedBy(n)]
<1> DEFINE watched == WatchedBy(n)
           cases == chart.observation[n]
           matching == {i \in DOMAIN cases :
                          Holds(cases[i].when, life, observation, lastObservation)}
<1>1. cases = <<[when |-> ConstTrue, reads |-> [of |-> "last", node |-> watched]]>>
  BY CasesOfKind DEF WatchedBy
<1>2. Holds(ConstTrue, life, observation, lastObservation)
  BY DEF Holds, ConstTrue
<1> HIDE DEF watched
<1>3. matching = {1}
  BY <1>1, <1>2
<1> DEFINE least == CHOOSE i \in matching : \A j \in matching : i <= j
<1>4. least = 1
  <2> HIDE DEF matching
  <2> QED BY <1>3, LeastIsChosen
<1>5. ObservationExpression(n) =
        IF matching = {} THEN "UNKNOWN"
        ELSE IF cases[least].reads.of = "value" THEN cases[least].reads.value
        ELSE IF cases[least].reads.of = "observation"
          THEN observation[cases[least].reads.node]
        ELSE lastObservation[cases[least].reads.node]
  BY DEF ObservationExpression
<1> HIDE DEF matching, least, cases
<1> QED BY <1>1, <1>3, <1>4, <1>5 DEF watched


\* What is watched over, and the monitor beside it, are two children that nothing but
\* the node that holds them resets.
LEMMA WatchedChildren ==
  ASSUME ChartOK, NEW n \in Node, chart.plan.kind[n] \in Monitored
  PROVE  /\ 1 \in DOMAIN StepsOf(n) /\ 2 \in DOMAIN StepsOf(n)
         /\ Monitor(chart.plan, n) = StepsOf(n)[1]
         /\ WatchedBy(n) = StepsOf(n)[2]
         /\ \A c \in {Monitor(chart.plan, n), WatchedBy(n)} :
              /\ c \in Node /\ chart.parent[c] = n /\ Unreset(c)
              /\ OwnerKind(chart.plan, c) = chart.plan.kind[n]
              /\ Owner(chart.plan, c) = n
              /\ chart.plan.kind[c] # "Absent"
<1>1. /\ StepsOf(n) \in Seq(Node) /\ Len(StepsOf(n)) >= 2
      /\ \A i \in DOMAIN StepsOf(n) : chart.plan.kind[StepsOf(n)[i]] # "Absent"
  BY ChartIsCompiled DEF IsPlan, StepsOf, Steps
<1>2. 1 \in DOMAIN StepsOf(n) /\ 2 \in DOMAIN StepsOf(n)
  BY <1>1
<1>3. Monitor(chart.plan, n) = StepsOf(n)[1] /\ WatchedBy(n) = StepsOf(n)[2]
  BY DEF Monitor, Watched, WatchedBy, StepsOf, Monitored, Pausing, Stopping
<1>4. ASSUME NEW i \in DOMAIN StepsOf(n)
      PROVE  LET c == StepsOf(n)[i]
             IN  /\ c \in Node /\ chart.parent[c] = n /\ Unreset(c)
                 /\ OwnerKind(chart.plan, c) = chart.plan.kind[n]
                 /\ Owner(chart.plan, c) = n
                 /\ chart.plan.kind[c] # "Absent"
  <2> DEFINE c == StepsOf(n)[i]
  <2>1. c \in Node /\ chart.parent[c] = n /\ Owner(chart.plan, c) = n
    BY ChildIsOwned
  <2>2. chart.plan.kind[c] # "Absent"
    BY <1>1
  <2> HIDE DEF c
  <2>3. OwnerKind(chart.plan, c) = chart.plan.kind[n]
    BY <2>1, NodeAssumption DEF OwnerKind
  <2>4. chart.condition[c]["RESET"] = ResetCondition(chart.plan, c)
    BY <2>1, ChartIsCompiled DEF ConditionsWritten
  <2>5. ~ IsTask(chart.plan, c)
    BY <2>3 DEF IsTask, IsChild, Monitored, Pausing, Stopping
  <2> QED BY <2>1, <2>2, <2>3, <2>4, <2>5 DEF Unreset, ResetCondition, c
<1> QED BY <1>2, <1>3, <1>4

\* How a composite fails: the ones that end their children by what they observe, the
\* others where they can no longer arrive.
LEMMA InherentFailure ==
  ASSUME ChartOK, NEW n \in CompositeNodes, NEW observed, NEW last
  PROVE  Holds(InherentFailCondition(chart.plan, n), life, observed, last)
           <=> IF chart.plan.kind[n] \in EndingItsChildren THEN observed[n] = "FALSE"
               ELSE CannotArrive(n)
<1>0. n \in Node /\ chart.plan.kind[n] \in Composite
  BY DEF CompositeNodes, NodesOf
<1>1. /\ Holds({{Is(n, "OBSERVES_FALSE")}}, life, observed, last)
           <=> observed[n] = "FALSE"
      /\ ~ Holds({}, life, observed, last)
  BY DEF Holds, Is, Predicate, LifeCyclePredicate, ObservationPredicate
<1>2. CASE chart.plan.kind[n] \in EndingItsChildren
  <2>1. InherentFailCondition(chart.plan, n) = {{Is(n, "OBSERVES_FALSE")}}
    BY <1>2 DEF InherentFailCondition, EndsOfItself, EndingItsChildren,
                RunningItsChildrenInTurn, Monitored, Pausing, Stopping
  <2> QED BY <1>1, <1>2, <2>1
<1>3. CASE chart.plan.kind[n] = "Parallel"
  <2>1. InherentFailCondition(chart.plan, n) = CannotArriveAnyMore(chart.plan, n)
    <3>1. EndsOfItself(chart.plan, n) = {}
      BY <1>0, <1>3, ChartIsCompiled
         DEF EndsOfItself, IsPlan, EndingItsChildren, RunningItsChildrenInTurn
    <3> QED BY <1>3, <3>1 DEF InherentFailCondition, Monitored, Pausing, Stopping
  <2>2. CannotArrive(n) <=> Cardinality(Children(n) \ InState(n, Unsuccessful))
                              < RequiredSuccesses(chart.plan, n)
    BY <1>3 DEF CannotArrive, Monitored, Pausing, Stopping
  <2> QED BY <1>0, <1>3, <2>1, <2>2, ParallelReads, TooFewLeft
          DEF EndingItsChildren, RunningItsChildrenInTurn
<1>4. CASE chart.plan.kind[n] \in Monitored
  <2>1. InherentFailCondition(chart.plan, n) = EndedWithoutSuccess(WatchedBy(n))
    <3>1. EndsOfItself(chart.plan, n) = {}
      BY <1>0, <1>4, ChartIsCompiled
         DEF EndsOfItself, IsPlan, EndingItsChildren, RunningItsChildrenInTurn,
             Monitored, Pausing, Stopping
    <3> QED BY <1>4, <3>1 DEF InherentFailCondition, WatchedBy, Monitored, Pausing, Stopping
  <2>2. CannotArrive(n) <=> life[WatchedBy(n)] \in Unsuccessful
    BY <1>4 DEF CannotArrive, Monitored, Pausing, Stopping
  <2>3. chart.plan.kind[n] \notin EndingItsChildren
    BY <1>4 DEF EndingItsChildren, RunningItsChildrenInTurn, Monitored, Pausing, Stopping
  <2> QED BY <2>1, <2>2, <2>3, EndedWithoutSuccessHolds
<1> QED BY <1>0, <1>2, <1>3, <1>4 DEF Composite

\* What a composite that has not ended observes next is what became of its children.
LEMMA ExpressionSaysWhy ==
  ASSUME Sound, UnresetNodes, NEW n \in CompositeNodes, life[n] \in ActiveStates
  PROVE  /\ ObservationExpression(n) = "TRUE" =>
              Arrived(n) \/ (chart.plan.kind[n] \notin EndingItsChildren /\ CannotArrive(n))
         /\ (ObservationExpression(n) = "FALSE" /\ chart.plan.kind[n] \in EndingItsChildren)
              => CannotArrive(n)
         /\ (CannotArrive(n) /\ chart.plan.kind[n] \in EndingItsChildren)
              => ObservationExpression(n) = "FALSE"
         /\ (Arrived(n) /\ ~ CannotArrive(n)) => ObservationExpression(n) = "TRUE"
<1>0. n \in Node /\ chart.plan.kind[n] \in Composite /\ ChartOK
  BY DEF CompositeNodes, NodesOf, Sound
<1>1. CASE chart.plan.kind[n] = "Sequence"
  BY <1>0, <1>1, SequenceReads
     DEF Arrived, CannotArrive, Monitored, Pausing, Stopping, EndingItsChildren,
         RunningItsChildrenInTurn
<1>2. CASE chart.plan.kind[n] \in {"TryAll", "TryInOrder"}
  <2>1. InState(n, Unsuccessful) = Children(n) => InState(n, {"SUCCEEDED"}) = {}
    BY DEF InState, Unsuccessful
  <2> QED BY <1>0, <1>2, <2>1, AlternativesRead
          DEF Arrived, CannotArrive, Monitored, Pausing, Stopping, EndingItsChildren,
              RunningItsChildrenInTurn
<1>3. CASE chart.plan.kind[n] = "Parallel"
  <2>1. Arrived(n) <=> Cardinality(AtTheirGoals(n)) >= RequiredSuccesses(chart.plan, n)
    BY <1>3 DEF Arrived, AtTheirGoals, Pausing, Stopping
  <2>2. chart.plan.kind[n] \notin EndingItsChildren
    BY <1>3 DEF EndingItsChildren, RunningItsChildrenInTurn
  <2> QED BY <1>0, <1>3, <2>1, <2>2, ParallelReads
<1>4. CASE chart.plan.kind[n] = "RepeatUntil"
  BY <1>0, <1>4, TaskReads
     DEF Arrived, CannotArrive, Monitored, Pausing, Stopping, EndingItsChildren,
         RunningItsChildrenInTurn
<1>5. CASE chart.plan.kind[n] \in Pausing
  <2>1. /\ Arrived(n) <=> lastObservation[WatchedBy(n)] = "TRUE"
                          /\ life[WatchedBy(n)] \notin Unsuccessful
        /\ CannotArrive(n) <=> life[WatchedBy(n)] \in Unsuccessful
        /\ chart.plan.kind[n] \notin EndingItsChildren
    BY <1>5 DEF Arrived, CannotArrive, Monitored, Pausing, Stopping, EndingItsChildren,
                RunningItsChildrenInTurn
  <2> QED BY <1>0, <1>5, <2>1, PausingReads
<1>6. CASE chart.plan.kind[n] \in Stopping
  <2> DEFINE watched == WatchedBy(n)
  <2>1. watched \in Node /\ chart.parent[watched] = n /\ Unreset(watched)
    BY <1>0, <1>6, WatchedChildren DEF Monitored
  <2>2. life[watched] \in LifeCycleValues
    BY <2>1 DEF Sound, TypeOK
  <2>3. ParentState(watched, life) # "NOT_STARTED"
    BY <1>0, <2>1, NodeAssumption DEF ParentState, ActiveStates
  <2>4. (life[watched] \notin TerminalStates /\ observation[watched] = "TRUE")
          <=> (life[watched] \in ActiveStates /\ observation[watched] = "TRUE")
    <3> HIDE DEF watched
    <3>1. observation[watched] = "TRUE" => life[watched] # "NOT_STARTED"
      BY <2>1, <2>3 DEF UnresetNodes, UnstartedObservesNothing
    <3> QED BY <2>2, <3>1 DEF LifeCycleValues, TerminalStates, ActiveStates
  <2>5. /\ Arrived(n) <=> \/ life[watched] = "SUCCEEDED"
                          \/ life[watched] \in ActiveStates /\ observation[watched] = "TRUE"
        /\ chart.plan.kind[n] \notin EndingItsChildren
    BY <1>6 DEF Arrived, Pausing, Stopping, EndingItsChildren, RunningItsChildrenInTurn
  <2> QED BY <1>0, <1>6, <2>4, <2>5, StoppingReads
<1> QED BY <1>0, <1>1, <1>2, <1>3, <1>4, <1>5, <1>6
        DEF Composite, EndingItsChildren, RunningItsChildrenInTurn, Monitored
-----------------------------------------------------------------------------
\* A composite ends the way its children did.

\* Nothing but its template and its owner says how a composite fails.
EndedByTemplatesAlone == \A n \in CompositeNodes : chart.plan.fail[n] = ConstFalse

\* What a composite ends by when it observes it.
Ends(n, value) ==
  \/ /\ value = "TRUE"
     /\ EndedByItsOwner(chart.plan, n) \/ "SucceedsOnObservingTrue" \in chart.ends[n]
  \/ value = "FALSE" /\ "FailsOnObservingFalse" \in chart.ends[n]

\* What a pass decides a composite by.
LEMMA ConditionsOfComposite ==
  ASSUME ChartOK, WiredAsTheyAre, NEW n \in CompositeNodes
  PROVE  /\ n \in Node /\ chart.plan.kind[n] \in Composite
         /\ chart.ends[n] = IF chart.plan.kind[n] \in EndingItsChildren
                            THEN {"SucceedsOnObservingTrue", "FailsOnObservingFalse"}
                            ELSE {}
         /\ chart.condition[n]["SUCCEED"] = WiredSuccess(chart.plan, n)
         /\ chart.condition[n]["FAIL"] = EffectiveFailCondition(chart.plan, n)
<1>1. n \in Node /\ chart.plan.kind[n] \in Composite
  BY DEF CompositeNodes, NodesOf
<1>2. /\ chart.condition[n] = ConditionsWritten(chart.plan, n)
      /\ chart.ends[n] = EndsOfItself(chart.plan, n)
      /\ chart.plan.ends[n] = {}
  BY <1>1, ChartIsCompiled DEF IsPlan
<1> QED BY <1>1, <1>2 DEF ConditionsWritten, EndsOfItself, WiredAsTheyAre

\* A node fails in a pass only where its own condition to fail holds.
LEMMA FailsByItsCondition ==
  ASSUME Sound, NEW n \in Node, life[n] # "FAILED", LatestPass.life[n] = "FAILED"
  PROVE  Holds(EffectiveCondition(n, "FAIL"), life,
               LatestPass.observation, LatestPass.lastObservation)
<1>1. LatestPass.life[n] =
        NextOf(n, life[n], ParentState(n, LatestPass.life),
               LatestPass.observation, LatestPass.lastObservation)
  BY PassReadsItsObservations DEF Sound
<1>2. life[n] \in LifeCycleValues
  BY DEF Sound, TypeOK
<1>3. ConditionsOf(n, LatestPass.observation, LatestPass.lastObservation)["FAIL"]
  BY <1>1, <1>2 DEF NextOf, NextLifeCycle, EndCase, OwnTrigger, Outcome
<1> QED BY <1>3 DEF ConditionsOf, TransitionKinds

\* A node that may move by itself does not run on over a condition to end it.
LEMMA EndingEnds ==
  ASSUME Sound, NEW n \in Node, n \notin ownTransitionTaken, life[n] \in ActiveStates,
         NEW kind \in {"SUCCEED", "FAIL"},
         Holds(EffectiveCondition(n, kind), life,
               LatestPass.observation, LatestPass.lastObservation)
  PROVE  LatestPass.life[n] \notin ActiveStates
<1>1. LatestPass.life[n] =
        NextOf(n, life[n], ParentState(n, LatestPass.life),
               LatestPass.observation, LatestPass.lastObservation)
  BY PassReadsItsObservations DEF Sound
<1>2. ConditionsOf(n, LatestPass.observation, LatestPass.lastObservation)[kind]
  BY DEF ConditionsOf, TransitionKinds
<1> QED BY <1>1, <1>2
        DEF NextOf, NextLifeCycle, EndCase, OwnTrigger, Outcome, TerminalStates, ActiveStates

LEMMA ObservesHolds ==
  ASSUME NEW n, NEW lives, NEW observed, NEW last
  PROVE  /\ Holds({{Is(n, "OBSERVES_TRUE")}}, lives, observed, last) <=> observed[n] = "TRUE"
         /\ Holds({{Is(n, "OBSERVES_FALSE")}}, lives, observed, last)
              <=> observed[n] = "FALSE"
         /\ Holds({{IsNot(n, "OBSERVES_TRUE")}}, lives, observed, last)
              <=> observed[n] # "TRUE"
<1>1. /\ IsNot(n, "OBSERVES_TRUE").holds = FALSE
      /\ Predicate(IsNot(n, "OBSERVES_TRUE"), lives, observed, last)
           <=> observed[n] = "TRUE"
      /\ Predicate(IsNot(n, "OBSERVES_TRUE"), lives, observed, last) \in BOOLEAN
  BY DEF Is, IsNot, Predicate, LifeCyclePredicate, ObservationPredicate
<1>2. Holds({{IsNot(n, "OBSERVES_TRUE")}}, lives, observed, last)
        <=> IsNot(n, "OBSERVES_TRUE").holds
              = Predicate(IsNot(n, "OBSERVES_TRUE"), lives, observed, last)
  BY DEF Holds
<1>3. /\ Holds({{Is(n, "OBSERVES_TRUE")}}, lives, observed, last) <=> observed[n] = "TRUE"
      /\ Holds({{Is(n, "OBSERVES_FALSE")}}, lives, observed, last) <=> observed[n] = "FALSE"
  BY DEF Holds, Is, Predicate, LifeCyclePredicate, ObservationPredicate
<1> QED BY <1>1, <1>2, <1>3

\* A composite ends with the observation it ends by: where its owner wrote the
\* success, it fails where that success is withheld.
LEMMA DecidedEnds ==
  ASSUME Sound, WiredAsTheyAre, NEW n \in CompositeNodes, n \notin ownTransitionTaken,
         life[n] \in ActiveStates, Ends(n, LatestPass.observation[n])
  PROVE  LatestPass.life[n] \notin ActiveStates
<1> DEFINE observed == LatestPass.observation
           last == LatestPass.lastObservation
           fails == EffectiveFailCondition(chart.plan, n)
<1>1. /\ n \in Node
      /\ chart.condition[n]["SUCCEED"] = WiredSuccess(chart.plan, n)
      /\ chart.condition[n]["FAIL"] = fails
  BY ConditionsOfComposite DEF Sound
<1>2. ASSUME NEW kind \in {"SUCCEED", "FAIL"},
             NEW part, part \subseteq EffectiveCondition(n, kind),
             Holds(part, life, observed, last)
      PROVE  LatestPass.life[n] \notin ActiveStates
  <2>1. Holds(EffectiveCondition(n, kind), life, observed, last)
    BY <1>2 DEF Holds
  <2> QED BY <1>1, <2>1, EndingEnds
<1>3. CASE observed[n] = "TRUE" /\ "SucceedsOnObservingTrue" \in chart.ends[n]
  <2>1. {{Is(n, "OBSERVES_TRUE")}} \subseteq EffectiveCondition(n, "SUCCEED")
    BY <1>3 DEF EffectiveCondition
  <2> HIDE DEF observed, last
  <2> QED BY <1>2, <1>3, <2>1, ObservesHolds
<1>4. CASE observed[n] = "FALSE" /\ "FailsOnObservingFalse" \in chart.ends[n]
  <2>1. {{Is(n, "OBSERVES_FALSE")}} \subseteq EffectiveCondition(n, "FAIL")
    BY <1>4 DEF EffectiveCondition
  <2> HIDE DEF observed, last
  <2> QED BY <1>2, <1>4, <2>1, ObservesHolds
<1>5. CASE observed[n] = "TRUE" /\ EndedByItsOwner(chart.plan, n)
  <2>1. fails \subseteq EffectiveCondition(n, "FAIL")
    BY <1>1 DEF EffectiveCondition
  <2>2. SucceedAtItsGoal(chart.plan, n) \subseteq EffectiveCondition(n, "SUCCEED")
    BY <1>1, <1>5 DEF EffectiveCondition, WiredSuccess
  <2>3. fails \in Condition
    BY <1>1 DEF Sound, ChartOK, IsChart, TransitionKinds
  <2> HIDE DEF observed, last
  <2>4. CASE Holds(fails, life, observed, last)
    <3> HIDE DEF fails
    <3> QED BY <1>2, <2>1, <2>4
  <2>5. CASE ~ Holds(fails, life, observed, last)
    <3> DEFINE goal == {{{Is(n, "OBSERVES_TRUE")}}, Not(fails)}
    <3>1. Holds(Not(fails), life, observed, last)
      <4> HIDE DEF fails
      <4> QED BY <2>3, <2>5, NotHolds
    <3>2. Holds({{Is(n, "OBSERVES_TRUE")}}, life, observed, last)
      BY <1>5, ObservesHolds
    <3>3. Holds(AllOf(goal), life, observed, last)
            <=> \A c \in goal : Holds(c, life, observed, last)
      <4> HIDE DEF goal
      <4> QED BY AllOfHolds
    <3>4. SucceedAtItsGoal(chart.plan, n) = AllOf(goal)
      BY DEF SucceedAtItsGoal
    <3> HIDE DEF fails
    <3>5. Holds(SucceedAtItsGoal(chart.plan, n), life, observed, last)
      BY <3>1, <3>2, <3>3, <3>4
    <3> QED BY <1>2, <2>2, <3>5
  <2> QED BY <2>4, <2>5
<1> QED BY <1>3, <1>4, <1>5 DEF Ends

\* Nothing but a composite's expression says what it observes.
CompositesDoNotTick == \A n \in CompositeNodes : tickObservation[n] = NoObservation

\* A tick begins where the one before it ended.
FirstPass ==
  (phase = "settling" /\ passesTaken = 0)
    => ownTransitionTaken = {} /\ lifeAtCycleStart = life

\* A composite a tick finds paused does not observe in it, and what it observed
\* before is nothing it would end by: else its first pass would have ended it.
PausedIsUndecided ==
  (phase \in {"callbacks", "rest"} \/ (phase = "settling" /\ passesTaken > 0)) =>
    \A n \in CompositeNodes :
      (lifeAtCycleStart[n] = "PAUSED" /\ life[n] \in ActiveStates)
        => ~ Ends(n, observation[n])

\* Between ticks, what a composite would end by is what its children still say.
DecidedByExpression ==
  (phase \in {"callbacks", "rest"} \/ (phase = "settling" /\ passesTaken = 0)) =>
    \A n \in CompositeNodes :
      (life[n] \in ActiveStates /\ Ends(n, observation[n]))
        => ObservationExpression(n) = observation[n]

CompositesObserve ==
  CompositesDoNotTick /\ FirstPass /\ PausedIsUndecided /\ DecidedByExpression

\* What a composite would end by in a pass is what its children say in it.
LEMMA CompositeObserves ==
  ASSUME Sound, CompositesObserve, phase = "settling", NEW n \in CompositeNodes,
         life[n] \in ActiveStates, Ends(n, LatestPass.observation[n])
  PROVE  LatestPass.observation[n] = ObservationExpression(n)
<1>0. n \in Node /\ LatestPass.observation = NextObservation /\ passesTaken \in Nat
  BY PassReadsItsObservations DEF CompositeNodes, NodesOf, Sound, TypeOK
<1>1. CASE lifeAtCycleStart[n] \notin ActiveStates
  BY <1>0, <1>1 DEF NextObservation, Ends
<1>2. CASE lifeAtCycleStart[n] = "RUNNING"
  BY <1>0, <1>2 DEF NextObservation, Observed, CompositesObserve, CompositesDoNotTick,
                    ActiveStates
<1>3. CASE lifeAtCycleStart[n] = "PAUSED"
  <2>1. LatestPass.observation[n] = observation[n]
    BY <1>0, <1>3 DEF NextObservation, ActiveStates
  <2>2. passesTaken = 0
    BY <1>0, <1>3, <2>1 DEF CompositesObserve, PausedIsUndecided
  <2> QED BY <2>1, <2>2 DEF CompositesObserve, DecidedByExpression
<1> QED BY <1>1, <1>2, <1>3 DEF ActiveStates

LEMMA SameExpression ==
  ASSUME UNCHANGED <<chart, life, observation, lastObservation>>, NEW n
  PROVE  ObservationExpression(n)' = ObservationExpression(n)
  BY DEF ObservationExpression

LEMMA NextKeepsCompositesObserving ==
  Sound /\ ResetsArePinned /\ WiredAsTheyAre /\ CompositesObserve /\ [Next]_vars
    => CompositesObserve'
<1> SUFFICES ASSUME Sound, ResetsArePinned, WiredAsTheyAre, CompositesObserve, [Next]_vars
             PROVE  CompositesObserve'
  OBVIOUS
<1>1. chart' = chart /\ CompositeNodes' = CompositeNodes
      /\ \A n, value : Ends(n, value)' = Ends(n, value)
  BY OnlyPassesMoveNodes DEF CompositeNodes, NodesOf, Ends
<1> USE DEF CompositesObserve
<1>2. CASE CollectTickObservations
  <2>1. CompositesDoNotTick'
    <3>1. ASSUME NEW n \in CompositeNodes PROVE n \in Node /\ n \notin AnsweringNodes
      <4>1. n \in Node /\ chart.plan.kind[n] # "Node"
        BY DEF CompositeNodes, NodesOf, Composite, EndingItsChildren,
               RunningItsChildrenInTurn, Monitored, Pausing, Stopping
      <4>2. chart.onTick[n] = {NoObservation}
        BY <4>1, ChartIsCompiled DEF Sound
      <4> QED BY <4>1, <4>2 DEF AnsweringNodes
    <3>2. \A n \in Node \ AnsweringNodes : tickObservation'[n] = NoObservation
      BY <1>2 DEF CollectTickObservations
    <3> QED BY <1>1, <3>1, <3>2 DEF CompositesDoNotTick
  <2>2. FirstPass'
    BY <1>2 DEF CollectTickObservations, FirstPass
  <2>3. PausedIsUndecided'
    BY <1>2 DEF CollectTickObservations, PausedIsUndecided
  <2>4. UNCHANGED <<chart, life, observation, lastObservation>> /\ phase = "rest"
    BY <1>2 DEF CollectTickObservations
  <2>5. DecidedByExpression'
    BY <1>1, <2>4, SameExpression DEF DecidedByExpression, Ends
  <2> QED BY <2>1, <2>2, <2>3, <2>5
<1>3. CASE Settle
  <2>1. /\ phase = "settling" /\ phase' = "callbacks" /\ LatestPass = CurrentState
        /\ UNCHANGED <<chart, life, observation, lastObservation, ownTransitionTaken,
                       lifeAtCycleStart, tickObservation>>
        /\ LatestPass.observation = observation /\ LatestPass.life = life
    BY <1>3, QuietPassIsNoPass DEF Settle, engine, inputs, CurrentState
  <2>2. ASSUME NEW n \in CompositeNodes, life[n] \in ActiveStates, Ends(n, observation[n])
        PROVE  lifeAtCycleStart[n] # "PAUSED" /\ ObservationExpression(n) = observation[n]
    <3>1. ObservationExpression(n) = observation[n]
      BY <2>1, <2>2, CompositeObserves
    <3>2. ASSUME lifeAtCycleStart[n] = "PAUSED" PROVE FALSE
      <4>1. passesTaken = 0
        BY <2>1, <2>2, <3>2 DEF PausedIsUndecided, Sound, TypeOK
      <4>2. n \notin ownTransitionTaken
        BY <2>1, <4>1 DEF FirstPass
      <4> QED BY <2>1, <2>2, <4>2, DecidedEnds
    <3> QED BY <3>1, <3>2
  <2>3. CompositesDoNotTick' /\ FirstPass'
    BY <1>1, <2>1 DEF CompositesDoNotTick, FirstPass
  <2>4. PausedIsUndecided'
    BY <1>1, <2>1, <2>2 DEF PausedIsUndecided
  <2>5. DecidedByExpression'
    BY <1>1, <2>1, <2>2, SameExpression DEF DecidedByExpression
  <2> QED BY <2>3, <2>4, <2>5
<1>4. CASE TakeOverLatestPass
  <2>1. /\ phase = "settling" /\ phase' = "settling" /\ passesTaken' = passesTaken + 1
        /\ life' = LatestPass.life /\ observation' = LatestPass.observation
        /\ UNCHANGED <<chart, lifeAtCycleStart, tickObservation>>
        /\ passesTaken \in Nat
    BY <1>4 DEF TakeOverLatestPass, inputs, Sound, TypeOK
  <2>2. CompositesDoNotTick' /\ FirstPass' /\ DecidedByExpression'
    BY <1>1, <2>1 DEF CompositesDoNotTick, FirstPass, DecidedByExpression
  <2>3. ASSUME NEW n \in CompositeNodes, lifeAtCycleStart[n] = "PAUSED",
               LatestPass.life[n] \in ActiveStates, Ends(n, LatestPass.observation[n])
        PROVE  FALSE
    <3>0. n \in Node
      BY DEF CompositeNodes, NodesOf
    <3>1. life[n] \in ActiveStates
      <4>1. Edge(life[n], LatestPass.life[n]) /\ life[n] \in LifeCycleValues
        BY <3>0, PassKeepsPromises DEF Sound, TypeOK
      <4>2. life[n] # "NOT_STARTED"
        BY <2>1, <2>3, <3>0, ResetNodesStay DEF ResetInTick, ActiveStates
      <4> QED BY <2>3, <4>1, <4>2 DEF Edge, ActiveStates, LifeCycleValues
    <3>2. LatestPass.observation[n] = observation[n]
      BY <2>3, <3>0, <3>1, PassReadsItsObservations DEF NextObservation, Sound, ActiveStates
    <3>3. passesTaken = 0
      BY <2>1, <2>3, <3>1, <3>2 DEF PausedIsUndecided
    <3>4. n \notin ownTransitionTaken
      BY <2>1, <3>3 DEF FirstPass
    <3> QED BY <2>3, <3>1, <3>4, DecidedEnds
  <2>4. PausedIsUndecided'
    BY <1>1, <2>1, <2>3 DEF PausedIsUndecided
  <2> QED BY <2>2, <2>4
<1>5. CASE phase' \notin {"settling", "callbacks", "rest"} /\ tickObservation' = tickObservation
  BY <1>1, <1>5 DEF CompositesDoNotTick, FirstPass, PausedIsUndecided, DecidedByExpression
<1>6. CASE phase \in {"callbacks", "rest"} /\ phase' \in {"callbacks", "rest"}
             /\ UNCHANGED <<chart, engine, inputs>>
  <2>1. UNCHANGED <<chart, life, observation, lastObservation, lifeAtCycleStart,
                    tickObservation>>
    BY <1>6 DEF engine, inputs
  <2> QED BY <1>1, <1>6, <2>1, SameExpression
          DEF CompositesDoNotTick, FirstPass, PausedIsUndecided, DecidedByExpression
<1>7. CASE UNCHANGED vars
  <2>1. UNCHANGED <<chart, life, observation, lastObservation, lifeAtCycleStart,
                    tickObservation, phase, passesTaken, ownTransitionTaken>>
    BY <1>7 DEF vars, engine, inputs
  <2> QED BY <1>1, <2>1, SameExpression
          DEF CompositesDoNotTick, FirstPass, PausedIsUndecided, DecidedByExpression
<1> QED BY <1>2, <1>3, <1>4, <1>5, <1>6, <1>7
        DEF Next, OnTickRaises, RaiseDoesNotSettle, RunCallback, CallbackRaises, EndTick,
            Stopped, inputs

LEMMA InitObserves == Init => CompositesObserve
  BY DEF Init, CompositesObserve, CompositesDoNotTick, FirstPass, PausedIsUndecided,
         DecidedByExpression, CompositeNodes, NodesOf, ActiveStates

\* What the proofs about composites use of the tick.
Ticking == Sound /\ ResetsArePinned /\ EndedStayEnded /\ RunsUnmoved /\ UnresetNodes
           /\ AtRestInAFixpoint

LEMMA TickingAlways == ComposedSpec => []Ticking
<1>1. Init => Ticking
  <2>1. Init => Sound
    BY InitIsTyped, InitIsConsistent DEF Sound
  <2>2. Init => UnresetNodes
    BY DEF Init, UnresetNodes, StartsOfItself, ResetWithItsParent, UnstartedObservesNothing
  <2> QED BY <2>1, <2>2
          DEF Ticking, Init, ResetsArePinned, EndedStayEnded, RunsUnmoved, AtRestInAFixpoint
<1>2. Ticking /\ [ComposedNext]_vars => Ticking'
  BY ComposedNextIsNext, NextKeepsTypes, NextKeepsHierarchy, NextKeepsResetsPinned,
     NextKeepsEndedEnded, NextKeepsRunsUnmoved, NextKeepsUnresetNodes, NextKeepsFixpoint
     DEF Ticking, Sound
<1> QED BY <1>1, <1>2, PTL DEF ComposedSpec

LEMMA ObservingAlways == ComposedSpec /\ []WiredAsTheyAre => []CompositesObserve
<1>1. Ticking /\ WiredAsTheyAre /\ CompositesObserve /\ [ComposedNext]_vars
        => CompositesObserve'
  BY ComposedNextIsNext, NextKeepsCompositesObserving DEF Ticking
<1> QED BY <1>1, InitObserves, TickingAlways, PTL DEF ComposedSpec

\* The success a composite is given, by its owner or of itself, asks for what it
\* observes; where an owner gives it, no child it needs is lost.
LEMMA SuccessIsDecided ==
  ASSUME Sound, WiredAsTheyAre, NEW n \in CompositeNodes, NEW observed, NEW last,
         Holds(EffectiveCondition(n, "SUCCEED"), life, observed, last)
  PROVE  /\ observed[n] = "TRUE" /\ Ends(n, "TRUE")
         /\ chart.plan.kind[n] \notin EndingItsChildren => ~ CannotArrive(n)
<1>0. /\ n \in Node /\ ChartOK
      /\ chart.ends[n] = IF chart.plan.kind[n] \in EndingItsChildren
                         THEN {"SucceedsOnObservingTrue", "FailsOnObservingFalse"} ELSE {}
      /\ chart.condition[n]["SUCCEED"] = WiredSuccess(chart.plan, n)
  BY ConditionsOfComposite DEF Sound
<1>1. CASE EndedByItsOwner(chart.plan, n)
  <2> DEFINE goal == {{{Is(n, "OBSERVES_TRUE")}},
                      Not(EffectiveFailCondition(chart.plan, n))}
  <2>1. chart.plan.kind[n] \notin EndingItsChildren /\ chart.ends[n] = {}
    BY <1>0, <1>1 DEF EndedByItsOwner, EndsOfItself
  <2>2. EffectiveCondition(n, "SUCCEED") = AllOf(goal)
    BY <1>0, <1>1, <2>1 DEF EffectiveCondition, WiredSuccess, SucceedAtItsGoal
  <2>3. Holds(AllOf(goal), life, observed, last)
          <=> \A c \in goal : Holds(c, life, observed, last)
    <3> HIDE DEF goal
    <3> QED BY AllOfHolds
  <2>4. Holds({{Is(n, "OBSERVES_TRUE")}}, life, observed, last)
    BY <2>2, <2>3
  <2>5. ~ Holds(EffectiveFailCondition(chart.plan, n), life, observed, last)
    BY <1>0, <1>1, SuccessExcludesFailure
  <2>6. ~ Holds(InherentFailCondition(chart.plan, n), life, observed, last)
    BY <2>5 DEF Holds, EffectiveFailCondition
  <2>7. ~ CannotArrive(n)
    BY <1>0, <2>1, <2>6, InherentFailure
  <2> QED BY <1>1, <2>4, <2>7, ObservesHolds DEF Ends
<1>2. CASE ~ EndedByItsOwner(chart.plan, n)
  <2>1. EffectiveCondition(n, "SUCCEED")
          = IF "SucceedsOnObservingTrue" \in chart.ends[n]
            THEN {{Is(n, "OBSERVES_TRUE")}} ELSE {}
    BY <1>0, <1>2 DEF EffectiveCondition, WiredSuccess, ConstFalse
  <2>2. "SucceedsOnObservingTrue" \in chart.ends[n]
    BY <2>1 DEF Holds
  <2>3. Holds({{Is(n, "OBSERVES_TRUE")}}, life, observed, last)
    BY <2>1, <2>2
  <2> QED BY <1>0, <2>2, <2>3, ObservesHolds DEF Ends
<1> QED BY <1>1, <1>2

\* A pass ends a composite the way its children did.
LEMMA PassFollowsChildren ==
  ASSUME Sound, UnresetNodes, CompositesObserve, WiredAsTheyAre, EndedByTemplatesAlone,
         phase = "settling", NEW n \in CompositeNodes, LatestPass.life[n] # life[n]
  PROVE  /\ LatestPass.life[n] = "SUCCEEDED" => Arrived(n)
         /\ LatestPass.life[n] = "FAILED" => CannotArrive(n)
<1>0. /\ n \in Node
      /\ chart.ends[n] = IF chart.plan.kind[n] \in EndingItsChildren
                         THEN {"SucceedsOnObservingTrue", "FailsOnObservingFalse"} ELSE {}
      /\ chart.condition[n]["FAIL"] = EffectiveFailCondition(chart.plan, n)
  BY ConditionsOfComposite DEF Sound
<1>1. Edge(life[n], LatestPass.life[n])
  BY <1>0, PassKeepsPromises DEF Sound
<1>2. ASSUME LatestPass.life[n] = "SUCCEEDED" PROVE Arrived(n)
  <2>1. life[n] \in ActiveStates /\ life[n] # "SUCCEEDED"
    BY <1>1, <1>2 DEF Edge, ActiveStates
  <2>2. Holds(EffectiveCondition(n, "SUCCEED"), life,
              LatestPass.observation, LatestPass.lastObservation)
    BY <1>0, <1>2, <2>1, SucceedsByItsCondition
  <2>3. /\ LatestPass.observation[n] = "TRUE" /\ Ends(n, "TRUE")
        /\ chart.plan.kind[n] \notin EndingItsChildren => ~ CannotArrive(n)
    BY <2>2, SuccessIsDecided
  <2>4. ObservationExpression(n) = "TRUE"
    BY <2>1, <2>3, CompositeObserves
  <2> QED BY <2>1, <2>3, <2>4, ExpressionSaysWhy
<1>3. ASSUME LatestPass.life[n] = "FAILED" PROVE CannotArrive(n)
  <2> DEFINE observed == LatestPass.observation
             last == LatestPass.lastObservation
  <2>1. life[n] \in ActiveStates /\ life[n] # "FAILED"
    BY <1>1, <1>3 DEF Edge, ActiveStates
  <2>2. Holds(EffectiveCondition(n, "FAIL"), life, observed, last)
    BY <1>0, <1>3, <2>1, FailsByItsCondition
  <2>3. EffectiveFailCondition(chart.plan, n) = InherentFailCondition(chart.plan, n)
    BY DEF EffectiveFailCondition, EndedByTemplatesAlone, ConstFalse
  <2> HIDE DEF observed, last
  <2>4. CASE chart.plan.kind[n] \notin EndingItsChildren
    <3>1. EffectiveCondition(n, "FAIL") = InherentFailCondition(chart.plan, n)
      BY <1>0, <2>3, <2>4 DEF EffectiveCondition
    <3> QED BY <2>2, <2>4, <3>1, InherentFailure DEF Sound
  <2>5. CASE chart.plan.kind[n] \in EndingItsChildren
    <3>1. \/ Holds(InherentFailCondition(chart.plan, n), life, observed, last)
          \/ Holds({{Is(n, "OBSERVES_FALSE")}}, life, observed, last)
      BY <1>0, <2>2, <2>3, <2>5 DEF EffectiveCondition, Holds
    <3>2. observed[n] = "FALSE"
      BY <2>5, <3>1, InherentFailure, ObservesHolds DEF Sound
    <3>3. Ends(n, observed[n])
      BY <1>0, <2>5, <3>2 DEF Ends
    <3>4. ObservationExpression(n) = "FALSE"
      BY <2>1, <3>2, <3>3, CompositeObserves DEF observed
    <3> QED BY <2>1, <2>5, <3>4, ExpressionSaysWhy
  <2> QED BY <2>4, <2>5
<1> QED BY <1>2, <1>3

\* In every plan wired as its children are, whose composites fail by nothing but
\* their templates: a composite succeeds only in a pass that finds it arrived, fails
\* only in one that finds it can no longer arrive, and a child its owner ends fails
\* where it fails and observes True at once.
THEOREM OutcomesComeFromChildren ==
  ComposedSpec /\ []WiredAsTheyAre /\ []EndedByTemplatesAlone => OutcomesFollowChildren
<1>1. Ticking /\ CompositesObserve /\ WiredAsTheyAre /\ EndedByTemplatesAlone
        /\ [ComposedNext]_vars =>
        [\A n \in CompositeNodes :
           life'[n] # life[n] =>
             /\ life'[n] = "SUCCEEDED" => Arrived(n)
             /\ life'[n] = "FAILED" => CannotArrive(n)]_vars
  <2> SUFFICES ASSUME Ticking, CompositesObserve, WiredAsTheyAre, EndedByTemplatesAlone,
                      [Next]_vars, NEW n \in CompositeNodes, life'[n] # life[n]
               PROVE  /\ life'[n] = "SUCCEEDED" => Arrived(n)
                      /\ life'[n] = "FAILED" => CannotArrive(n)
    BY ComposedNextIsNext
  <2>1. phase = "settling" /\ life' = LatestPass.life
    BY OnlyPassesMoveNodes DEF TakeOverLatestPass
  <2> QED BY <2>1, PassFollowsChildren DEF Ticking
<1>2. ComposedSpec /\ []WiredAsTheyAre /\ []EndedByTemplatesAlone => EndsAsItsChildrenDid
  BY <1>1, TickingAlways, ObservingAlways, PTL DEF ComposedSpec, EndsAsItsChildrenDid
<1> QED BY <1>2, FailingChildrenFail, PTL DEF OutcomesFollowChildren
-----------------------------------------------------------------------------
\* No owner is held open.

LEMMA NobodyHeldOpen ==
  ASSUME Ticking, CompositesObserve, WiredAsTheyAre
  PROVE  NoOwnerIsHeldOpen
<1> SUFFICES ASSUME phase = "rest", NEW n \in CompositeNodes,
                    life[n] = "RUNNING", lifeAtCycleStart[n] = "RUNNING"
             PROVE  /\ ~ CannotArrive(n)
                    /\ Arrived(n) =>
                         ~ \/ EndedByItsOwner(chart.plan, n)
                           \/ "SucceedsOnObservingTrue" \in chart.ends[n]
  BY DEF NoOwnerIsHeldOpen
<1>0. /\ n \in Node
      /\ chart.ends[n] = IF chart.plan.kind[n] \in EndingItsChildren
                         THEN {"SucceedsOnObservingTrue", "FailsOnObservingFalse"} ELSE {}
      /\ chart.condition[n]["FAIL"] = EffectiveFailCondition(chart.plan, n)
      /\ Sound /\ UnresetNodes
  BY ConditionsOfComposite DEF Ticking, Sound
<1>1. LatestPass.life = life /\ LatestPass.observation = observation
  BY <1>0 DEF Ticking, AtRestInAFixpoint, CurrentState
<1>2. n \notin ownTransitionTaken /\ life[n] \in ActiveStates
  BY <1>0 DEF Ticking, RunsUnmoved, ActiveStates
<1>3. LatestPass.observation[n] = ObservationExpression(n)
  BY <1>0, <1>2, PassReadsItsObservations
     DEF Sound, NextObservation, Observed, CompositesObserve, CompositesDoNotTick, ActiveStates
<1>4. ~ Ends(n, ObservationExpression(n))
  BY <1>0, <1>1, <1>2, <1>3, DecidedEnds
<1>5. ~ CannotArrive(n)
  <2> SUFFICES ASSUME CannotArrive(n) PROVE FALSE
    OBVIOUS
  <2>1. CASE chart.plan.kind[n] \in EndingItsChildren
    BY <1>0, <1>2, <1>4, <2>1, ExpressionSaysWhy DEF Ends
  <2>2. CASE chart.plan.kind[n] \notin EndingItsChildren
    <3>1. Holds(InherentFailCondition(chart.plan, n), life,
                LatestPass.observation, LatestPass.lastObservation)
      BY <2>2, InherentFailure, <1>0 DEF Sound
    <3>2. Holds(EffectiveCondition(n, "FAIL"), life,
                LatestPass.observation, LatestPass.lastObservation)
      BY <1>0, <3>1 DEF Holds, EffectiveCondition, EffectiveFailCondition
    <3> QED BY <1>0, <1>1, <1>2, <3>2, EndingEnds
  <2> QED BY <2>1, <2>2
<1> QED BY <1>0, <1>2, <1>4, <1>5, ExpressionSaysWhy DEF Ends
-----------------------------------------------------------------------------
\* A pausing monitor holds what it watches.

\* Nothing but its owner's start lets a watched node and its monitor start.
LEMMA WatchedConditions ==
  ASSUME ChartOK, NEW n \in NodesOf(Pausing)
  PROVE  LET monitor == Monitor(chart.plan, n)
             watched == WatchedBy(n)
         IN  /\ n \in Node
             /\ monitor \in Node /\ chart.parent[monitor] = n /\ Unreset(monitor)
             /\ watched \in Node /\ chart.parent[watched] = n /\ Unreset(watched)
             /\ chart.condition[monitor]["START"] = ConstTrue
             /\ chart.condition[watched]["START"] = ConstTrue
             /\ chart.condition[watched]["PAUSE"] =
                  IF chart.plan.kind[n] = "PausedWhileTrue"
                  THEN {{Is(monitor, "OBSERVES_TRUE")}}
                  ELSE {{IsNot(monitor, "OBSERVES_TRUE")}}
<1> DEFINE monitor == Monitor(chart.plan, n)
           watched == WatchedBy(n)
<1>1. n \in Node /\ chart.plan.kind[n] \in Pausing
  BY DEF NodesOf
<1>2. /\ 2 \in DOMAIN StepsOf(n) /\ watched = StepsOf(n)[2]
      /\ \A c \in {monitor, watched} :
           /\ c \in Node /\ chart.parent[c] = n /\ Unreset(c)
           /\ OwnerKind(chart.plan, c) = chart.plan.kind[n]
           /\ Owner(chart.plan, c) = n
           /\ chart.plan.kind[c] # "Absent"
  BY <1>1, WatchedChildren DEF Monitored
<1>3. ASSUME NEW c \in {monitor, watched}
      PROVE  chart.condition[c]["START"] = ConstTrue
  <2>1. c \in Node /\ Owner(chart.plan, c) = n /\ OwnerKind(chart.plan, c) \in Pausing
        /\ chart.plan.kind[c] # "Absent"
    BY <1>1, <1>2
  <2>2. /\ ~ IsChild(chart.plan, c, 3, {"RepeatUntil", "CancelledWhenTrue"})
        /\ ~ IsTask(chart.plan, c)
        /\ OwnerKind(chart.plan, c) \notin RunningItsChildrenInTurn
        /\ Owner(chart.plan, c) # NoParent
    BY <1>1, <2>1, NodeAssumption DEF IsChild, IsTask, Pausing, RunningItsChildrenInTurn
  <2>3. StartCondition(chart.plan, c) = ConstTrue
    BY <2>1, <2>2 DEF StartCondition
  <2> QED BY <2>1, <2>3, ChartIsCompiled DEF ConditionsWritten
<1>4. PauseCondition(chart.plan, watched)
        = IF chart.plan.kind[n] = "PausedWhileTrue" THEN {{Is(monitor, "OBSERVES_TRUE")}}
          ELSE {{IsNot(monitor, "OBSERVES_TRUE")}}
  <2>1. \A kind : IsWatched(chart.plan, watched, {kind}) <=> kind = chart.plan.kind[n]
    BY <1>1, <1>2 DEF IsWatched, IsChild, StepsOf
  <2> HIDE DEF watched
  <2> QED BY <1>1, <1>2, <2>1 DEF PauseCondition, Pausing
<1>5. chart.condition[watched]["PAUSE"] = PauseCondition(chart.plan, watched)
  BY <1>2, ChartIsCompiled DEF ConditionsWritten
<1> QED BY <1>1, <1>2, <1>3, <1>4, <1>5

\* A monitor and what it watches start in the same pass.
StartTogether ==
  \A n \in NodesOf(Pausing) :
    /\ life[Monitor(chart.plan, n)] = "NOT_STARTED" <=> life[WatchedBy(n)] = "NOT_STARTED"
    /\ lifeAtCycleStart[Monitor(chart.plan, n)] = "NOT_STARTED"
         <=> lifeAtCycleStart[WatchedBy(n)] = "NOT_STARTED"

\* Waiting for a monitor to turn True, a node starts paused, and a node moves by
\* itself once a tick.
StartsPaused ==
  \A n \in NodesOf({"PausedUntilTrue"}) :
    lifeAtCycleStart[WatchedBy(n)] = "NOT_STARTED" => life[WatchedBy(n)] # "RUNNING"

\* A node nobody resets, whose start is left to its owner, has started after a pass
\* exactly where it had before or its owner runs.
LEMMA StartsWithItsOwner ==
  ASSUME Sound, ResetsArePinned, UnresetNodes, phase = "settling",
         NEW n \in Node, NEW m \in Node, chart.parent[m] = n, Unreset(m),
         Holds(chart.condition[m]["START"], life,
               LatestPass.observation, LatestPass.lastObservation)
  PROVE  LatestPass.life[m] = "NOT_STARTED" <=>
           \/ LatestPass.life[n] = "NOT_STARTED"
           \/ life[m] = "NOT_STARTED" /\ LatestPass.life[n] # "RUNNING"
<1> DEFINE conditions == ConditionsOf(m, LatestPass.observation, LatestPass.lastObservation)
<1>1. ParentState(m, LatestPass.life) = LatestPass.life[n]
  BY NodeAssumption DEF ParentState
<1>2. LatestPass.life[m] =
        NextLifeCycle(life[m], LatestPass.life[n], conditions, m \notin ownTransitionTaken)
  BY <1>1, PassReadsItsObservations DEF Sound, NextOf
<1>3. conditions["START"] /\ ~ conditions["RESET"]
  BY DEF ConditionsOf, TransitionKinds, EffectiveCondition, Unreset, ConstFalse, Holds
<1>4. ASSUME life[m] = "NOT_STARTED", LatestPass.life[n] = "RUNNING",
             m \in ownTransitionTaken
      PROVE  FALSE
  <2>1. life[n] = "NOT_STARTED" /\ (n \in ownTransitionTaken \/ ResetInTick(n))
    BY <1>4 DEF UnresetNodes, ResetWithItsParent, ResetInTick
  <2> QED BY <1>4, <2>1, SpentNodesDoNotStart, ResetNodesStay
<1>5. life[m] \in LifeCycleValues
  BY DEF Sound, TypeOK
<1> HIDE DEF conditions
<1> QED BY <1>2, <1>3, <1>4, <1>5
        DEF NextLifeCycle, Starts, OwnTrigger, EndCase, Outcome, LifeCycleValues

LEMMA NextKeepsStartTogether ==
  Ticking /\ StartTogether /\ [Next]_vars => StartTogether'
<1> SUFFICES ASSUME Ticking, StartTogether, [Next]_vars PROVE StartTogether'
  OBVIOUS
<1>1. chart' = chart /\ NodesOf(Pausing)' = NodesOf(Pausing)
      /\ \A n : WatchedBy(n)' = WatchedBy(n)
  BY OnlyPassesMoveNodes DEF NodesOf, WatchedBy
<1>2. CASE lifeAtCycleStart' = life /\ life' = life
  BY <1>1, <1>2 DEF StartTogether
<1>3. CASE UNCHANGED <<life, lifeAtCycleStart>>
  BY <1>1, <1>3 DEF StartTogether
<1>4. CASE TakeOverLatestPass
  <2>1. phase = "settling" /\ life' = LatestPass.life /\ lifeAtCycleStart' = lifeAtCycleStart
    BY <1>4 DEF TakeOverLatestPass, inputs
  <2>2. ASSUME NEW n \in NodesOf(Pausing)
        PROVE  LatestPass.life[Monitor(chart.plan, n)] = "NOT_STARTED"
                 <=> LatestPass.life[WatchedBy(n)] = "NOT_STARTED"
    <3>1. \A observed, last : Holds(ConstTrue, life, observed, last)
      BY DEF Holds, ConstTrue
    <3>2. ASSUME NEW c \in {Monitor(chart.plan, n), WatchedBy(n)}
          PROVE  LatestPass.life[c] = "NOT_STARTED" <=>
                   \/ LatestPass.life[n] = "NOT_STARTED"
                   \/ life[c] = "NOT_STARTED" /\ LatestPass.life[n] # "RUNNING"
      <4>1. /\ n \in Node /\ c \in Node /\ chart.parent[c] = n /\ Unreset(c)
            /\ chart.condition[c]["START"] = ConstTrue
        BY WatchedConditions, ZenonT(60) DEF Ticking, Sound
      <4> QED BY <2>1, <3>1, <4>1, StartsWithItsOwner DEF Ticking
    <3> QED BY <3>2 DEF StartTogether
  <2> QED BY <1>1, <2>1, <2>2 DEF StartTogether
<1> QED BY <1>2, <1>3, <1>4
        DEF Next, vars, engine, inputs, CollectTickObservations, OnTickRaises, Settle,
            RaiseDoesNotSettle, RunCallback, CallbackRaises, EndTick, Stopped

\* A node whose condition to pause holds does not get to run by a pass.
LEMMA PausedDoesNotRun ==
  ASSUME Sound, NEW m \in Node, LatestPass.life[m] = "RUNNING",
         Holds(chart.condition[m]["PAUSE"], life,
               LatestPass.observation, LatestPass.lastObservation)
  PROVE  life[m] = "RUNNING" /\ m \in ownTransitionTaken
<1> DEFINE conditions == ConditionsOf(m, LatestPass.observation, LatestPass.lastObservation)
<1>1. LatestPass.life[m] =
        NextLifeCycle(life[m], ParentState(m, LatestPass.life), conditions,
                      m \notin ownTransitionTaken)
  BY PassReadsItsObservations DEF Sound, NextOf
<1>2. conditions["PAUSE"]
  BY DEF ConditionsOf, TransitionKinds, EffectiveCondition
<1>3. life[m] \in LifeCycleValues
  BY DEF Sound, TypeOK
<1> HIDE DEF conditions
<1> QED BY <1>1, <1>2, <1>3
        DEF NextLifeCycle, OwnTrigger, EndCase, Outcome, LifeCycleValues, TerminalStates

LEMMA NextKeepsStartsPaused ==
  Ticking /\ StartTogether /\ StartsPaused /\ [Next]_vars => StartsPaused'
<1> SUFFICES ASSUME Ticking, StartTogether, StartsPaused, [Next]_vars PROVE StartsPaused'
  OBVIOUS
<1>1. chart' = chart /\ NodesOf({"PausedUntilTrue"})' = NodesOf({"PausedUntilTrue"})
      /\ \A n : WatchedBy(n)' = WatchedBy(n)
  BY OnlyPassesMoveNodes DEF NodesOf, WatchedBy
<1>2. CASE lifeAtCycleStart' = life /\ life' = life
  BY <1>1, <1>2 DEF StartsPaused
<1>3. CASE UNCHANGED <<life, lifeAtCycleStart>>
  BY <1>1, <1>3 DEF StartsPaused
<1>4. CASE TakeOverLatestPass
  <2>1. phase = "settling" /\ life' = LatestPass.life /\ lifeAtCycleStart' = lifeAtCycleStart
    BY <1>4 DEF TakeOverLatestPass, inputs
  <2>2. ASSUME NEW n \in NodesOf({"PausedUntilTrue"}),
               lifeAtCycleStart[WatchedBy(n)] = "NOT_STARTED",
               LatestPass.life[WatchedBy(n)] = "RUNNING"
        PROVE  FALSE
    <3> DEFINE monitor == Monitor(chart.plan, n)
               watched == WatchedBy(n)
    <3>1. n \in NodesOf(Pausing) /\ chart.plan.kind[n] = "PausedUntilTrue"
      BY DEF NodesOf, Pausing
    <3>2. /\ monitor \in Node /\ watched \in Node
          /\ chart.condition[watched]["PAUSE"] = {{IsNot(monitor, "OBSERVES_TRUE")}}
      BY <3>1, WatchedConditions DEF Ticking, Sound
    <3>3. lifeAtCycleStart[monitor] = "NOT_STARTED"
      BY <2>2, <3>1 DEF StartTogether
    <3>4. LatestPass.observation[monitor] = "UNKNOWN"
      BY <3>2, <3>3, PassReadsItsObservations
         DEF Ticking, Sound, NextObservation, ActiveStates
    <3>5. Holds(chart.condition[watched]["PAUSE"], life,
                LatestPass.observation, LatestPass.lastObservation)
      BY <3>2, <3>4 DEF Holds, IsNot, Is, Predicate, LifeCyclePredicate, ObservationPredicate
    <3>6. life[watched] = "RUNNING"
      BY <2>2, <3>2, <3>5, PausedDoesNotRun DEF Ticking
    <3> QED BY <2>2, <3>6 DEF StartsPaused
  <2> QED BY <1>1, <2>1, <2>2 DEF StartsPaused
<1> QED BY <1>2, <1>3, <1>4
        DEF Next, vars, engine, inputs, CollectTickObservations, OnTickRaises, Settle,
            RaiseDoesNotSettle, RunCallback, CallbackRaises, EndTick, Stopped

LEMMA HoldingMonitorsHold ==
  ASSUME Ticking, StartTogether, StartsPaused
  PROVE  HeldByItsMonitor
<1> SUFFICES ASSUME phase = "rest", NEW n \in NodesOf(Pausing),
                    life[WatchedBy(n)] = "RUNNING",
                    lifeAtCycleStart[WatchedBy(n)] # "PAUSED",
                    IF chart.plan.kind[n] = "PausedWhileTrue"
                    THEN observation[Monitor(chart.plan, n)] = "TRUE"
                    ELSE observation[Monitor(chart.plan, n)] # "TRUE"
             PROVE  FALSE
  BY DEF HeldByItsMonitor
<1> DEFINE monitor == Monitor(chart.plan, n)
           watched == WatchedBy(n)
<1>1. /\ Sound /\ monitor \in Node /\ watched \in Node
      /\ chart.condition[watched]["PAUSE"] =
           IF chart.plan.kind[n] = "PausedWhileTrue"
           THEN {{Is(monitor, "OBSERVES_TRUE")}} ELSE {{IsNot(monitor, "OBSERVES_TRUE")}}
  BY WatchedConditions DEF Ticking, Sound
<1>2. LatestPass.life = life /\ LatestPass.observation = observation
  BY <1>1 DEF Ticking, AtRestInAFixpoint, CurrentState
<1>3. Holds(chart.condition[watched]["PAUSE"], life,
            LatestPass.observation, LatestPass.lastObservation)
  <2>1. IF chart.plan.kind[n] = "PausedWhileTrue"
        THEN LatestPass.observation[monitor] = "TRUE"
        ELSE LatestPass.observation[monitor] # "TRUE"
    BY <1>2
  <2>2. PICK condition : condition = chart.condition[watched]["PAUSE"]
    OBVIOUS
  <2> HIDE DEF monitor, watched
  <2>3. CASE chart.plan.kind[n] = "PausedWhileTrue"
    <3>1. Holds({{Is(monitor, "OBSERVES_TRUE")}}, life,
                LatestPass.observation, LatestPass.lastObservation)
      BY <2>1, <2>3, ObservesHolds
    <3>2. condition = {{Is(monitor, "OBSERVES_TRUE")}}
      BY <1>1, <2>2, <2>3
    <3> QED BY <2>2, <3>1, <3>2
  <2>4. CASE chart.plan.kind[n] # "PausedWhileTrue"
    <3>1. Holds({{IsNot(monitor, "OBSERVES_TRUE")}}, life,
                LatestPass.observation, LatestPass.lastObservation)
      BY <2>1, <2>4, ObservesHolds
    <3>2. condition = {{IsNot(monitor, "OBSERVES_TRUE")}}
      BY <1>1, <2>2, <2>4
    <3> QED BY <2>2, <3>1, <3>2
  <2> QED BY <2>3, <2>4
<1>4. watched \in ownTransitionTaken
  BY <1>1, <1>2, <1>3, PausedDoesNotRun
<1>5. lifeAtCycleStart[watched] = "NOT_STARTED"
  <2>1. lifeAtCycleStart[watched] # "RUNNING"
    BY <1>1, <1>4 DEF Ticking, RunsUnmoved
  <2>2. lifeAtCycleStart[watched] \notin TerminalStates
    BY <1>1 DEF Ticking, EndedStayEnded, TerminalStates
  <2>3. lifeAtCycleStart[watched] \in LifeCycleValues
    BY <1>1 DEF Sound, TypeOK
  <2> QED BY <2>1, <2>2, <2>3 DEF LifeCycleValues, TerminalStates
<1>6. chart.plan.kind[n] = "PausedWhileTrue"
  BY <1>5 DEF StartsPaused, NodesOf, Pausing
<1>7. lifeAtCycleStart[monitor] = "NOT_STARTED"
  BY <1>5 DEF StartTogether
<1>8. LatestPass.observation[monitor] = "UNKNOWN"
  BY <1>1, <1>7, PassReadsItsObservations DEF Sound, NextObservation, ActiveStates
<1> QED BY <1>2, <1>6, <1>8

\* At the end of every tick of every plan wired as its children are, no composite
\* runs on over what its children decided, and none over a monitor that holds it.
THEOREM CompositesSettle == ComposedSpec /\ []WiredAsTheyAre => []SettledAsWired
<1>1. Init => StartTogether /\ StartsPaused
  <2> SUFFICES ASSUME Init PROVE StartTogether /\ StartsPaused
    OBVIOUS
  <2>1. \A n \in NodesOf(Pausing) : Monitor(chart.plan, n) \in Node /\ WatchedBy(n) \in Node
    BY InitIsTyped, WatchedConditions
  <2> QED BY <2>1 DEF Init, StartTogether, StartsPaused, NodesOf, Pausing
<1>2. Ticking /\ StartTogether /\ StartsPaused /\ [ComposedNext]_vars
        => (StartTogether /\ StartsPaused)'
  BY ComposedNextIsNext, NextKeepsStartTogether, NextKeepsStartsPaused
<1>3. Ticking /\ CompositesObserve /\ WiredAsTheyAre /\ StartTogether /\ StartsPaused
        => SettledAsWired
  BY NobodyHeldOpen, HoldingMonitorsHold DEF SettledAsWired
<1> QED BY <1>1, <1>2, <1>3, TickingAlways, ObservingAlways, PTL DEF ComposedSpec
-----------------------------------------------------------------------------
\* A monitor that gives up on a node cancels the statechart.

\* The third child of a composite that repeats or cancels starts once its monitor
\* observed True, however long ago.
LEMMA ExceptionConditions ==
  ASSUME ChartOK, NEW n \in Node, chart.plan.kind[n] \in {"RepeatUntil", "CancelledWhenTrue"},
         Len(StepsOf(n)) = 3
  PROVE  LET exception == StepsOf(n)[3]
         IN  /\ exception \in Node /\ chart.parent[exception] = n /\ Unreset(exception)
             /\ chart.condition[exception]["START"] = Fired(chart.plan, n)
<1> DEFINE exception == StepsOf(n)[3]
<1>1. /\ StepsOf(n) \in Seq(Node)
      /\ \A i \in DOMAIN StepsOf(n) : chart.plan.kind[StepsOf(n)[i]] # "Absent"
  BY ChartIsCompiled DEF IsPlan, StepsOf, Steps
<1>2. 3 \in DOMAIN StepsOf(n) /\ chart.plan.kind[exception] # "Absent"
  BY <1>1
<1>3. /\ exception \in Node /\ Owner(chart.plan, exception) = n
      /\ chart.parent[exception] = n
      /\ \A i \in DOMAIN StepsOf(n) : StepsOf(n)[i] = exception => i = 3
  BY <1>2, ChildIsOwned
<1>4. IsChild(chart.plan, exception, 3, {"RepeatUntil", "CancelledWhenTrue"})
  BY <1>2, <1>3, NodeAssumption DEF IsChild, OwnerKind, StepsOf
<1>5. ~ IsTask(chart.plan, exception)
  BY <1>3 DEF IsTask, IsChild, StepsOf
<1> HIDE DEF exception
<1>6. StartCondition(chart.plan, exception) = Fired(chart.plan, n)
  <2>1. Owner(chart.plan, exception) # NoParent
    BY <1>3, NodeAssumption
  <2>2. StartCondition(chart.plan, exception)
          = CancelCondition(chart.plan, Owner(chart.plan, exception))
    <3>1. OwnerKind(chart.plan, exception) \notin RunningItsChildrenInTurn
      BY <1>4 DEF IsChild, RunningItsChildrenInTurn
    <3> QED BY <1>2, <1>4, <1>5, <2>1, <3>1 DEF StartCondition
  <2> QED BY <1>3, <2>2 DEF CancelCondition
<1>7. chart.condition[exception] = ConditionsWritten(chart.plan, exception)
  BY <1>3, ChartIsCompiled
<1> QED BY <1>3, <1>5, <1>6, <1>7
        DEF exception, ConditionsWritten, ResetCondition, Unreset

\* In every plan, the pass in which a monitor fires starts the exception, unless the
\* composite is stopped in that very pass.
THEOREM FiredMonitorsCancel == ComposedSpec => FiredMonitorCancels
<1>1. Ticking /\ [ComposedNext]_vars =>
        [\A n \in CompositeNodes :
           (/\ chart.plan.kind[n] \in {"RepeatUntil", "CancelledWhenTrue"}
            /\ Len(StepsOf(n)) = 3
            /\ ~ HasFired(n) /\ HasFired(n)' /\ life'[n] = "RUNNING")
             => life'[StepsOf(n)[3]] # "NOT_STARTED"]_vars
  <2> SUFFICES ASSUME Ticking, [Next]_vars, NEW n \in CompositeNodes,
                      chart.plan.kind[n] \in {"RepeatUntil", "CancelledWhenTrue"},
                      Len(StepsOf(n)) = 3,
                      ~ HasFired(n), HasFired(n)', life'[n] = "RUNNING"
               PROVE  life'[StepsOf(n)[3]] # "NOT_STARTED"
    BY ComposedNextIsNext
  <2>1. TakeOverLatestPass
    <3>1. chart' = chart
      BY OnlyPassesMoveNodes
    <3>2. lastObservation' # lastObservation
      BY <3>1 DEF HasFired
    <3> QED BY <3>2 DEF Next, vars, engine, CollectTickObservations, OnTickRaises, Settle,
               RaiseDoesNotSettle, RunCallback, CallbackRaises, EndTick, Stopped
  <2>2. /\ phase = "settling" /\ chart' = chart /\ life' = LatestPass.life
        /\ lastObservation' = LatestPass.lastObservation
    BY <2>1 DEF TakeOverLatestPass
  <2>3. Holds(Fired(chart.plan, n), life, LatestPass.observation, LatestPass.lastObservation)
    BY <2>2, FiredHolds DEF HasFired
  <2>4. n \in Node
    BY DEF CompositeNodes, NodesOf
  <2> QED BY <2>2, <2>3, <2>4, ExceptionConditions, StartsWithItsOwner DEF Ticking, Sound
<1> QED BY <1>1, TickingAlways, PTL DEF ComposedSpec, FiredMonitorCancels

-----------------------------------------------------------------------------
\* What the templates promise, from what there is when a run begins.

\* No caller wrote on a composite of any plan how else it fails.
NoFailureWrittenOnComposites ==
  \A c \in Charts : \A n \in Node :
    c.plan.kind[n] \in Composite => c.plan.fail[n] = ConstFalse

\* Where nothing was inserted and no failure written on a composite, outcomes travel
\* upwards undistorted and every tick leaves each composite as its template says.
THEOREM TemplatesKeepTheirPromises ==
  ASSUME NothingInserted, NoFailureWrittenOnComposites
  PROVE  ComposedSpec => OutcomesFollowChildren /\ []SettledAsWired
<1>1. Init => EndedByTemplatesAlone
  BY DEF Init, NoFailureWrittenOnComposites, EndedByTemplatesAlone, CompositeNodes, NodesOf
<1>2. EndedByTemplatesAlone /\ [ComposedNext]_vars => EndedByTemplatesAlone'
  <2> SUFFICES ASSUME EndedByTemplatesAlone, [ComposedNext]_vars
               PROVE  EndedByTemplatesAlone'
    OBVIOUS
  <2>1. chart' = chart
    BY ComposedNextIsNext, OnlyPassesMoveNodes
  <2> QED BY <2>1 DEF EndedByTemplatesAlone, CompositeNodes, NodesOf
<1>3. ComposedSpec => []EndedByTemplatesAlone
  BY <1>1, <1>2, PTL DEF ComposedSpec
<1> QED BY <1>3, JoinedPlansAreWired, OutcomesComeFromChildren, CompositesSettle, PTL
=============================================================================
