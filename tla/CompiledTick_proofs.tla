----------------------- MODULE CompiledTick_proofs -------------------------
(***************************************************************************)
(* Machine-checked proofs about one tick of a statechart, for every chart, *)
(* every number of nodes and every pass budget.                            *)
(***************************************************************************)
EXTENDS CompiledTick, WellFoundedInduction, TLAPS

-----------------------------------------------------------------------------
\* The life cycle of one node.

\* Wherever a node is and whatever holds, one pass takes it along an edge of
\* the life cycle to a state that fits the one its parent reaches.
LEMMA NextLifeCycleFitsParent ==
  ASSUME NEW state \in LifeCycleValues, NEW parent \in LifeCycleValues,
         NEW condition \in [TransitionKinds -> BOOLEAN], NEW allowed \in BOOLEAN
  PROVE  LET next == NextLifeCycle(state, parent, condition, allowed)
         IN  /\ next \in LifeCycleValues
             /\ Edge(state, next)
             /\ FitsParent(next, parent)
  BY DEF NextLifeCycle, EndCase, Starts, OwnTrigger, Outcome, Edge, FitsParent,
         LifeCycleValues, TerminalStates, ActiveStates, TransitionKinds

\* What a parent forces on a node is what the node does while no transition of
\* its own may happen (StatechartNode.create_life_cycle_forced_by_parent).
LEMMA ForcedIsNextWithoutOwn ==
  ASSUME NEW state \in LifeCycleValues, NEW parent \in LifeCycleValues,
         NEW condition \in [TransitionKinds -> BOOLEAN]
  PROVE  NextLifeCycle(state, parent, condition, FALSE)
           = ForcedByParent(state, parent)
  BY DEF NextLifeCycle, EndCase, Starts, OwnTrigger, Outcome, ForcedByParent,
         LifeCycleValues, TerminalStates, ActiveStates, TransitionKinds

\* A parent forces nothing on a node whose state fits its own.
LEMMA FittingIsNotForced ==
  ASSUME NEW state \in LifeCycleValues, NEW parent \in LifeCycleValues,
         FitsParent(state, parent)
  PROVE  ForcedByParent(state, parent) = state
  BY DEF ForcedByParent, FitsParent, LifeCycleValues, TerminalStates, ActiveStates
-----------------------------------------------------------------------------
\* Well-founded recursion, used because nodes are visited parents first.

\* Every non-empty set of natural numbers has a least element.
LEMMA LeastNatural ==
  ASSUME NEW T \in SUBSET Nat, T # {}
  PROVE  \E i \in T : \A j \in T : i <= j
<1>1. IsWellFoundedOn(OpToRel(<, Nat), Nat)
  BY NatLessThanWellFounded
<1>2. PICK i \in T : \A j \in T : <<j, i>> \notin OpToRel(<, Nat)
  BY <1>1, WFMin
<1>3. ASSUME NEW j \in T PROVE i <= j
  <2>1. ~ (j < i)
    BY <1>2 DEF OpToRel
  <2> QED BY <2>1
<1> QED BY <1>3

\* The states reached by the nodes nested less than `k' deep, computed parents
\* first: `step' says where a node goes, given where its parent goes.
ReachedAbove(parent, depth, step, r, k) ==
  /\ r \in [{n \in Node : depth[n] < k} -> LifeCycleValues]
  /\ \A n \in {m \in Node : depth[m] < k} :
       r[n] = step[n][IF parent[n] = NoParent THEN NoParentState ELSE r[parent[n]]]

\* Visiting the nodes parents first gives every node a next state: by induction
\* over the nesting, as the least depth at which it failed would have a
\* predecessor at which it worked.
LEMMA ParentsFirst ==
  ASSUME NEW parent \in [Node -> Node \union {NoParent}],
         NEW depth \in [Node -> Nat],
         \A n \in Node :
           depth[n] = IF parent[n] = NoParent THEN 0 ELSE depth[parent[n]] + 1,
         NEW step \in [Node -> [LifeCycleValues -> LifeCycleValues]],
         NEW deepest \in Node, \A n \in Node : depth[n] <= depth[deepest]
  PROVE  \E r \in [Node -> LifeCycleValues] :
           \A n \in Node :
             r[n] = step[n][IF parent[n] = NoParent THEN NoParentState
                            ELSE r[parent[n]]]
<1> DEFINE Works(k) == \E r : ReachedAbove(parent, depth, step, r, k)
           Fails == {k \in Nat : ~ Works(k)}
<1>0. NoParentState \in LifeCycleValues
  BY DEF NoParentState, LifeCycleValues
<1>1. Works(0)
  <2>1. {n \in Node : depth[n] < 0} = {}
    OBVIOUS
  <2>2. ReachedAbove(parent, depth, step, [n \in {} |-> NoParentState], 0)
    BY <2>1 DEF ReachedAbove
  <2> QED BY <2>2
<1>2. ASSUME NEW k \in Nat, Works(k) PROVE Works(k + 1)
  <2>1. PICK r : ReachedAbove(parent, depth, step, r, k)
    BY <1>2
  <2> DEFINE above == {n \in Node : depth[n] < k}
             next == [n \in {m \in Node : depth[m] < k + 1} |->
                        step[n][IF parent[n] = NoParent THEN NoParentState
                                ELSE r[parent[n]]]]
  <2>2. ASSUME NEW n \in Node, depth[n] < k + 1, parent[n] # NoParent
        PROVE  parent[n] \in above /\ r[parent[n]] \in LifeCycleValues
    <3>1. parent[n] \in Node /\ depth[n] = depth[parent[n]] + 1
      BY <2>2
    <3>2. depth[parent[n]] < k
      BY <3>1, <2>2
    <3> QED BY <3>1, <3>2, <2>1 DEF ReachedAbove
  <2>3. next \in [{n \in Node : depth[n] < k + 1} -> LifeCycleValues]
    BY <2>2, <1>0
  <2>4. ASSUME NEW n \in above PROVE next[n] = r[n]
    <3>1. n \in Node /\ depth[n] < k + 1
      OBVIOUS
    <3>2. r[n] = step[n][IF parent[n] = NoParent THEN NoParentState
                         ELSE r[parent[n]]]
      BY <2>1, <2>4 DEF ReachedAbove
    <3> QED BY <3>1, <3>2
  <2>5. ASSUME NEW n \in Node, depth[n] < k + 1
        PROVE  next[n] = step[n][IF parent[n] = NoParent THEN NoParentState
                                 ELSE next[parent[n]]]
    <3>1. CASE parent[n] = NoParent
      BY <3>1, <2>5
    <3>2. CASE parent[n] # NoParent
      <4>1. next[parent[n]] = r[parent[n]]
        BY <3>2, <2>2, <2>4, <2>5
      <4> QED BY <3>2, <4>1, <2>5
    <3> QED BY <3>1, <3>2
  <2>6. ReachedAbove(parent, depth, step, next, k + 1)
    BY <2>3, <2>5 DEF ReachedAbove
  <2> QED BY <2>6
<1> HIDE DEF Works
<1>3. Fails = {}
  <2> SUFFICES ASSUME Fails # {} PROVE FALSE
    OBVIOUS
  <2>1. PICK k \in Fails : \A j \in Fails : k <= j
    BY LeastNatural
  <2>2. k # 0
    BY <1>1
  <2>3. k - 1 \in Nat /\ k - 1 \notin Fails
    BY <2>1, <2>2
  <2>4. Works(k - 1)
    BY <2>3
  <2>5. Works((k - 1) + 1)
    BY <2>3, <2>4, <1>2
  <2> QED BY <2>5, <2>1
<1>4. Works(depth[deepest] + 1)
  <2>1. depth[deepest] + 1 \in Nat
    OBVIOUS
  <2> QED BY <1>3, <2>1
<1>5. PICK r : ReachedAbove(parent, depth, step, r, depth[deepest] + 1)
  BY <1>4 DEF Works
<1>6. {n \in Node : depth[n] < depth[deepest] + 1} = Node
  OBVIOUS
<1> QED BY <1>5, <1>6 DEF ReachedAbove
-----------------------------------------------------------------------------
\* One pass.

\* The chart a behaviour runs is a chart, and the engine's arrays hold what
\* they are declared to hold.
ChartOK == chart \in Charts /\ IsChart(chart)

LEMMA ConditionsAreTruthValues ==
  ASSUME NEW n, NEW observed, NEW lastObserved
  PROVE  ConditionsOf(n, observed, lastObserved) \in [TransitionKinds -> BOOLEAN]
  BY DEF ConditionsOf, Holds

\* The recursion of NextLife is well founded: every node gets a next state,
\* computed from the state its parent reaches in the same pass.
LEMMA NextLifeIsDefined ==
  ASSUME ChartOK, TypeOK, NEW observed, NEW lastObserved
  PROVE  LET lives == NextLife(observed, lastObserved)
         IN  /\ lives \in [Node -> LifeCycleValues]
             /\ \A n \in Node :
                  lives[n] = NextLifeCycle(life[n], ParentState(n, lives),
                               ConditionsOf(n, observed, lastObserved),
                               n \notin ownTransitionTaken)
<1> DEFINE step == [n \in Node |-> [p \in LifeCycleValues |->
                      NextLifeCycle(life[n], p, ConditionsOf(n, observed, lastObserved),
                                    n \notin ownTransitionTaken)]]
           body(r) == [n \in Node |->
                         NextLifeCycle(life[n],
                           IF chart.parent[n] = NoParent THEN NoParentState
                           ELSE r[chart.parent[n]],
                           ConditionsOf(n, observed, lastObserved),
                           n \notin ownTransitionTaken)]
           lives == NextLife(observed, lastObserved)
<1>1. step \in [Node -> [LifeCycleValues -> LifeCycleValues]]
  BY NextLifeCycleFitsParent, ConditionsAreTruthValues DEF TypeOK
<1>2. /\ chart.parent \in [Node -> Node \union {NoParent}]
      /\ chart.depth \in [Node -> Nat]
      /\ \A n \in Node :
           chart.depth[n] = IF chart.parent[n] = NoParent THEN 0
                            ELSE chart.depth[chart.parent[n]] + 1
      /\ \E n \in Node : \A k \in Node : chart.depth[k] <= chart.depth[n]
  BY DEF ChartOK, IsChart
<1>3. PICK r \in [Node -> LifeCycleValues] :
        \A n \in Node :
          r[n] = step[n][IF chart.parent[n] = NoParent THEN NoParentState
                         ELSE r[chart.parent[n]]]
  <2> HIDE DEF step
  <2>1. PICK deepest \in Node : \A k \in Node : chart.depth[k] <= chart.depth[deepest]
    BY <1>2
  <2> QED BY <1>1, <1>2, <2>1, ParentsFirst
<1>4. NoParentState \in LifeCycleValues
  BY DEF NoParentState, LifeCycleValues
<1>5. r = body(r)
  <2> SUFFICES ASSUME NEW n \in Node PROVE r[n] = body(r)[n]
    OBVIOUS
  <2> DEFINE above == IF chart.parent[n] = NoParent THEN NoParentState
                      ELSE r[chart.parent[n]]
  <2>1. above \in LifeCycleValues
    <3>1. CASE chart.parent[n] = NoParent
      BY <3>1, <1>4
    <3>2. CASE chart.parent[n] # NoParent
      <4>1. chart.parent[n] \in Node
        BY <3>2, <1>2
      <4> QED BY <3>2, <4>1
    <3> QED BY <3>1, <3>2
  <2>2. r[n] = step[n][above]
    BY <1>3
  <2>3. step[n][above] = NextLifeCycle(life[n], above,
                           ConditionsOf(n, observed, lastObserved),
                           n \notin ownTransitionTaken)
    <3> HIDE DEF above
    <3> QED BY <2>1
  <2> QED BY <2>2, <2>3
<1>6. lives = CHOOSE f : f = body(f)
  BY DEF NextLife
<1>7. lives = body(lives)
  <2> HIDE DEF body, lives
  <2> QED BY <1>5, <1>6, Zenon
<1>8. \A n \in Node :
        lives[n] = NextLifeCycle(life[n], ParentState(n, lives),
                     ConditionsOf(n, observed, lastObserved),
                     n \notin ownTransitionTaken)
  <2> HIDE DEF lives
  <2> QED BY <1>7 DEF ParentState
<1>9. lives \in [Node -> LifeCycleValues]
  <2> HIDE DEF lives
  <2>1. ASSUME NEW n \in Node, NEW parent
        PROVE  NextLifeCycle(life[n], parent,
                 ConditionsOf(n, observed, lastObserved),
                 n \notin ownTransitionTaken) \in LifeCycleValues
    <3>1. life[n] \in LifeCycleValues
      BY DEF TypeOK
    <3> QED BY <3>1 DEF NextLifeCycle, EndCase, Outcome, LifeCycleValues
  <2> QED BY <1>7, <2>1
<1> QED BY <1>8, <1>9
-----------------------------------------------------------------------------
\* Every array of a pass holds what it is declared to hold.

LEMMA ExpressionIsObservation ==
  ASSUME ChartOK, TypeOK, NEW n \in Node
  PROVE  ObservationExpression(n) \in ObservationStateValues
<1> DEFINE cases == chart.observation[n]
           matching == {i \in DOMAIN cases :
                          Holds(cases[i].when, life, observation, lastObservation)}
           first == CHOOSE i \in matching : \A j \in matching : i <= j
           read == cases[first].reads
<1>1. cases \in Seq(ObservationCase)
  BY DEF ChartOK, IsChart
<1>2. ASSUME matching # {} PROVE read \in Reading
  <2>1. matching \in SUBSET Nat
    BY <1>1
  <2>2. \E i \in matching : \A j \in matching : i <= j
    <3> HIDE DEF matching
    <3> QED BY <2>1, <1>2, LeastNatural
  <2>3. first \in DOMAIN cases
    BY <2>2
  <2>4. cases[first] \in ObservationCase
    <3> HIDE DEF first, cases
    <3> QED BY <2>3, <1>1
  <2> QED BY <2>4 DEF ObservationCase
<1>3. ASSUME read \in Reading
      PROVE  (IF read.of = "value" THEN read.value
              ELSE IF read.of = "observation" THEN observation[read.node]
              ELSE lastObservation[read.node]) \in ObservationStateValues
  BY <1>3 DEF Reading, TypeOK
<1>4. "UNKNOWN" \in ObservationStateValues
  BY DEF ObservationStateValues
<1>5. ObservationExpression(n) =
        IF matching = {} THEN "UNKNOWN"
        ELSE IF read.of = "value" THEN read.value
        ELSE IF read.of = "observation" THEN observation[read.node]
        ELSE lastObservation[read.node]
  BY DEF ObservationExpression
<1> HIDE DEF matching, read
<1> QED BY <1>2, <1>3, <1>4, <1>5

LEMMA PassObservationsAreTyped ==
  ASSUME ChartOK, TypeOK
  PROVE  /\ NextObservation \in [Node -> ObservationStateValues]
         /\ NextLastObservation(NextObservation) \in [Node -> ObservationStateValues]
<1>1. ASSUME NEW n \in Node PROVE Observed(n) \in ObservationStateValues
  BY ExpressionIsObservation DEF Observed, TypeOK
<1>2. NextObservation \in [Node -> ObservationStateValues]
  BY <1>1 DEF NextObservation, TypeOK, ObservationStateValues
<1>3. ASSUME NEW observed \in [Node -> ObservationStateValues]
      PROVE  NextLastObservation(observed) \in [Node -> ObservationStateValues]
  BY DEF NextLastObservation, TypeOK
<1> QED BY <1>2, <1>3

\* The next state of a node, as the pass computes it.
NextOf(n, state, parentState, observed, lastObserved) ==
  NextLifeCycle(state, parentState, ConditionsOf(n, observed, lastObserved),
                n \notin ownTransitionTaken)

\* A pass is well-typed, takes every node along an edge of its life cycle, and
\* leaves a consistent hierarchy, whatever the chart and its observations are.
LEMMA PassKeepsPromises ==
  ASSUME ChartOK, TypeOK
  PROVE  /\ LatestPass.life \in [Node -> LifeCycleValues]
         /\ LatestPass.observation \in [Node -> ObservationStateValues]
         /\ LatestPass.lastObservation \in [Node -> ObservationStateValues]
         /\ LatestPass.ownTransitionTaken =
              ownTransitionTaken \union
                {n \in Node : LatestPass.life[n] #
                   ForcedByParent(life[n], ParentState(n, LatestPass.life))}
         /\ \E observed, lastObserved :
              \A n \in Node :
                LatestPass.life[n] =
                  NextOf(n, life[n], ParentState(n, LatestPass.life),
                         observed, lastObserved)
         /\ \A n \in Node :
              /\ ParentState(n, LatestPass.life) \in LifeCycleValues
              /\ Edge(life[n], LatestPass.life[n])
              /\ FitsParent(LatestPass.life[n], ParentState(n, LatestPass.life))
<1> DEFINE observed == NextObservation
           lastObserved == NextLastObservation(observed)
           lives == NextLife(observed, lastObserved)
<1>1. /\ LatestPass.life = lives
      /\ LatestPass.observation = observed
      /\ LatestPass.lastObservation = lastObserved
      /\ LatestPass.ownTransitionTaken = NextOwnTransitionTaken(lives)
  BY DEF LatestPass
<1>2. /\ observed \in [Node -> ObservationStateValues]
      /\ lastObserved \in [Node -> ObservationStateValues]
  BY PassObservationsAreTyped
<1>3. /\ lives \in [Node -> LifeCycleValues]
      /\ \A n \in Node :
           lives[n] = NextOf(n, life[n], ParentState(n, lives),
                             observed, lastObserved)
  BY NextLifeIsDefined DEF NextOf
<1> HIDE DEF observed, lastObserved, lives
<1>4. ASSUME NEW n \in Node
      PROVE  ParentState(n, lives) \in LifeCycleValues
  BY <1>3 DEF ChartOK, IsChart, ParentState, NoParentState, LifeCycleValues
<1>5. ASSUME NEW n \in Node
      PROVE  /\ Edge(life[n], lives[n])
             /\ FitsParent(lives[n], ParentState(n, lives))
  <2>1. life[n] \in LifeCycleValues
    BY DEF TypeOK
  <2>2. ConditionsOf(n, observed, lastObserved) \in [TransitionKinds -> BOOLEAN]
    BY ConditionsAreTruthValues
  <2>3. lives[n] = NextLifeCycle(life[n], ParentState(n, lives),
                     ConditionsOf(n, observed, lastObserved),
                     n \notin ownTransitionTaken)
    BY <1>3 DEF NextOf
  <2>4. (n \notin ownTransitionTaken) \in BOOLEAN
    OBVIOUS
  <2> QED BY <2>1, <2>2, <2>3, <2>4, <1>4, NextLifeCycleFitsParent
<1> QED BY <1>1, <1>2, <1>3, <1>4, <1>5 DEF NextOwnTransitionTaken
-----------------------------------------------------------------------------
\* Type correctness.

LEMMA InitIsTyped == Init => ChartOK /\ TypeOK
<1> SUFFICES ASSUME Init PROVE ChartOK /\ TypeOK
  OBVIOUS
<1>1. ChartOK
  BY ChartsAssumption DEF Init, ChartOK
<1>2. TypeOK
  BY DEF Init, TypeOK, LifeCycleValues, ObservationStateValues, NoObservation
<1> QED BY <1>1, <1>2

LEMMA NextKeepsTypes == ChartOK /\ TypeOK /\ [Next]_vars => ChartOK' /\ TypeOK'
<1> SUFFICES ASSUME ChartOK, TypeOK, [Next]_vars PROVE ChartOK' /\ TypeOK'
  OBVIOUS
<1>1. ChartOK'
  BY DEF ChartOK, Next, vars, CollectTickObservations, OnTickRaises, Settle,
         TakeOverLatestPass, RaiseDoesNotSettle, RunCallback, CallbackRaises,
         EndTick, Stopped, IsChart
<1>2. TypeOK'
  <2>1. CASE CollectTickObservations
    BY <2>1 DEF CollectTickObservations, TypeOK
  <2>2. ASSUME NEW n \in Node, OnTickRaises(n) PROVE TypeOK'
    BY <2>2 DEF OnTickRaises, TypeOK
  <2>3. CASE Settle
    BY <2>3 DEF Settle, TypeOK, engine, inputs
  <2>4. CASE TakeOverLatestPass
    <3>1. LifeCycleChangesOf(LatestPass) \in SUBSET LifeCycleChange
      BY PassKeepsPromises DEF LifeCycleChangesOf, LifeCycleChange, TypeOK
    <3>2. LatestPass.ownTransitionTaken \in SUBSET Node
      BY PassKeepsPromises DEF TypeOK
    <3>3. changes' \in Seq(SUBSET LifeCycleChange)
      BY <2>4, <3>1 DEF TakeOverLatestPass, TypeOK
    <3>4. passesTaken' \in Nat
      BY <2>4 DEF TakeOverLatestPass, TypeOK
    <3> QED BY <2>4, <3>2, <3>3, <3>4, PassKeepsPromises
            DEF TakeOverLatestPass, TypeOK, inputs
  <2>5. CASE RaiseDoesNotSettle
    BY <2>5 DEF RaiseDoesNotSettle, TypeOK, engine, inputs
  <2>6. CASE RunCallback
    <3>1. changes' \in Seq(SUBSET LifeCycleChange)
      <4> DEFINE first == Head(changes)
                 rest == Tail(changes)
                 left == first \ {NextChange}
      <4>1. changes \in Seq(SUBSET LifeCycleChange) /\ changes # <<>>
        BY <2>6 DEF RunCallback, TypeOK
      <4>2. first \in SUBSET LifeCycleChange /\ rest \in Seq(SUBSET LifeCycleChange)
        BY <4>1
      <4>3. changes' = IF first = {NextChange} THEN rest ELSE <<left>> \o rest
        BY <2>6 DEF RunCallback
      <4>4. left \in SUBSET LifeCycleChange
        BY <4>2
      <4>5. <<left>> \in Seq(SUBSET LifeCycleChange)
        <5> HIDE DEF left
        <5> QED BY <4>4
      <4>6. <<left>> \o rest \in Seq(SUBSET LifeCycleChange)
        <5> HIDE DEF rest, left
        <5> QED BY <4>2, <4>5
      <4> HIDE DEF first, rest, left
      <4> QED BY <4>2, <4>3, <4>6
    <3>2. heard' \in [Node -> LifeCycleValues \union {"ENDED"}]
      <4> DEFINE told == Callbacks(NextChange)
      <4>1. told # <<>> => Told[told[Len(told)]] \in LifeCycleValues \union {"ENDED"}
        BY DEF Callbacks, Told, LifeCycleValues
      <4>2. heard' = IF told = <<>> THEN heard
                     ELSE [heard EXCEPT ![NextChange.node] = Told[told[Len(told)]]]
        BY <2>6 DEF RunCallback
      <4>3. heard \in [Node -> LifeCycleValues \union {"ENDED"}]
        BY DEF TypeOK
      <4> HIDE DEF told
      <4> QED BY <4>1, <4>2, <4>3
    <3> QED BY <2>6, <3>1, <3>2 DEF RunCallback, TypeOK, engine, inputs
  <2>7. CASE CallbackRaises
    BY <2>7 DEF CallbackRaises, TypeOK, engine, inputs
  <2>8. CASE EndTick
    BY <2>8 DEF EndTick, TypeOK, engine, inputs
  <2>9. CASE Stopped
    BY <2>9 DEF Stopped, TypeOK, vars, engine, inputs
  <2>10. CASE UNCHANGED vars
    BY <2>10 DEF vars, TypeOK, engine, inputs
  <2> QED BY <2>1, <2>2, <2>3, <2>4, <2>5, <2>6, <2>7, <2>8, <2>9, <2>10 DEF Next
<1> QED BY <1>1, <1>2

\* The engine's arrays keep their types in every behaviour of every chart.
THEOREM TypeCorrect == Spec => []TypeOK
<1>1. Init => ChartOK /\ TypeOK
  BY InitIsTyped
<1>2. ChartOK /\ TypeOK /\ [Next]_vars => ChartOK' /\ TypeOK'
  BY NextKeepsTypes
<1> QED BY <1>1, <1>2, PTL DEF Spec
-----------------------------------------------------------------------------
\* The hierarchy of life cycles.

\* Only a pass moves a node, and nothing ever rewires the chart of a run.
LEMMA OnlyPassesMoveNodes ==
  [Next]_vars => chart' = chart /\ (TakeOverLatestPass \/ life' = life)
  BY DEF Next, vars, engine, CollectTickObservations, OnTickRaises, Settle,
         TakeOverLatestPass, RaiseDoesNotSettle, RunCallback, CallbackRaises,
         EndTick, Stopped

LEMMA InitIsConsistent == Init => HierarchyConsistent
  BY ChartsAssumption
     DEF Init, IsChart, HierarchyConsistent, FitsParent, ParentState, NoParentState

LEMMA NextKeepsHierarchy ==
  ChartOK /\ TypeOK /\ HierarchyConsistent /\ [Next]_vars => HierarchyConsistent'
<1> SUFFICES ASSUME ChartOK, TypeOK, HierarchyConsistent, [Next]_vars
             PROVE  HierarchyConsistent'
  OBVIOUS
<1>1. CASE TakeOverLatestPass
  <2>1. life' = LatestPass.life /\ chart' = chart
    BY <1>1 DEF TakeOverLatestPass
  <2>2. ASSUME NEW n \in Node
        PROVE  FitsParent(LatestPass.life[n], ParentState(n, LatestPass.life))
    BY PassKeepsPromises
  <2> QED BY <2>1, <2>2 DEF HierarchyConsistent, ParentState
<1>2. CASE life' = life
  BY <1>2, OnlyPassesMoveNodes DEF HierarchyConsistent, ParentState
<1> QED BY <1>1, <1>2, OnlyPassesMoveNodes

\* What every reachable state of a tick satisfies.
Sound == ChartOK /\ TypeOK /\ HierarchyConsistent

LEMMA SoundAlways == Spec => []Sound
<1>1. Init => Sound
  BY InitIsTyped, InitIsConsistent DEF Sound
<1>2. Sound /\ [Next]_vars => Sound'
  BY NextKeepsTypes, NextKeepsHierarchy DEF Sound
<1> QED BY <1>1, <1>2, PTL DEF Spec

\* In every pass of every tick of every chart, no child outlives its parent.
THEOREM Hierarchy == Spec => []HierarchyConsistent
<1>1. Sound => HierarchyConsistent
  BY DEF Sound
<1> QED BY <1>1, SoundAlways, PTL

\* A pass that left the published states alone also left alone which nodes have
\* moved by themselves, because a parent forces nothing on a node that already
\* fits it.
LEMMA QuietPassIsNoPass ==
  ASSUME Sound, ~ ChangedAnything(LatestPass)
  PROVE  LatestPass = CurrentState
<1>1. /\ LatestPass.life = life
      /\ LatestPass.observation = observation
      /\ LatestPass.lastObservation = lastObservation
  BY DEF ChangedAnything
<1>2. ASSUME NEW n \in Node
      PROVE  ForcedByParent(life[n], ParentState(n, life)) = life[n]
  <2>1. life[n] \in LifeCycleValues /\ FitsParent(life[n], ParentState(n, life))
    BY DEF Sound, TypeOK, HierarchyConsistent
  <2>2. ParentState(n, life) \in LifeCycleValues
    BY PassKeepsPromises, <1>1 DEF Sound
  <2> QED BY <2>1, <2>2, FittingIsNotForced
<1>3. LatestPass.ownTransitionTaken = ownTransitionTaken
  BY <1>1, <1>2, PassKeepsPromises DEF Sound
<1>4. LatestPass = [life |-> LatestPass.life,
                    observation |-> LatestPass.observation,
                    lastObservation |-> LatestPass.lastObservation,
                    ownTransitionTaken |-> LatestPass.ownTransitionTaken]
  BY DEF LatestPass
<1> QED BY <1>1, <1>3, <1>4 DEF CurrentState

\* settle may stop at a pass that changes no published state: it has reached a
\* fixpoint.
THEOREM QuietPass == Spec => []QuietPassIsFixpoint
<1>1. Sound => QuietPassIsFixpoint
  BY QuietPassIsNoPass DEF QuietPassIsFixpoint
<1> QED BY <1>1, SoundAlways, PTL

\* A tick that comes to its callbacks left the chart where another pass would
\* change nothing; before the first tick nothing has started.
AtRestInAFixpoint ==
  phase \in {"callbacks", "rest"} =>
    LatestPass = CurrentState \/ life = [n \in Node |-> "NOT_STARTED"]

\* What a pass makes of the chart is read from the engine and its inputs alone.
LEMMA SamePass ==
  ASSUME UNCHANGED <<chart, engine, inputs>>
  PROVE  LatestPass' = LatestPass /\ CurrentState' = CurrentState
<1>1. LatestPass' = LatestPass
  BY DEF engine, inputs, LatestPass, NextObservation, Observed, ObservationExpression,
         NextLastObservation, NextLife, ConditionsOf, EffectiveCondition,
         NextOwnTransitionTaken, ParentState
<1> QED BY <1>1 DEF CurrentState, engine

LEMMA NextKeepsFixpoint ==
  Sound /\ AtRestInAFixpoint /\ [Next]_vars => AtRestInAFixpoint'
<1> SUFFICES ASSUME Sound, AtRestInAFixpoint, [Next]_vars PROVE AtRestInAFixpoint'
  OBVIOUS
<1>1. CASE phase' \notin {"callbacks", "rest"}
  BY <1>1 DEF AtRestInAFixpoint
<1>2. CASE Settle
  <2>1. LatestPass' = LatestPass /\ CurrentState' = CurrentState
    BY <1>2, SamePass DEF Settle
  <2> QED BY <1>2, <2>1, QuietPassIsNoPass DEF AtRestInAFixpoint, Settle
<1>3. CASE phase \in {"callbacks", "rest"} /\ UNCHANGED <<chart, engine, inputs>>
  <2>1. LatestPass' = LatestPass /\ CurrentState' = CurrentState
    BY <1>3, SamePass
  <2> QED BY <1>3, <2>1 DEF AtRestInAFixpoint, engine
<1> QED BY <1>1, <1>2, <1>3
        DEF Next, vars, engine, inputs, CollectTickObservations, OnTickRaises,
            TakeOverLatestPass, RaiseDoesNotSettle, RunCallback, CallbackRaises,
            EndTick, Stopped

\* Between ticks the chart rests: another pass would change nothing.
THEOREM TicksEndInFixpoints == Spec => []AtRestInAFixpoint
<1>1. Init => AtRestInAFixpoint
  BY DEF Init, AtRestInAFixpoint
<1> QED BY <1>1, NextKeepsFixpoint, SoundAlways, PTL DEF Spec
-----------------------------------------------------------------------------
\* A node that was reset in a tick does not start again in it.

ResetInTick(n) == lifeAtCycleStart[n] # "NOT_STARTED" /\ life[n] = "NOT_STARTED"

\* Why a node cannot start again: the reset was its own transition, or it came
\* from a parent that was reset in this tick too.
ResetsArePinned ==
  phase = "settling" =>
    /\ \A n \in Node :
         FitsParent(lifeAtCycleStart[n], ParentState(n, lifeAtCycleStart))
    /\ \A n \in Node :
         ResetInTick(n) =>
           \/ n \in ownTransitionTaken
           \/ chart.parent[n] # NoParent /\ ResetInTick(chart.parent[n])

\* Among any nodes some are nested least deep.
LEMMA Shallowest ==
  ASSUME ChartOK, NEW nodes \in SUBSET Node, nodes # {}
  PROVE  \E m \in nodes : \A k \in nodes : chart.depth[m] <= chart.depth[k]
<1> DEFINE Depths == {chart.depth[m] : m \in nodes}
<1>1. Depths \in SUBSET Nat /\ Depths # {}
  BY DEF ChartOK, IsChart
<1>2. PICK d \in Depths : \A e \in Depths : d <= e
  <2> HIDE DEF Depths
  <2> QED BY <1>1, LeastNatural
<1> QED BY <1>2

\* A pass leaves every node that was reset in the tick where it is: a node of
\* least depth that started would have to move by itself a second time.
LEMMA ResetNodesStay ==
  ASSUME Sound, ResetsArePinned, phase = "settling", NEW n \in Node, ResetInTick(n)
  PROVE  LatestPass.life[n] = "NOT_STARTED"
<1> DEFINE Restarts == {m \in Node : ResetInTick(m) /\ LatestPass.life[m] # "NOT_STARTED"}
<1> SUFFICES ASSUME Restarts # {} PROVE FALSE
  OBVIOUS
<1>1. /\ chart.parent \in [Node -> Node \union {NoParent}]
      /\ chart.depth \in [Node -> Nat]
      /\ \A m \in Node :
           chart.depth[m] = IF chart.parent[m] = NoParent THEN 0
                            ELSE chart.depth[chart.parent[m]] + 1
  BY DEF Sound, ChartOK, IsChart
<1>2. PICK m \in Restarts : \A k \in Restarts : chart.depth[m] <= chart.depth[k]
  BY Shallowest DEF Sound
<1>3. m \in Node /\ ResetInTick(m) /\ LatestPass.life[m] # "NOT_STARTED"
  OBVIOUS
<1>4. CASE m \in ownTransitionTaken
  <2>1. PICK observed, lastObserved :
          LatestPass.life[m] =
            NextOf(m, life[m], ParentState(m, LatestPass.life), observed, lastObserved)
    BY <1>3, PassKeepsPromises DEF Sound
  <2> QED BY <1>3, <1>4, <2>1
          DEF NextOf, ResetInTick, NextLifeCycle, Starts, OwnTrigger
<1>5. CASE chart.parent[m] # NoParent /\ ResetInTick(chart.parent[m])
  <2>1. chart.parent[m] \in Node /\ chart.depth[m] = chart.depth[chart.parent[m]] + 1
    BY <1>1, <1>3, <1>5
  <2>2. chart.parent[m] \notin Restarts
    BY <1>1, <1>2, <1>3, <2>1
  <2>3. ParentState(m, LatestPass.life) = "NOT_STARTED"
    BY <2>1, <2>2, <1>5 DEF ParentState
  <2> QED BY <1>3, <2>3, PassKeepsPromises DEF Sound, FitsParent
<1> QED BY <1>3, <1>4, <1>5 DEF ResetsArePinned

LEMMA NextKeepsResetsPinned ==
  Sound /\ ResetsArePinned /\ [Next]_vars => ResetsArePinned'
<1> SUFFICES ASSUME Sound, ResetsArePinned, [Next]_vars, phase' = "settling"
             PROVE  ResetsArePinned'
  BY DEF ResetsArePinned
<1>1. CASE CollectTickObservations
  <2>1. lifeAtCycleStart' = life /\ life' = life /\ chart' = chart
    BY <1>1 DEF CollectTickObservations
  <2>2. \A n \in Node : FitsParent(life[n], ParentState(n, life))
    BY DEF Sound, HierarchyConsistent
  <2> QED BY <2>1, <2>2 DEF ResetsArePinned, ResetInTick, ParentState
<1>2. CASE TakeOverLatestPass
  <2>1. /\ phase = "settling"
        /\ life' = LatestPass.life
        /\ ownTransitionTaken' = LatestPass.ownTransitionTaken
        /\ UNCHANGED <<chart, lifeAtCycleStart>>
    BY <1>2 DEF TakeOverLatestPass, inputs
  <2>2. \A n \in Node :
          FitsParent(lifeAtCycleStart[n], ParentState(n, lifeAtCycleStart))
    BY <2>1 DEF ResetsArePinned
  <2>3. ASSUME NEW n \in Node, ResetInTick(n)' PROVE
          \/ n \in ownTransitionTaken'
          \/ chart.parent[n] # NoParent /\ ResetInTick(chart.parent[n])'
    <3>0. /\ lifeAtCycleStart[n] # "NOT_STARTED"
          /\ LatestPass.life[n] = "NOT_STARTED"
      BY <2>1, <2>3 DEF ResetInTick
    <3>1. CASE life[n] = "NOT_STARTED"
      <4>1. ResetInTick(n)
        BY <3>0, <3>1 DEF ResetInTick
      <4>2. CASE n \in ownTransitionTaken
        BY <4>2, <2>1, PassKeepsPromises DEF Sound
      <4>3. CASE chart.parent[n] # NoParent /\ ResetInTick(chart.parent[n])
        <5>1. chart.parent[n] \in Node
          BY <4>3 DEF Sound, ChartOK, IsChart
        <5>2. LatestPass.life[chart.parent[n]] = "NOT_STARTED"
          BY <4>3, <5>1, <2>1, ResetNodesStay
        <5> QED BY <4>3, <5>1, <5>2, <2>1 DEF ResetInTick
      <4> QED BY <4>1, <4>2, <4>3, <2>1 DEF ResetsArePinned
    <3>2. CASE life[n] # "NOT_STARTED" /\ n \notin ownTransitionTaken'
      <4>1. ForcedByParent(life[n], ParentState(n, LatestPass.life)) = "NOT_STARTED"
        BY <3>0, <3>2, <2>1, PassKeepsPromises DEF Sound
      <4>2. ParentState(n, LatestPass.life) = "NOT_STARTED"
        BY <4>1, <3>2 DEF ForcedByParent
      <4>3. /\ chart.parent[n] # NoParent
            /\ LatestPass.life[chart.parent[n]] = "NOT_STARTED"
        BY <4>2 DEF ParentState, NoParentState
      <4>4. lifeAtCycleStart[chart.parent[n]] # "NOT_STARTED"
        BY <2>2, <3>0, <4>3 DEF FitsParent, ParentState
      <4> QED BY <4>3, <4>4, <2>1 DEF ResetInTick
    <3> QED BY <3>1, <3>2
  <2> QED BY <2>1, <2>2, <2>3 DEF ResetsArePinned, ParentState
<1>3. CASE UNCHANGED <<chart, life, lifeAtCycleStart, ownTransitionTaken, phase>>
  BY <1>3 DEF ResetsArePinned, ResetInTick, ParentState
<1> QED BY <1>1, <1>2, <1>3
        DEF Next, vars, engine, inputs, OnTickRaises, Settle, RaiseDoesNotSettle,
            RunCallback, CallbackRaises, EndTick, Stopped

\* No node ends, is reset and starts again within one tick, whichever of its
\* ancestors the reset came from.
THEOREM NoRestart == Spec => NoRestartWithinTick
<1>1. Init => ResetsArePinned
  BY DEF Init, ResetsArePinned
<1>2. Sound /\ ResetsArePinned /\ [Next]_vars => ResetsArePinned'
  BY NextKeepsResetsPinned
<1>3. Sound /\ ResetsArePinned /\ [Next]_vars =>
        [phase = "settling" =>
           \A n \in Node :
             (lifeAtCycleStart[n] # "NOT_STARTED" /\ life[n] = "NOT_STARTED")
               => life'[n] = "NOT_STARTED"]_vars
  <2> SUFFICES ASSUME Sound, ResetsArePinned, [Next]_vars, phase = "settling",
                      NEW n \in Node, ResetInTick(n)
               PROVE  life'[n] = "NOT_STARTED"
    BY DEF ResetInTick
  <2>1. CASE TakeOverLatestPass
    BY <2>1, ResetNodesStay DEF TakeOverLatestPass
  <2>2. CASE life' = life
    BY <2>2 DEF ResetInTick
  <2> QED BY <2>1, <2>2, OnlyPassesMoveNodes
<1> QED BY <1>1, <1>2, <1>3, SoundAlways, PTL DEF Spec, NoRestartWithinTick
-----------------------------------------------------------------------------
\* The tick implements the contract.

LEMMA PassesFollowTheContract ==
  ASSUME Sound, TakeOverLatestPass
  PROVE  Contract!Pass
<1> DEFINE movers == {n \in Node : LatestPass.life[n] #
                        ForcedByParent(life[n], ParentState(n, LatestPass.life))}
<1>1. /\ life' = LatestPass.life
      /\ ownTransitionTaken' = LatestPass.ownTransitionTaken
      /\ chart' = chart
  BY DEF TakeOverLatestPass
<1>2. ASSUME NEW n \in movers PROVE n \notin ownTransitionTaken
  <2> SUFFICES ASSUME n \in ownTransitionTaken
               PROVE  LatestPass.life[n] =
                        ForcedByParent(life[n], ParentState(n, LatestPass.life))
    OBVIOUS
  <2>1. PICK observed, lastObserved :
          LatestPass.life[n] =
            NextOf(n, life[n], ParentState(n, LatestPass.life), observed, lastObserved)
    BY PassKeepsPromises DEF Sound
  <2>2. /\ life[n] \in LifeCycleValues
        /\ ParentState(n, LatestPass.life) \in LifeCycleValues
    BY PassKeepsPromises DEF Sound, TypeOK
  <2>3. ConditionsOf(n, observed, lastObserved) \in [TransitionKinds -> BOOLEAN]
    BY ConditionsAreTruthValues
  <2>4. NextLifeCycle(life[n], ParentState(n, LatestPass.life),
                      ConditionsOf(n, observed, lastObserved), FALSE)
          = ForcedByParent(life[n], ParentState(n, LatestPass.life))
    BY <2>2, <2>3, ForcedIsNextWithoutOwn
  <2>5. (n \notin ownTransitionTaken) = FALSE
    OBVIOUS
  <2> QED BY <2>1, <2>4, <2>5 DEF NextOf
<1>3. movers \in SUBSET (Node \ ownTransitionTaken)
  <2>1. movers \in SUBSET Node
    OBVIOUS
  <2> HIDE DEF movers
  <2> QED BY <2>1, <1>2
<1>4. LatestPass.ownTransitionTaken = ownTransitionTaken \union movers
  BY PassKeepsPromises DEF Sound
<1>5. LatestPass.life \in [Node -> Contract!LifeCycleValues]
  BY PassKeepsPromises DEF Sound, LifeCycleValues, Contract!LifeCycleValues
<1>6. ASSUME NEW n \in Node
      PROVE  /\ Contract!ParentState(n, LatestPass.life) = ParentState(n, LatestPass.life)
             /\ Contract!ForcedByParent(life[n], ParentState(n, LatestPass.life))
                  = ForcedByParent(life[n], ParentState(n, LatestPass.life))
             /\ Contract!Edge(life[n], LatestPass.life[n])
             /\ Contract!FitsParent(LatestPass.life[n], ParentState(n, LatestPass.life))
  <2>1. /\ Edge(life[n], LatestPass.life[n])
        /\ FitsParent(LatestPass.life[n], ParentState(n, LatestPass.life))
    BY PassKeepsPromises DEF Sound
  <2> QED BY <2>1
          DEF ParentState, Contract!ParentState, NoParentState, Contract!NoParentState,
              ForcedByParent, Contract!ForcedByParent, Edge, Contract!Edge,
              FitsParent, Contract!FitsParent, ActiveStates, Contract!ActiveStates,
              TerminalStates, Contract!TerminalStates
<1>7. ASSUME NEW n \in Node, n \notin movers
      PROVE  LatestPass.life[n] =
               Contract!ForcedByParent(life[n], Contract!ParentState(n, LatestPass.life))
  BY <1>6, <1>7
<1>8. Contract!Consistent(LatestPass.life)
  BY <1>6 DEF Contract!Consistent
<1> HIDE DEF movers
<1> QED BY <1>1, <1>3, <1>4, <1>5, <1>6, <1>7, <1>8 DEF Contract!Pass

\* Whatever the chart, a tick moves life cycles only as the documentation's
\* table allows, each node at most once of its own accord.
THEOREM TickImplementsContract == Spec => ImplementsContract
<1>1. Init => Contract!Init
  BY ChartsAssumption DEF Init, IsChart, Contract!Init
<1>2. Sound /\ [Next]_vars => [Contract!Next]_(Contract!vars)
  <2> SUFFICES ASSUME Sound, [Next]_vars
               PROVE  Contract!Next \/ UNCHANGED Contract!vars
    OBVIOUS
  <2>1. CASE TakeOverLatestPass
    BY <2>1, PassesFollowTheContract DEF Contract!Next
  <2>2. CASE CollectTickObservations
    BY <2>2 DEF CollectTickObservations, Contract!Next, Contract!BeginTick
  <2>3. ASSUME NEW n \in Node, OnTickRaises(n) PROVE Contract!Next
    BY <2>3 DEF OnTickRaises, Contract!Next, Contract!BeginTick
  <2>4. CASE UNCHANGED <<chart, engine>>
    BY <2>4 DEF engine, Contract!vars
  <2> QED BY <2>1, <2>2, <2>3, <2>4
          DEF Next, vars, Settle, RaiseDoesNotSettle, RunCallback, CallbackRaises,
              EndTick, Stopped
<1> QED BY <1>1, <1>2, SoundAlways, PTL DEF Spec, ImplementsContract, Contract!Spec
-----------------------------------------------------------------------------
\* What a pass makes of observations.

\* The conditions of a pass are those of the observations it arrives at.
LEMMA PassReadsItsObservations ==
  ASSUME ChartOK, TypeOK
  PROVE  /\ LatestPass.observation = NextObservation
         /\ LatestPass.lastObservation = NextLastObservation(LatestPass.observation)
         /\ \A n \in Node :
              LatestPass.life[n] =
                NextOf(n, life[n], ParentState(n, LatestPass.life),
                       LatestPass.observation, LatestPass.lastObservation)
  BY NextLifeIsDefined DEF LatestPass, NextOf

\* A node that had ended before the tick does not run in it: it stays ended or
\* is reset, and a node that was reset does not start again.
EndedStayEnded ==
  \A n \in Node :
    lifeAtCycleStart[n] \in TerminalStates
      => life[n] \in TerminalStates \union {"NOT_STARTED"}

LEMMA NextKeepsEndedEnded ==
  Sound /\ ResetsArePinned /\ EndedStayEnded /\ [Next]_vars => EndedStayEnded'
<1> SUFFICES ASSUME Sound, ResetsArePinned, EndedStayEnded, [Next]_vars
             PROVE  EndedStayEnded'
  OBVIOUS
<1>1. CASE lifeAtCycleStart' = life /\ life' = life
  BY <1>1 DEF EndedStayEnded
<1>2. CASE TakeOverLatestPass
  <2> SUFFICES ASSUME NEW n \in Node, lifeAtCycleStart[n] \in TerminalStates
               PROVE  LatestPass.life[n] \in TerminalStates \union {"NOT_STARTED"}
    BY <1>2 DEF EndedStayEnded, TakeOverLatestPass, inputs
  <2>1. CASE life[n] \in TerminalStates
    <3>1. Edge(life[n], LatestPass.life[n])
      BY PassKeepsPromises DEF Sound
    <3> QED BY <2>1, <3>1 DEF Edge, TerminalStates, ActiveStates
  <2>2. CASE life[n] = "NOT_STARTED"
    <3>1. ResetInTick(n)
      BY <2>2 DEF ResetInTick, TerminalStates
    <3> QED BY <1>2, <3>1, ResetNodesStay DEF TakeOverLatestPass
  <2> QED BY <2>1, <2>2 DEF EndedStayEnded
<1>3. CASE UNCHANGED <<life, lifeAtCycleStart>>
  BY <1>3 DEF EndedStayEnded
<1> QED BY <1>1, <1>2, <1>3
        DEF Next, vars, engine, inputs, CollectTickObservations, OnTickRaises, Settle,
            RaiseDoesNotSettle, RunCallback, CallbackRaises, EndTick, Stopped

LEMMA EndedStayEndedAlways == Spec => [](Sound /\ ResetsArePinned /\ EndedStayEnded)
<1>1. Init => ResetsArePinned /\ EndedStayEnded
  BY DEF Init, ResetsArePinned, EndedStayEnded
<1> QED BY <1>1, NextKeepsResetsPinned, NextKeepsEndedEnded, SoundAlways, PTL DEF Spec

\* A node that runs after a pass, whatever it did before it, has the observation
\* of that pass as its last one.
LEMMA ActiveNodesRemember ==
  ASSUME Sound, EndedStayEnded, NEW n \in Node, life[n] \notin TerminalStates,
         lifeAtCycleStart[n] \notin TerminalStates
  PROVE  LatestPass.lastObservation[n] = LatestPass.observation[n]
  BY PassReadsItsObservations DEF Sound, NextLastObservation

\* No condition acts on an observation from before the node ran.
THEOREM FreshStart == Spec => []FreshlyStartedObservesUnknown
<1> DEFINE Strong == Sound /\ ResetsArePinned /\ EndedStayEnded
<1>1. Init => FreshlyStartedObservesUnknown
  BY DEF Init, FreshlyStartedObservesUnknown
<1>2. Strong /\ Strong' /\ FreshlyStartedObservesUnknown /\ [Next]_vars
        => FreshlyStartedObservesUnknown'
  <2> SUFFICES ASSUME Strong, Strong', FreshlyStartedObservesUnknown, [Next]_vars
               PROVE  FreshlyStartedObservesUnknown'
    OBVIOUS
  <2>1. CASE lifeAtCycleStart' = life /\ life' = life
    BY <2>1 DEF FreshlyStartedObservesUnknown
  <2>2. CASE TakeOverLatestPass
    <3>0. /\ life' = LatestPass.life /\ observation' = LatestPass.observation
          /\ lastObservation' = LatestPass.lastObservation
          /\ lifeAtCycleStart' = lifeAtCycleStart
      BY <2>2 DEF TakeOverLatestPass, inputs
    <3> SUFFICES ASSUME NEW n \in Node, life'[n] \in ActiveStates,
                        lifeAtCycleStart[n] \notin ActiveStates
                 PROVE  observation'[n] = "UNKNOWN" /\ lastObservation'[n] = "UNKNOWN"
      BY <3>0 DEF FreshlyStartedObservesUnknown
    <3>1. observation'[n] = "UNKNOWN"
      BY <3>0, PassReadsItsObservations DEF Sound, NextObservation
    <3>2. life[n] \notin TerminalStates
      <4>1. Edge(life[n], life'[n])
        BY <3>0, PassKeepsPromises DEF Sound
      <4> QED BY <4>1 DEF Edge, ActiveStates, TerminalStates
    <3>3. lifeAtCycleStart[n] \notin TerminalStates
      BY <3>0 DEF EndedStayEnded, ActiveStates, TerminalStates
    <3> QED BY <3>0, <3>1, <3>2, <3>3, ActiveNodesRemember
  <2>3. CASE UNCHANGED <<engine, lifeAtCycleStart>>
    BY <2>3 DEF FreshlyStartedObservesUnknown, engine
  <2> QED BY <2>1, <2>2, <2>3
          DEF Next, vars, inputs, CollectTickObservations, OnTickRaises, Settle,
              RaiseDoesNotSettle, RunCallback, CallbackRaises, EndTick, Stopped
<1> QED BY <1>1, <1>2, EndedStayEndedAlways, PTL DEF Spec

\* A node whose ending conditions nobody wrote ends in a pass only if that pass
\* observes what it ends on.
LEMMA EndsOnItsObservation ==
  ASSUME Sound, NEW n \in Node, life[n] \in ActiveStates
  PROVE  /\ (LatestPass.life[n] = "SUCCEEDED" /\ chart.condition[n]["SUCCEED"] = ConstFalse)
              => LatestPass.observation[n] = "TRUE"
         /\ (LatestPass.life[n] = "FAILED" /\ chart.condition[n]["FAIL"] = ConstFalse)
              => LatestPass.observation[n] = "FALSE"
<1> DEFINE holds == ConditionsOf(n, LatestPass.observation, LatestPass.lastObservation)
<1>1. LatestPass.life[n] =
        NextLifeCycle(life[n], ParentState(n, LatestPass.life), holds,
                      n \notin ownTransitionTaken)
  BY PassReadsItsObservations DEF Sound, NextOf
<1>2. /\ LatestPass.life[n] = "SUCCEEDED" => holds["SUCCEED"]
      /\ LatestPass.life[n] = "FAILED" => holds["FAIL"]
  <2> HIDE DEF holds
  <2> QED BY <1>1 DEF NextLifeCycle, EndCase, OwnTrigger, Outcome, ActiveStates, TerminalStates
<1>3. ASSUME chart.condition[n]["SUCCEED"] = ConstFalse, holds["SUCCEED"]
      PROVE  LatestPass.observation[n] = "TRUE"
  <2>1. Holds(EffectiveCondition(n, "SUCCEED"), life, LatestPass.observation,
              LatestPass.lastObservation)
    BY <1>3 DEF ConditionsOf, TransitionKinds
  <2>2. EffectiveCondition(n, "SUCCEED") \subseteq {{Is(n, "OBSERVES_TRUE")}}
    BY <1>3 DEF EffectiveCondition, ConstFalse
  <2>3. Predicate(Is(n, "OBSERVES_TRUE"), life, LatestPass.observation,
                  LatestPass.lastObservation)
    BY <2>1, <2>2 DEF Holds, Is
  <2> QED BY <2>3 DEF Predicate, Is, LifeCyclePredicate, ObservationPredicate
<1>4. ASSUME chart.condition[n]["FAIL"] = ConstFalse, holds["FAIL"]
      PROVE  LatestPass.observation[n] = "FALSE"
  <2>1. Holds(EffectiveCondition(n, "FAIL"), life, LatestPass.observation,
              LatestPass.lastObservation)
    BY <1>4 DEF ConditionsOf, TransitionKinds
  <2>2. EffectiveCondition(n, "FAIL") \subseteq {{Is(n, "OBSERVES_FALSE")}}
    BY <1>4 DEF EffectiveCondition, ConstFalse
  <2>3. Predicate(Is(n, "OBSERVES_FALSE"), life, LatestPass.observation,
                  LatestPass.lastObservation)
    BY <2>1, <2>2 DEF Holds, Is
  <2> QED BY <2>3 DEF Predicate, Is, LifeCyclePredicate, ObservationPredicate
<1> QED BY <1>2, <1>3, <1>4

\* A node that ends only of itself ended as its last observation says, until it is
\* reset, whatever its expression reads after the end.
THEOREM EndsAsObserved == Spec => []EndsAsLastObserved
<1> DEFINE Strong == Sound /\ ResetsArePinned /\ EndedStayEnded
<1>1. Init => EndsAsLastObserved
  BY DEF Init, EndsAsLastObserved
<1>2. Strong /\ EndsAsLastObserved /\ [Next]_vars => EndsAsLastObserved'
  <2> SUFFICES ASSUME Strong, EndsAsLastObserved, [Next]_vars PROVE EndsAsLastObserved'
    OBVIOUS
  <2>1. CASE TakeOverLatestPass
    <3>0. /\ life' = LatestPass.life /\ chart' = chart
          /\ lastObservation' = LatestPass.lastObservation
      BY <2>1 DEF TakeOverLatestPass
    <3> SUFFICES ASSUME NEW n \in Node PROVE
          /\ (LatestPass.life[n] = "SUCCEEDED" /\ chart.condition[n]["SUCCEED"] = ConstFalse)
               => LatestPass.lastObservation[n] = "TRUE"
          /\ (LatestPass.life[n] = "FAILED" /\ chart.condition[n]["FAIL"] = ConstFalse)
               => LatestPass.lastObservation[n] = "FALSE"
      BY <3>0 DEF EndsAsLastObserved
    <3>1. Edge(life[n], LatestPass.life[n])
      BY PassKeepsPromises DEF Sound
    <3>2. CASE LatestPass.life[n] \in TerminalStates /\ life[n] = LatestPass.life[n]
      <4>1. LatestPass.lastObservation[n] = lastObservation[n]
        BY <3>2, PassReadsItsObservations DEF Sound, NextLastObservation
      <4> QED BY <3>2, <4>1 DEF EndsAsLastObserved
    <3>3. CASE life[n] \in ActiveStates
      <4>1. life[n] \notin TerminalStates /\ lifeAtCycleStart[n] \notin TerminalStates
        BY <3>3 DEF EndedStayEnded, ActiveStates, TerminalStates
      <4> QED BY <3>3, <4>1, ActiveNodesRemember, EndsOnItsObservation
    <3> QED BY <3>1, <3>2, <3>3 DEF Edge, ActiveStates, TerminalStates
  <2>2. CASE UNCHANGED <<chart, life, lastObservation>>
    BY <2>2 DEF EndsAsLastObserved
  <2> QED BY <2>1, <2>2
          DEF Next, vars, engine, CollectTickObservations, OnTickRaises, Settle,
              RaiseDoesNotSettle, RunCallback, CallbackRaises, EndTick, Stopped
<1> QED BY <1>1, <1>2, EndedStayEndedAlways, PTL DEF Spec

\* A node that entered the tick paused keeps its observation, also when it resumes in
\* the middle of the tick.
THEOREM PausedNodesKeepObserving == Spec => PausedKeepsObservation
<1>1. Sound /\ [Next]_vars =>
        [phase = "settling" =>
           \A n \in Node :
             (lifeAtCycleStart[n] = "PAUSED" /\ life[n] \in ActiveStates)
               => observation'[n] = observation[n]]_vars
  <2> SUFFICES ASSUME Sound, [Next]_vars, NEW n \in Node,
                      lifeAtCycleStart[n] = "PAUSED", life[n] \in ActiveStates
               PROVE  observation'[n] = observation[n]
    OBVIOUS
  <2>1. CASE TakeOverLatestPass
    BY <2>1, PassReadsItsObservations
       DEF TakeOverLatestPass, Sound, NextObservation, ActiveStates
  <2>2. CASE observation' = observation
    BY <2>2
  <2> QED BY <2>1, <2>2
          DEF Next, vars, engine, CollectTickObservations, OnTickRaises, Settle,
              RaiseDoesNotSettle, RunCallback, CallbackRaises, EndTick, Stopped
<1> QED BY <1>1, SoundAlways, PTL DEF Spec, PausedKeepsObservation
-----------------------------------------------------------------------------
\* What nodes hear.

\* What a node that is in a state has heard of, if it has heard of everything.
HeardOf(state) == IF state \in TerminalStates THEN "ENDED" ELSE state

\* The changes from the life cycles `before' to the life cycles `after'.
ChangesBetween(before, after) ==
  {[node |-> n, previous |-> before[n], new |-> after[n]] :
     n \in {m \in Node : after[m] # before[m]}}

\* A path from the life cycles nodes know of to those they are in, by way of those
\* the passes left whose changes are still to be told.
IsPath(path, known, untold, reached) ==
  /\ path \in Seq([Node -> LifeCycleValues])
  /\ Len(path) = Len(untold) + 1
  /\ known = [n \in Node |-> HeardOf(path[1][n])]
  /\ path[Len(path)] = reached
  /\ \A i \in 1..Len(untold) :
       /\ untold[i] = ChangesBetween(path[i], path[i + 1])
       /\ untold[i] # {}
       /\ \A n \in Node : Edge(path[i][n], path[i + 1][n])

ChangesLeadOn ==
  /\ phase = "rest" => changes = <<>>
  /\ phase \in {"rest", "settling", "callbacks"} => \E path : IsPath(path, heard, changes, life)

\* Every change along an edge of the life cycle is told, and the node expects what
\* it is told first and then knows where it is.
LEMMA ChangesAreTold ==
  ASSUME NEW change, change.previous \in LifeCycleValues, change.new \in LifeCycleValues,
         Edge(change.previous, change.new), change.previous # change.new
  PROVE  /\ Callbacks(change) # <<>>
         /\ HeardOf(change.previous) \in Expects[Callbacks(change)[1]]
         /\ Told[Callbacks(change)[Len(Callbacks(change))]] = HeardOf(change.new)
<1> USE DEF Expects, Told, HeardOf, LifeCycleValues, TerminalStates, ActiveStates
<1>1. CASE change.new = "NOT_STARTED"
  <2>1. Callbacks(change) = <<"on_reset">> /\ Len(Callbacks(change)) = 1
    BY <1>1 DEF Callbacks
  <2> QED BY <1>1, <2>1
<1>2. CASE change.previous = "NOT_STARTED" /\ change.new = "RUNNING"
  <2>1. Callbacks(change) = <<"on_start">> /\ Len(Callbacks(change)) = 1
    BY <1>2 DEF Callbacks
  <2> QED BY <1>2, <2>1
<1>3. CASE change.previous = "NOT_STARTED" /\ change.new = "PAUSED"
  <2>1. Callbacks(change) = <<"on_start", "on_pause">> /\ Len(Callbacks(change)) = 2
    BY <1>3 DEF Callbacks
  <2> QED BY <1>3, <2>1
<1>4. CASE change.previous = "RUNNING" /\ change.new = "PAUSED"
  <2>1. Callbacks(change) = <<"on_pause">> /\ Len(Callbacks(change)) = 1
    BY <1>4 DEF Callbacks
  <2> QED BY <1>4, <2>1
<1>5. CASE change.previous = "PAUSED" /\ change.new = "RUNNING"
  <2>1. Callbacks(change) = <<"on_unpause">> /\ Len(Callbacks(change)) = 1
    BY <1>5 DEF Callbacks
  <2> QED BY <1>5, <2>1
<1>6. CASE change.previous \in ActiveStates /\ change.new \in TerminalStates
  <2>1. Callbacks(change) = <<"on_end">> /\ Len(Callbacks(change)) = 1
    BY <1>6 DEF Callbacks
  <2> QED BY <1>6, <2>1
<1> QED BY <1>1, <1>2, <1>3, <1>4, <1>5, <1>6 DEF Edge

LEMMA NextChangeIsAChange ==
  ASSUME TypeOK, changes # <<>>, Head(changes) # {}
  PROVE  NextChange \in Head(changes)
<1> DEFINE nodes == {c.node : c \in Head(changes)}
<1>1. Head(changes) \in SUBSET LifeCycleChange
  BY DEF TypeOK
<1>2. nodes \in SUBSET Nat /\ nodes # {}
  BY <1>1, NodeAssumption DEF LifeCycleChange
<1>3. PICK i \in nodes : \A j \in nodes : i <= j
  <2> HIDE DEF nodes
  <2> QED BY <1>2, LeastNatural
<1>4. \E c \in Head(changes) : \A d \in Head(changes) : c.node <= d.node
  BY <1>3
<1> QED BY <1>4 DEF NextChange

\* The next change to be told, seen from the path.
LEMMA NextChangeOnPath ==
  ASSUME TypeOK, NEW path, IsPath(path, heard, changes, life), changes # <<>>
  PROVE  /\ NextChange \in Head(changes)
         /\ NextChange.node \in Node
         /\ NextChange = [node |-> NextChange.node,
                          previous |-> path[1][NextChange.node],
                          new |-> path[2][NextChange.node]]
         /\ path[1] \in [Node -> LifeCycleValues] /\ path[2] \in [Node -> LifeCycleValues]
         /\ path[1][NextChange.node] # path[2][NextChange.node]
         /\ Edge(path[1][NextChange.node], path[2][NextChange.node])
<1>1. Len(changes) \in Nat \ {0} /\ Head(changes) = changes[1]
  BY DEF TypeOK
<1>2. /\ changes[1] = ChangesBetween(path[1], path[2])
      /\ changes[1] # {}
      /\ \A n \in Node : Edge(path[1][n], path[2][n])
  BY <1>1 DEF IsPath
<1>3. path[1] \in [Node -> LifeCycleValues] /\ path[2] \in [Node -> LifeCycleValues]
  BY <1>1 DEF IsPath
<1>4. NextChange \in Head(changes)
  BY <1>1, <1>2, NextChangeIsAChange
<1>5. PICK n \in Node : /\ path[2][n] # path[1][n]
                        /\ NextChange = [node |-> n, previous |-> path[1][n], new |-> path[2][n]]
  BY <1>1, <1>2, <1>4 DEF ChangesBetween
<1> QED BY <1>2, <1>3, <1>4, <1>5

\* Telling one change takes what nodes know one node further.
LEMMA TellingFollowsThePath ==
  ASSUME TypeOK, NEW path, IsPath(path, heard, changes, life), RunCallback
  PROVE  \E next : IsPath(next, heard', changes', life')
<1> DEFINE c == NextChange
           n == c.node
           told == [path[1] EXCEPT ![n] = c.new]
<1>0. changes # <<>> /\ life' = life
  BY DEF RunCallback, engine
<1>1. /\ c \in Head(changes) /\ n \in Node
      /\ c = [node |-> n, previous |-> path[1][n], new |-> path[2][n]]
      /\ path[1] \in [Node -> LifeCycleValues] /\ path[2] \in [Node -> LifeCycleValues]
      /\ path[1][n] # path[2][n]
      /\ Edge(path[1][n], path[2][n])
  BY <1>0, NextChangeOnPath
<1>2. /\ Len(changes) \in Nat \ {0} /\ Head(changes) = changes[1]
      /\ changes \in Seq(SUBSET LifeCycleChange)
  BY <1>0 DEF TypeOK
<1>3. /\ changes[1] = ChangesBetween(path[1], path[2])
      /\ \A m \in Node : Edge(path[1][m], path[2][m])
      /\ path \in Seq([Node -> LifeCycleValues]) /\ Len(path) = Len(changes) + 1
  BY <1>2 DEF IsPath
<1>4. told \in [Node -> LifeCycleValues] /\ told[n] = path[2][n]
      /\ \A m \in Node \ {n} : told[m] = path[1][m]
  BY <1>1
<1>5. heard' = [m \in Node |-> HeardOf(told[m])]
  <2>1. /\ Callbacks(c) # <<>>
        /\ Told[Callbacks(c)[Len(Callbacks(c))]] = HeardOf(c.new)
    <3>1. c.previous \in LifeCycleValues /\ c.new \in LifeCycleValues
          /\ Edge(c.previous, c.new) /\ c.previous # c.new
      BY <1>1
    <3> HIDE DEF c
    <3> QED BY <3>1, ChangesAreTold
  <2>2. heard' = [heard EXCEPT ![n] = HeardOf(c.new)]
    BY <2>1 DEF RunCallback
  <2>3. heard = [m \in Node |-> HeardOf(path[1][m])]
    BY DEF IsPath
  <2> HIDE DEF told
  <2> QED BY <1>1, <1>4, <2>2, <2>3
<1>6. ChangesBetween(told, path[2]) = Head(changes) \ {c}
  <2> HIDE DEF told
  <2>1. ASSUME NEW m \in Node
        PROVE  path[2][m] # told[m] <=> path[2][m] # path[1][m] /\ m # n
    BY <1>4
  <2> QED BY <1>1, <1>2, <1>3, <1>4, <2>1 DEF ChangesBetween
<1>7. CASE Head(changes) = {c}
  <2>1. changes' = Tail(changes)
    BY <1>7 DEF RunCallback
  <2>2. told = path[2]
    <3>1. ASSUME NEW m \in Node PROVE path[2][m] = told[m]
      <4> SUFFICES ASSUME path[2][m] # told[m] PROVE FALSE
        OBVIOUS
      <4>1. [node |-> m, previous |-> told[m], new |-> path[2][m]]
              \in ChangesBetween(told, path[2])
        BY DEF ChangesBetween
      <4> HIDE DEF told
      <4> QED BY <1>6, <1>7, <4>1
    <3> HIDE DEF told
    <3> QED BY <1>1, <1>4, <3>1
  <2>3. IsPath(Tail(path), heard', changes', life')
    <3>1. /\ Tail(path) \in Seq([Node -> LifeCycleValues])
          /\ Len(Tail(path)) = Len(changes') + 1
          /\ \A i \in 1..Len(Tail(path)) : Tail(path)[i] = path[i + 1]
          /\ Len(changes') = Len(changes) - 1
          /\ \A i \in 1..Len(changes') : changes'[i] = changes[i + 1]
      BY <1>2, <1>3, <2>1
    <3>2. heard' = [m \in Node |-> HeardOf(Tail(path)[1][m])]
      BY <1>2, <1>5, <2>2, <3>1
    <3>3. Tail(path)[Len(Tail(path))] = life'
      BY <1>0, <1>2, <1>3, <3>1 DEF IsPath
    <3>4. ASSUME NEW i \in 1..Len(changes')
          PROVE  /\ changes'[i] = ChangesBetween(Tail(path)[i], Tail(path)[i + 1])
                 /\ changes'[i] # {}
                 /\ \A m \in Node : Edge(Tail(path)[i][m], Tail(path)[i + 1][m])
      <4>1. i + 1 \in 1..Len(changes) /\ i \in 1..Len(Tail(path)) /\ i + 1 \in 1..Len(Tail(path))
        BY <1>2, <3>1
      <4>2. changes'[i] = changes[i + 1] /\ Tail(path)[i] = path[i + 1]
            /\ Tail(path)[i + 1] = path[(i + 1) + 1]
        BY <3>1, <4>1
      <4> QED BY <4>1, <4>2 DEF IsPath
    <3> QED BY <3>1, <3>2, <3>3, <3>4 DEF IsPath
  <2> QED BY <2>3
<1>8. CASE Head(changes) # {c}
  <2> DEFINE next == [path EXCEPT ![1] = told]
  <2>1. changes' = <<Head(changes) \ {c}>> \o Tail(changes)
    BY <1>8 DEF RunCallback
  <2>2. /\ Len(changes') = Len(changes)
        /\ changes'[1] = Head(changes) \ {c}
        /\ \A i \in 2..Len(changes) : changes'[i] = changes[i]
    BY <1>2, <2>1
  <2>3. /\ next \in Seq([Node -> LifeCycleValues]) /\ Len(next) = Len(path)
        /\ next[1] = told /\ \A i \in 2..Len(path) : next[i] = path[i]
    <3> HIDE DEF told
    <3> QED BY <1>2, <1>3, <1>4
  <2>4. heard' = [m \in Node |-> HeardOf(next[1][m])]
    BY <1>5, <2>3
  <2>5. next[Len(next)] = life'
    BY <1>0, <1>2, <1>3, <2>3 DEF IsPath
  <2>6. ASSUME NEW i \in 1..Len(changes')
        PROVE  /\ changes'[i] = ChangesBetween(next[i], next[i + 1])
               /\ changes'[i] # {}
               /\ \A m \in Node : Edge(next[i][m], next[i + 1][m])
    <3> HIDE DEF next, told, c
    <3>1. CASE i = 1
      <4>1. next[1] = told /\ next[2] = path[2]
        BY <1>2, <1>3, <2>3
      <4>2. \A m \in Node : Edge(told[m], path[2][m])
        BY <1>3, <1>4 DEF Edge
      <4>3. next[i] = told /\ next[i + 1] = path[2]
        BY <3>1, <4>1
      <4>4. changes'[i] = ChangesBetween(told, path[2])
        BY <1>6, <2>2, <3>1
      <4>5. changes'[i] # {}
        BY <1>1, <1>8, <2>2, <3>1
      <4> QED BY <4>2, <4>3, <4>4, <4>5
    <3>2. CASE i # 1
      <4>1. i \in 2..Len(changes) /\ i + 1 \in 2..Len(path)
        BY <1>2, <1>3, <2>2, <3>2
      <4>2. changes'[i] = changes[i] /\ next[i] = path[i] /\ next[i + 1] = path[i + 1]
        BY <1>2, <1>3, <2>2, <2>3, <4>1
      <4> QED BY <4>1, <4>2 DEF IsPath
    <3> QED BY <3>1, <3>2
  <2>7. IsPath(next, heard', changes', life')
    <3> HIDE DEF next
    <3> QED BY <1>3, <2>2, <2>3, <2>4, <2>5, <2>6 DEF IsPath
  <2> QED BY <2>7
<1> QED BY <1>7, <1>8

\* A pass takes the life cycles on, and leaves its changes to be told.
LEMMA PassesExtendThePath ==
  ASSUME ChartOK, TypeOK, NEW path, IsPath(path, heard, changes, life), TakeOverLatestPass
  PROVE  \E next : IsPath(next, heard', changes', life')
<1>1. /\ life' = LatestPass.life /\ heard' = heard
      /\ changes' = IF LatestPass.life = life THEN changes
                    ELSE Append(changes, LifeCycleChangesOf(LatestPass))
  BY DEF TakeOverLatestPass
<1>2. CASE LatestPass.life = life
  <2>1. IsPath(path, heard', changes', life')
    BY <1>1, <1>2
  <2> QED BY <2>1
<1>3. CASE LatestPass.life # life
  <2> DEFINE next == Append(path, LatestPass.life)
  <2>1. /\ changes \in Seq(SUBSET LifeCycleChange)
        /\ LatestPass.life \in [Node -> LifeCycleValues] /\ life \in [Node -> LifeCycleValues]
        /\ \A n \in Node : Edge(life[n], LatestPass.life[n])
    BY PassKeepsPromises DEF TypeOK
  <2>2. /\ path \in Seq([Node -> LifeCycleValues]) /\ Len(path) = Len(changes) + 1
        /\ path[Len(path)] = life
        /\ heard = [n \in Node |-> HeardOf(path[1][n])]
    BY DEF IsPath
  <2>3. LifeCycleChangesOf(LatestPass) = ChangesBetween(life, LatestPass.life)
    BY DEF LifeCycleChangesOf, ChangesBetween
  <2>4. ChangesBetween(life, LatestPass.life) # {}
    <3>1. PICK n \in Node : life[n] # LatestPass.life[n]
      BY <1>3, <2>1
    <3> QED BY <3>1 DEF ChangesBetween
  <2>5. changes' = Append(changes, ChangesBetween(life, LatestPass.life))
    BY <1>1, <1>3, <2>3
  <2>6. /\ Len(changes) \in Nat /\ Len(changes') = Len(changes) + 1
        /\ \A i \in 1..Len(changes) : changes'[i] = changes[i]
        /\ changes'[Len(changes) + 1] = ChangesBetween(life, LatestPass.life)
    BY <2>1, <2>5
  <2>7. /\ next \in Seq([Node -> LifeCycleValues]) /\ Len(next) = Len(changes') + 1
        /\ \A i \in 1..Len(path) : next[i] = path[i]
        /\ next[Len(path) + 1] = LatestPass.life
    BY <2>1, <2>2, <2>6
  <2>8. ASSUME NEW i \in 1..Len(changes')
        PROVE  /\ changes'[i] = ChangesBetween(next[i], next[i + 1])
               /\ changes'[i] # {}
               /\ \A n \in Node : Edge(next[i][n], next[i + 1][n])
    <3> HIDE DEF next
    <3>1. CASE i = Len(changes) + 1
      <4>1. next[i] = life /\ next[i + 1] = LatestPass.life
        BY <2>2, <2>6, <2>7, <3>1
      <4> QED BY <2>1, <2>4, <2>6, <3>1, <4>1
    <3>2. CASE i # Len(changes) + 1
      <4>1. i \in 1..Len(changes) /\ i \in 1..Len(path) /\ i + 1 \in 1..Len(path)
        BY <2>2, <2>6, <3>2
      <4> QED BY <2>6, <2>7, <4>1 DEF IsPath
    <3> QED BY <3>1, <3>2
  <2>9. IsPath(next, heard', changes', life')
    <3> HIDE DEF next
    <3>1. 1 \in 1..Len(path) /\ Len(next) = Len(path) + 1
      BY <2>2, <2>6, <2>7
    <3> QED BY <1>1, <2>2, <2>7, <2>8, <3>1 DEF IsPath
  <2> QED BY <2>9
<1> QED BY <1>2, <1>3

LEMMA NextKeepsChangesLeadingOn ==
  Sound /\ ChangesLeadOn /\ [Next]_vars => ChangesLeadOn'
<1> SUFFICES ASSUME Sound, ChangesLeadOn, [Next]_vars PROVE ChangesLeadOn'
  OBVIOUS
<1>1. CASE TakeOverLatestPass
  BY <1>1, PassesExtendThePath DEF TakeOverLatestPass, ChangesLeadOn, Sound
<1>2. CASE RunCallback
  BY <1>2, TellingFollowsThePath DEF RunCallback, ChangesLeadOn, Sound
<1>3. CASE phase' \notin {"rest", "settling", "callbacks"}
  BY <1>3 DEF ChangesLeadOn
<1>4. CASE /\ UNCHANGED <<life, heard, changes>>
           /\ phase \in {"rest", "settling", "callbacks"}
           /\ phase' = "rest" => changes = <<>>
  BY <1>4 DEF ChangesLeadOn
<1>5. CASE UNCHANGED <<life, heard, changes, phase>>
  BY <1>5 DEF ChangesLeadOn
<1> QED BY <1>1, <1>2, <1>3, <1>4, <1>5
        DEF Next, vars, engine, CollectTickObservations, OnTickRaises, Settle,
            RaiseDoesNotSettle, CallbackRaises, EndTick, Stopped

LEMMA ChangesAlwaysLeadOn == Spec => [](Sound /\ ChangesLeadOn)
<1>1. Init => ChangesLeadOn
  <2> SUFFICES ASSUME Init PROVE ChangesLeadOn
    OBVIOUS
  <2>1. /\ changes = <<>> /\ heard = life
        /\ life = [n \in Node |-> "NOT_STARTED"]
    BY DEF Init
  <2>2. IsPath(<<life>>, heard, changes, life)
    <3>1. <<life>> \in Seq([Node -> LifeCycleValues]) /\ Len(<<life>>) = Len(changes) + 1
      BY <2>1 DEF LifeCycleValues
    <3>2. heard = [n \in Node |-> HeardOf(<<life>>[1][n])]
      BY <2>1 DEF HeardOf, TerminalStates
    <3> QED BY <2>1, <3>1, <3>2 DEF IsPath
  <2> QED BY <2>1, <2>2 DEF ChangesLeadOn
<1> QED BY <1>1, NextKeepsChangesLeadingOn, SoundAlways, PTL DEF Spec

\* Callbacks reach every node in an order its life cycle allows, however many passes
\* a tick takes and however often a node moves in it.
THEOREM CallbacksKeepOrder == Spec => []CallbacksInOrder
<1>1. Sound /\ ChangesLeadOn => CallbacksInOrder
  <2> SUFFICES ASSUME Sound, ChangesLeadOn, phase = "callbacks", changes # <<>>
               PROVE  /\ Callbacks(NextChange) # <<>>
                      /\ heard[NextChange.node] \in Expects[Callbacks(NextChange)[1]]
    BY DEF CallbacksInOrder
  <2>1. PICK path : IsPath(path, heard, changes, life)
    BY DEF ChangesLeadOn
  <2> DEFINE c == NextChange
  <2>2. /\ c.node \in Node
        /\ c = [node |-> c.node, previous |-> path[1][c.node], new |-> path[2][c.node]]
        /\ path[1] \in [Node -> LifeCycleValues] /\ path[2] \in [Node -> LifeCycleValues]
        /\ path[1][c.node] # path[2][c.node]
        /\ Edge(path[1][c.node], path[2][c.node])
    BY <2>1, NextChangeOnPath DEF Sound
  <2>3. heard[c.node] = HeardOf(c.previous)
    <3>1. heard = [n \in Node |-> HeardOf(path[1][n])]
      BY <2>1 DEF IsPath
    <3> HIDE DEF c
    <3> QED BY <2>2, <3>1
  <2>4. /\ c.previous \in LifeCycleValues /\ c.new \in LifeCycleValues
        /\ Edge(c.previous, c.new) /\ c.previous # c.new
    <3> HIDE DEF c
    <3> QED BY <2>2
  <2>5. Callbacks(c) # <<>> /\ HeardOf(c.previous) \in Expects[Callbacks(c)[1]]
    <3> HIDE DEF c
    <3> QED BY <2>4, ChangesAreTold
  <2> QED BY <2>3, <2>5
<1> QED BY <1>1, ChangesAlwaysLeadOn, PTL

\* Between two ticks every node has heard of the state it is in.
THEOREM NodesKnowTheirLifeCycle == Spec => []CallbacksTellLifeCycle
<1>1. Sound /\ ChangesLeadOn => CallbacksTellLifeCycle
  <2> SUFFICES ASSUME Sound, ChangesLeadOn, phase = "rest", NEW n \in Node
               PROVE  heard[n] = HeardOf(life[n])
    BY DEF CallbacksTellLifeCycle, HeardOf
  <2>1. changes = <<>> /\ \E path : IsPath(path, heard, changes, life)
    BY DEF ChangesLeadOn
  <2>2. PICK path : IsPath(path, heard, changes, life)
    BY <2>1
  <2>3. path[1] = life /\ heard = [m \in Node |-> HeardOf(path[1][m])]
    BY <2>1, <2>2 DEF IsPath
  <2> QED BY <2>3
<1> QED BY <1>1, ChangesAlwaysLeadOn, PTL

\* Of every chart and in every tick, callbacks tell each node its life cycle, in order
\* and to the end (Statechart.tick).
THEOREM CallbacksTellEverything == Spec => []CallbacksFollowLifeCycle
BY CallbacksKeepOrder, NodesKnowTheirLifeCycle, PTL DEF CallbacksFollowLifeCycle

\* An observation never outlives the life it was made in, nor does the last one say
\* anything else than the end of its node.
THEOREM ObservationsKeepToTheirLife == Spec => []ObservationsBelongToTheirLife
BY FreshStart, EndsAsObserved, PTL DEF ObservationsBelongToTheirLife
-----------------------------------------------------------------------------
\* A node moves by its own conditions once a tick.

\* A node that ran when the tick began and runs still has not moved by itself; one
\* it finds paused was paused by itself or by a parent of which the same is true.
RunsUnmoved ==
  \A n \in Node : lifeAtCycleStart[n] = "RUNNING" =>
    /\ life[n] = "RUNNING" => n \notin ownTransitionTaken
    /\ life[n] = "PAUSED" =>
         \/ n \in ownTransitionTaken
         \/ /\ chart.parent[n] # NoParent
            /\ life[chart.parent[n]] = "PAUSED"
            /\ lifeAtCycleStart[chart.parent[n]] = "RUNNING"

\* A pass resumes no node that was paused in the tick: one of least depth would
\* have to move by itself a second time.
LEMMA PausedInTickStay ==
  ASSUME Sound, RunsUnmoved, NEW n \in Node,
         lifeAtCycleStart[n] = "RUNNING", life[n] = "PAUSED"
  PROVE  LatestPass.life[n] # "RUNNING"
<1> DEFINE Resumed == {m \in Node : /\ lifeAtCycleStart[m] = "RUNNING"
                                    /\ life[m] = "PAUSED"
                                    /\ LatestPass.life[m] = "RUNNING"}
<1> SUFFICES ASSUME Resumed # {} PROVE FALSE
  OBVIOUS
<1>1. PICK m \in Resumed : \A k \in Resumed : chart.depth[m] <= chart.depth[k]
  BY Shallowest DEF Sound
<1>2. /\ m \in Node /\ lifeAtCycleStart[m] = "RUNNING"
      /\ life[m] = "PAUSED" /\ LatestPass.life[m] = "RUNNING"
  OBVIOUS
<1>3. ParentState(m, LatestPass.life) = "RUNNING"
  BY <1>2, PassKeepsPromises DEF Sound, FitsParent
<1>4. m \notin ownTransitionTaken
  <2>1. PICK observed, lastObserved :
          LatestPass.life[m] =
            NextOf(m, life[m], ParentState(m, LatestPass.life), observed, lastObserved)
    BY <1>2, PassKeepsPromises DEF Sound
  <2> QED BY <1>2, <2>1 DEF NextOf, NextLifeCycle, OwnTrigger, TerminalStates, EndCase, Outcome
<1>5. /\ chart.parent[m] # NoParent
      /\ life[chart.parent[m]] = "PAUSED"
      /\ lifeAtCycleStart[chart.parent[m]] = "RUNNING"
  BY <1>2, <1>4 DEF RunsUnmoved
<1>6. chart.parent[m] \in Node /\ chart.depth[m] = chart.depth[chart.parent[m]] + 1
      /\ chart.depth[chart.parent[m]] \in Nat
  BY <1>2, <1>5 DEF Sound, ChartOK, IsChart
<1>7. chart.parent[m] \in Resumed
  BY <1>3, <1>5, <1>6 DEF ParentState
<1> HIDE DEF Resumed
<1> QED BY <1>1, <1>6, <1>7

LEMMA NextKeepsRunsUnmoved ==
  Sound /\ ResetsArePinned /\ RunsUnmoved /\ [Next]_vars => RunsUnmoved'
<1> SUFFICES ASSUME Sound, ResetsArePinned, RunsUnmoved, [Next]_vars PROVE RunsUnmoved'
  OBVIOUS
<1>1. CASE lifeAtCycleStart' = life /\ life' = life /\ ownTransitionTaken' = {}
  BY <1>1 DEF RunsUnmoved
<1>2. CASE TakeOverLatestPass
  <2>0. /\ phase = "settling"
        /\ life' = LatestPass.life /\ ownTransitionTaken' = LatestPass.ownTransitionTaken
        /\ UNCHANGED <<chart, lifeAtCycleStart>>
    BY <1>2 DEF TakeOverLatestPass, inputs
  <2> SUFFICES ASSUME NEW n \in Node, lifeAtCycleStart[n] = "RUNNING"
               PROVE  /\ life'[n] = "RUNNING" => n \notin ownTransitionTaken'
                      /\ life'[n] = "PAUSED" =>
                           \/ n \in ownTransitionTaken'
                           \/ /\ chart.parent[n] # NoParent
                              /\ life'[chart.parent[n]] = "PAUSED"
                              /\ lifeAtCycleStart[chart.parent[n]] = "RUNNING"
    BY <2>0 DEF RunsUnmoved
  <2>1. /\ life[n] = "NOT_STARTED" => life'[n] = "NOT_STARTED"
        /\ Edge(life[n], life'[n])
        /\ FitsParent(life'[n], ParentState(n, LatestPass.life))
        /\ n \in ownTransitionTaken' <=>
             \/ n \in ownTransitionTaken
             \/ life'[n] # ForcedByParent(life[n], ParentState(n, LatestPass.life))
    <3>1. life[n] = "NOT_STARTED" => life'[n] = "NOT_STARTED"
      BY <2>0, ResetNodesStay DEF ResetInTick
    <3> QED BY <2>0, <3>1, PassKeepsPromises DEF Sound
  <2>2. CASE life'[n] = "RUNNING"
    <3>1. life[n] = "RUNNING"
      BY <2>0, <2>1, <2>2, PausedInTickStay DEF Edge, ActiveStates
    <3>2. ParentState(n, LatestPass.life) = "RUNNING"
      BY <2>1, <2>2 DEF FitsParent
    <3> QED BY <2>1, <2>2, <3>1, <3>2 DEF RunsUnmoved, ForcedByParent, TerminalStates
  <2>3. CASE life'[n] = "PAUSED" /\ n \notin ownTransitionTaken'
    <3>1. n \notin ownTransitionTaken /\ life[n] \in ActiveStates
      BY <2>1, <2>3 DEF Edge, ActiveStates
    <3>2. ParentState(n, LatestPass.life) \in ActiveStates
      BY <2>1, <2>3 DEF FitsParent
    <3>3. FitsParent(lifeAtCycleStart[n], ParentState(n, lifeAtCycleStart))
      BY <2>0 DEF ResetsArePinned
    <3>4. CASE life[n] = "PAUSED"
      <4>1. /\ chart.parent[n] # NoParent
            /\ life[chart.parent[n]] = "PAUSED"
            /\ lifeAtCycleStart[chart.parent[n]] = "RUNNING"
        BY <3>1, <3>4 DEF RunsUnmoved
      <4>2. chart.parent[n] \in Node
        BY <4>1 DEF Sound, ChartOK, IsChart
      <4>3. LatestPass.life[chart.parent[n]] # "RUNNING"
        BY <4>1, <4>2, PausedInTickStay
      <4> QED BY <2>0, <2>3, <3>2, <4>1, <4>3 DEF ParentState, ActiveStates
    <3>5. CASE life[n] = "RUNNING"
      <4>1. ParentState(n, LatestPass.life) = "PAUSED"
        BY <2>1, <2>3, <3>2, <3>5 DEF ForcedByParent, TerminalStates, ActiveStates
      <4>2. chart.parent[n] # NoParent
        BY <4>1 DEF ParentState, NoParentState
      <4> QED BY <2>0, <2>3, <3>3, <4>1, <4>2 DEF ParentState, FitsParent
    <3> QED BY <3>1, <3>4, <3>5 DEF ActiveStates
  <2> QED BY <2>2, <2>3
<1>3. CASE UNCHANGED <<chart, life, lifeAtCycleStart, ownTransitionTaken>>
  BY <1>3 DEF RunsUnmoved
<1> QED BY <1>1, <1>2, <1>3
        DEF Next, vars, engine, inputs, CollectTickObservations, OnTickRaises, Settle,
            RaiseDoesNotSettle, RunCallback, CallbackRaises, EndTick, Stopped

\* A node that runs from the start of a tick to its end, or to any pass of it, has
\* not moved by itself in between: it cannot pause and resume within one tick, by
\* whoever's doing.
THEOREM RunningNodesHaveNotMoved == Spec => []RunsUnmoved
<1>1. Init => ResetsArePinned /\ RunsUnmoved
  BY DEF Init, ResetsArePinned, RunsUnmoved
<1> QED BY <1>1, NextKeepsResetsPinned, NextKeepsRunsUnmoved, SoundAlways, PTL DEF Spec
-----------------------------------------------------------------------------
\* Nodes nobody wrote a reset for.

Unreset(n) == chart.condition[n]["RESET"] = ConstFalse

\* Who had not started when the tick began and has since, started by itself.
StartsOfItself ==
  \A n \in Node :
    (lifeAtCycleStart[n] = "NOT_STARTED" /\ life[n] # "NOT_STARTED")
      => n \in ownTransitionTaken

\* Only its parent resets such a node: while it is reset in a tick so is its parent,
\* and where it started in the tick before it was reset, its parent stays reset.
ResetWithItsParent ==
  \A n \in Node : Unreset(n) /\ life[n] = "NOT_STARTED" =>
    /\ lifeAtCycleStart[n] # "NOT_STARTED" => ParentState(n, life) = "NOT_STARTED"
    /\ n \in ownTransitionTaken =>
         LET parent == chart.parent[n]
         IN  /\ parent # NoParent /\ life[parent] = "NOT_STARTED"
             /\ parent \in ownTransitionTaken \/ lifeAtCycleStart[parent] # "NOT_STARTED"

\* Where the parent of such a node runs or is paused, the node has not started and
\* has not observed anything.
UnstartedObservesNothing ==
  \A n \in Node :
    (Unreset(n) /\ life[n] = "NOT_STARTED" /\ ParentState(n, life) # "NOT_STARTED")
      => observation[n] = "UNKNOWN"

UnresetNodes == StartsOfItself /\ ResetWithItsParent /\ UnstartedObservesNothing

\* A pass resets such a node only with its parent.
LEMMA UnresetNodeNeedsItsParent ==
  ASSUME Sound, NEW n \in Node, Unreset(n), LatestPass.life[n] = "NOT_STARTED"
  PROVE  ParentState(n, LatestPass.life) = "NOT_STARTED" \/ life[n] = "NOT_STARTED"
<1>1. PICK observed, lastObserved :
        LatestPass.life[n] =
          NextOf(n, life[n], ParentState(n, LatestPass.life), observed, lastObserved)
  BY PassKeepsPromises DEF Sound
<1>2. ~ ConditionsOf(n, observed, lastObserved)["RESET"]
  BY DEF ConditionsOf, EffectiveCondition, TransitionKinds, Holds, ConstFalse, Unreset
<1>3. life[n] \in LifeCycleValues
  BY DEF Sound, TypeOK
<1> QED BY <1>1, <1>2, <1>3 DEF NextOf, NextLifeCycle, OwnTrigger, EndCase, Outcome,
                                TerminalStates, LifeCycleValues

\* A node that moved by itself in the tick and has not started stays so.
LEMMA SpentNodesDoNotStart ==
  ASSUME Sound, NEW n \in Node, life[n] = "NOT_STARTED", n \in ownTransitionTaken
  PROVE  LatestPass.life[n] = "NOT_STARTED"
<1>1. PICK observed, lastObserved :
        LatestPass.life[n] =
          NextOf(n, life[n], ParentState(n, LatestPass.life), observed, lastObserved)
  BY PassKeepsPromises DEF Sound
<1> QED BY <1>1 DEF NextOf, NextLifeCycle, OwnTrigger, Starts

LEMMA PassKeepsUnresetNodes ==
  ASSUME Sound, ResetsArePinned, UnresetNodes, TakeOverLatestPass
  PROVE  UnresetNodes'
<1>0. /\ phase = "settling"
      /\ life' = LatestPass.life /\ ownTransitionTaken' = LatestPass.ownTransitionTaken
      /\ observation' = LatestPass.observation
      /\ UNCHANGED <<chart, lifeAtCycleStart>>
  BY DEF TakeOverLatestPass, inputs
<1>1. \A n \in Node :
        n \in ownTransitionTaken' <=>
          \/ n \in ownTransitionTaken
          \/ life'[n] # ForcedByParent(life[n], ParentState(n, LatestPass.life))
  BY <1>0, PassKeepsPromises DEF Sound
<1>2. StartsOfItself'
  <2> SUFFICES ASSUME NEW n \in Node, lifeAtCycleStart[n] = "NOT_STARTED",
                      life'[n] # "NOT_STARTED"
               PROVE  n \in ownTransitionTaken'
    BY <1>0 DEF StartsOfItself
  <2>1. CASE life[n] # "NOT_STARTED"
    BY <1>1, <2>1 DEF UnresetNodes, StartsOfItself
  <2>2. CASE life[n] = "NOT_STARTED"
    BY <1>1, <2>2 DEF ForcedByParent, ActiveStates
  <2> QED BY <2>1, <2>2
<1>3. ASSUME NEW n \in Node, Unreset(n), LatestPass.life[n] = "NOT_STARTED"
      PROVE  /\ lifeAtCycleStart[n] # "NOT_STARTED" =>
                  ParentState(n, LatestPass.life) = "NOT_STARTED"
             /\ n \in ownTransitionTaken' =>
                  LET parent == chart.parent[n]
                  IN  /\ parent # NoParent /\ life'[parent] = "NOT_STARTED"
                      /\ parent \in ownTransitionTaken'
                           \/ lifeAtCycleStart[parent] # "NOT_STARTED"
  <2> DEFINE parent == chart.parent[n]
  <2>0. parent \in Node \union {NoParent}
    BY DEF Sound, ChartOK, IsChart
  <2>1. CASE life[n] # "NOT_STARTED"
    <3>1. ParentState(n, LatestPass.life) = "NOT_STARTED"
      BY <1>3, <2>1, UnresetNodeNeedsItsParent
    <3>2. parent \in Node /\ LatestPass.life[parent] = "NOT_STARTED"
      BY <2>0, <3>1 DEF ParentState, NoParentState
    <3>3. life[parent] # "NOT_STARTED"
      <4>1. FitsParent(life[n], ParentState(n, life))
        BY DEF Sound, HierarchyConsistent
      <4> QED BY <2>1, <3>2, <4>1, NodeAssumption DEF FitsParent, ParentState
    <3>4. parent \in ownTransitionTaken' \/ lifeAtCycleStart[parent] # "NOT_STARTED"
      <4>1. lifeAtCycleStart[parent] = "NOT_STARTED" => parent \in ownTransitionTaken
        BY <3>2, <3>3 DEF UnresetNodes, StartsOfItself
      <4> HIDE DEF parent
      <4> QED BY <1>1, <3>2, <4>1
    <3> QED BY <1>0, <3>1, <3>2, <3>4, NodeAssumption
  <2>2. CASE life[n] = "NOT_STARTED" /\ lifeAtCycleStart[n] # "NOT_STARTED"
    <3>1. ParentState(n, life) = "NOT_STARTED"
      BY <1>3, <2>2 DEF UnresetNodes, ResetWithItsParent
    <3>2. parent \in Node /\ life[parent] = "NOT_STARTED"
      BY <2>0, <3>1 DEF ParentState, NoParentState
    <3>3. lifeAtCycleStart[parent] # "NOT_STARTED"
      <4>1. FitsParent(lifeAtCycleStart[n], ParentState(n, lifeAtCycleStart))
        BY <1>0 DEF ResetsArePinned
      <4> QED BY <2>2, <3>2, <4>1, NodeAssumption DEF FitsParent, ParentState
    <3>4. LatestPass.life[parent] = "NOT_STARTED"
      BY <1>0, <3>2, <3>3, ResetNodesStay DEF ResetInTick
    <3> QED BY <1>0, <3>2, <3>3, <3>4, NodeAssumption DEF ParentState
  <2>3. CASE life[n] = "NOT_STARTED" /\ lifeAtCycleStart[n] = "NOT_STARTED"
    <3> SUFFICES ASSUME n \in ownTransitionTaken'
                 PROVE  /\ parent # NoParent /\ life'[parent] = "NOT_STARTED"
                        /\ parent \in ownTransitionTaken'
                             \/ lifeAtCycleStart[parent] # "NOT_STARTED"
      BY <2>3
    <3>1. n \in ownTransitionTaken
      BY <1>0, <1>1, <1>3, <2>3 DEF ForcedByParent, ActiveStates
    <3>2. /\ parent # NoParent /\ life[parent] = "NOT_STARTED"
          /\ parent \in ownTransitionTaken \/ lifeAtCycleStart[parent] # "NOT_STARTED"
      BY <1>3, <2>3, <3>1 DEF UnresetNodes, ResetWithItsParent
    <3>3. parent \in Node
      BY <2>0, <3>2
    <3>4. LatestPass.life[parent] = "NOT_STARTED"
      BY <1>0, <3>2, <3>3, ResetNodesStay, SpentNodesDoNotStart DEF ResetInTick
    <3> HIDE DEF parent
    <3> QED BY <1>0, <1>1, <3>2, <3>3, <3>4
  <2> QED BY <2>1, <2>2, <2>3
<1>4. ResetWithItsParent'
  BY <1>0, <1>3 DEF ResetWithItsParent, Unreset, ParentState
<1>5. UnstartedObservesNothing'
  <2> SUFFICES ASSUME NEW n \in Node, Unreset(n), LatestPass.life[n] = "NOT_STARTED",
                      ParentState(n, LatestPass.life) # "NOT_STARTED"
               PROVE  LatestPass.observation[n] = "UNKNOWN"
    BY <1>0 DEF UnstartedObservesNothing, Unreset, ParentState
  <2>1. lifeAtCycleStart[n] = "NOT_STARTED"
    BY <1>3
  <2> QED BY <2>1, PassReadsItsObservations DEF Sound, NextObservation, ActiveStates
<1> QED BY <1>2, <1>4, <1>5 DEF UnresetNodes

LEMMA NextKeepsUnresetNodes ==
  Sound /\ ResetsArePinned /\ UnresetNodes /\ [Next]_vars => UnresetNodes'
<1> SUFFICES ASSUME Sound, ResetsArePinned, UnresetNodes, [Next]_vars PROVE UnresetNodes'
  OBVIOUS
<1>1. CASE /\ lifeAtCycleStart' = life /\ ownTransitionTaken' = {}
           /\ UNCHANGED <<chart, life, observation>>
  BY <1>1 DEF UnresetNodes, StartsOfItself, ResetWithItsParent, UnstartedObservesNothing,
              Unreset, ParentState
<1>2. CASE UNCHANGED <<chart, life, observation, lifeAtCycleStart, ownTransitionTaken>>
  BY <1>2 DEF UnresetNodes, StartsOfItself, ResetWithItsParent, UnstartedObservesNothing,
              Unreset, ParentState
<1> QED BY <1>1, <1>2, PassKeepsUnresetNodes
        DEF Next, vars, engine, inputs, CollectTickObservations, OnTickRaises, Settle,
            RaiseDoesNotSettle, RunCallback, CallbackRaises, EndTick, Stopped
=============================================================================
