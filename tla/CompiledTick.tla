--------------------------- MODULE CompiledTick ----------------------------
(***************************************************************************)
(* One tick of a cramph statechart (cramph/compiled_tick.py and            *)
(* Statechart.tick): the nodes running at the start of the tick are        *)
(* ticked, passes update every node at once until nothing changes, then    *)
(* the callbacks of every life cycle change run in the order the changes   *)
(* happened.                                                               *)
(*                                                                         *)
(* The chart is a value chosen initially from Charts and fixed from then   *)
(* on: who is whose parent, every transition condition, how every node     *)
(* ends of itself, its observation expression and what its on_tick may     *)
(* return.  Nodes are their indices, so node order is the order of Nat.    *)
(***************************************************************************)
EXTENDS LifeCycle, Sequences

CONSTANTS
  Node,                   \* the nodes of the statechart, by index
  NoParent,               \* the parent of a top level node
  Charts,                 \* the statecharts a behaviour may run
  PassLimit,              \* Statechart.pass_limit
  PassesPerNestingLevel   \* Statechart.passes_per_nesting_level

NoObservation == "NONE"   \* on_tick returned nothing
Raises == "RAISES"        \* on_tick raised an exception

Literals ==
  [node : Node, holds : BOOLEAN,
   predicate : DOMAIN LifeCyclePredicate \union DOMAIN ObservationPredicate
                 \union {"LAST_OBSERVED_TRUE"}]
Condition == SUBSET SUBSET Literals
\* What an observation expression yields: a truth value, or what a node
\* observes or last observed.
Reading ==
  [of : {"value"}, value : ObservationStateValues]
    \union [of : {"observation", "last"}, node : Node]

ObservationCase == [when : Condition, reads : Reading]

IsChart(c) ==
  /\ c.parent \in [Node -> Node \union {NoParent}]
  /\ c.depth \in [Node -> Nat]
  /\ \A n \in Node :
       c.depth[n] = IF c.parent[n] = NoParent THEN 0
                    ELSE c.depth[c.parent[n]] + 1
  /\ \E n \in Node : \A k \in Node : c.depth[k] <= c.depth[n]
  /\ c.condition \in [Node -> [TransitionKinds -> Condition]]
  /\ c.ends \in
       [Node -> SUBSET {"SucceedsOnObservingTrue", "FailsOnObservingFalse"}]
  /\ c.observation \in [Node -> Seq(ObservationCase)]
  /\ c.onTick \in
       [Node -> SUBSET (ObservationStateValues \union {NoObservation, Raises})]
  /\ c.callbackRaises \in SUBSET Node

ASSUME NodeAssumption == Node \subseteq Nat /\ NoParent \notin Node
ASSUME ChartsAssumption == \A c \in Charts : IsChart(c)
ASSUME LimitAssumption == PassLimit \in Nat /\ PassesPerNestingLevel \in Nat

VARIABLES
  chart,
  life,                \* life_cycle_state
  observation,         \* observation_state
  lastObservation,     \* last_observation_state
  lifeAtCycleStart,    \* PassInputKind.LIFE_CYCLE_AT_CYCLE_START
  tickObservation,     \* PassInputKind.TICK_OBSERVATION
  ownTransitionTaken,  \* PassInputKind.OWN_TRANSITION_TAKEN, as a set of nodes
  phase,               \* where Statechart.tick is
  passesTaken,         \* passes that changed the chart in this tick
  visited,             \* the states a pass of this tick started from
  changes,             \* life cycle changes whose callback has not run, per pass
  heard                \* the life cycle each node knows of from its callbacks

engine == <<life, observation, lastObservation, ownTransitionTaken>>
inputs == <<lifeAtCycleStart, tickObservation>>
vars == <<chart, engine, inputs, phase, passesTaken, visited, changes, heard>>
-----------------------------------------------------------------------------
\* One pass, reading the states the previous pass left.

\* The expression of a node: the first case that holds, else unknown.
ObservationExpression(n) ==
  LET cases == chart.observation[n]
      matching == {i \in DOMAIN cases :
                     Holds(cases[i].when, life, observation, lastObservation)}
      first == CHOOSE i \in matching : \A j \in matching : i <= j
      read == cases[first].reads
  IN  IF matching = {} THEN "UNKNOWN"
      ELSE IF read.of = "value" THEN read.value
      ELSE IF read.of = "observation" THEN observation[read.node]
      ELSE lastObservation[read.node]

Observed(n) ==
  IF tickObservation[n] # NoObservation THEN tickObservation[n]
  ELSE ObservationExpression(n)

\* Mutant: a node observes from the pass it starts in.
NextObservationAtOnce ==
  [n \in Node |->
     IF life[n] \in ActiveStates THEN Observed(n)
     ELSE IF lifeAtCycleStart[n] \in ActiveStates THEN lastObservation[n]
     ELSE "UNKNOWN"]

\* Mutant: a paused node counts as one that does not observe at all.
NextObservationForgettingPaused ==
  [n \in Node |->
     IF lifeAtCycleStart[n] # "RUNNING" THEN "UNKNOWN"
     ELSE IF life[n] \notin ActiveStates THEN lastObservation[n]
     ELSE Observed(n)]

NextObservation ==
  [n \in Node |->
     IF lifeAtCycleStart[n] \notin ActiveStates THEN "UNKNOWN"
     ELSE IF life[n] \notin ActiveStates THEN lastObservation[n]
     ELSE IF lifeAtCycleStart[n] = "RUNNING" THEN Observed(n)
     ELSE observation[n]]

\* Mutant: a node that is reset keeps its last observation.
NextLastObservationOfActive(observed) ==
  [n \in Node |-> IF life[n] \in ActiveStates THEN observed[n] ELSE lastObservation[n]]

NextLastObservation(observed) ==
  [n \in Node |->
     IF life[n] \in TerminalStates \/ lifeAtCycleStart[n] \in TerminalStates
     THEN lastObservation[n] ELSE observed[n]]

\* The written condition, or for succeeding and failing either that or the
\* one the node brings along.
EffectiveCondition(n, kind) ==
  chart.condition[n][kind]
    \union (IF kind = "SUCCEED" /\ "SucceedsOnObservingTrue" \in chart.ends[n]
            THEN {{Is(n, "OBSERVES_TRUE")}} ELSE {})
    \union (IF kind = "FAIL" /\ "FailsOnObservingFalse" \in chart.ends[n]
            THEN {{Is(n, "OBSERVES_FALSE")}} ELSE {})

\* Conditions read the life cycles the previous pass left and the
\* observations of this pass.
ConditionsOf(n, observed, lastObserved) ==
  [kind \in TransitionKinds |->
     Holds(EffectiveCondition(n, kind), life, observed, lastObserved)]

ParentState(n, lives) ==
  IF chart.parent[n] = NoParent THEN NoParentState ELSE lives[chart.parent[n]]

\* Mutant: a node reads the state its parent had before the pass.
NextLifeUnderOldParent(observed, lastObserved) ==
  [n \in Node |->
     NextLifeCycle(life[n], ParentState(n, life),
                   ConditionsOf(n, observed, lastObserved),
                   n \notin ownTransitionTaken)]

\* Parents first: a node reads the state its parent reaches in this pass.
NextLife(observed, lastObserved) ==
  LET reaches[n \in Node] ==
        NextLifeCycle(life[n],
                      IF chart.parent[n] = NoParent THEN NoParentState
                      ELSE reaches[chart.parent[n]],
                      ConditionsOf(n, observed, lastObserved),
                      n \notin ownTransitionTaken)
  IN  reaches

\* Mutant: remembers only the transitions of the latest pass.
NextOwnTransitionTakenOfPass(lives) ==
  {n \in Node : lives[n] # ForcedByParent(life[n], ParentState(n, lives))}

NextOwnTransitionTaken(lives) ==
  ownTransitionTaken \union
    {n \in Node : lives[n] # ForcedByParent(life[n], ParentState(n, lives))}

LatestPass ==
  LET observed == NextObservation
      lastObserved == NextLastObservation(observed)
      lives == NextLife(observed, lastObserved)
  IN  [life |-> lives, observation |-> observed, lastObservation |-> lastObserved,
       ownTransitionTaken |-> NextOwnTransitionTaken(lives)]

CurrentState ==
  [life |-> life, observation |-> observation, lastObservation |-> lastObservation,
   ownTransitionTaken |-> ownTransitionTaken]

\* Not compared: whether a node took a transition of its own.
ChangedAnything(pass) ==
  \/ pass.life # life
  \/ pass.observation # observation
  \/ pass.lastObservation # lastObservation

LifeCycleChangesOf(pass) ==
  {[node |-> n, previous |-> life[n], new |-> pass.life[n]] :
     n \in {m \in Node : pass.life[m] # life[m]}}
-----------------------------------------------------------------------------
\* The most passes that may change the statechart within one tick.
DeepestNesting ==
  CHOOSE d \in {chart.depth[n] : n \in Node} : \A n \in Node : chart.depth[n] <= d
PassBudget == PassLimit + PassesPerNestingLevel * DeepestNesting

Init ==
  /\ chart \in Charts
  /\ life = [n \in Node |-> "NOT_STARTED"]
  /\ observation = [n \in Node |-> "UNKNOWN"]
  /\ lastObservation = [n \in Node |-> "UNKNOWN"]
  /\ ownTransitionTaken = {}
  /\ lifeAtCycleStart = life
  /\ tickObservation = [n \in Node |-> NoObservation]
  /\ phase = "rest"
  /\ passesTaken = 0
  /\ visited = {}
  /\ changes = <<>>
  /\ heard = life

RunningNodes == {n \in Node : life[n] = "RUNNING"}
\* The running nodes whose on_tick may return something.
AnsweringNodes == {n \in RunningNodes : chart.onTick[n] # {NoObservation}}

\* The start of settle: every running node is ticked once.
CollectTickObservations ==
  /\ phase = "rest"
  /\ lifeAtCycleStart' = life
  /\ ownTransitionTaken' = {}
  /\ \E answer \in [AnsweringNodes -> ObservationStateValues \union {NoObservation}] :
       /\ \A n \in AnsweringNodes : answer[n] \in chart.onTick[n]
       /\ tickObservation' = [n \in Node |-> IF n \in AnsweringNodes THEN answer[n]
                                            ELSE NoObservation]
  /\ phase' = "settling"
  /\ passesTaken' = 0
  /\ visited' = {}
  /\ UNCHANGED <<chart, life, observation, lastObservation, changes, heard>>

\* An on_tick raises out of the tick before the first pass.
OnTickRaises(n) ==
  /\ phase = "rest"
  /\ n \in RunningNodes
  /\ Raises \in chart.onTick[n]
  /\ lifeAtCycleStart' = life
  /\ ownTransitionTaken' = {}
  /\ phase' = "raised"
  /\ UNCHANGED <<chart, life, observation, lastObservation, tickObservation,
                 passesTaken, visited, changes, heard>>

Settle ==
  /\ phase = "settling"
  /\ passesTaken < PassBudget
  /\ ~ ChangedAnything(LatestPass)
  /\ phase' = "callbacks"
  /\ UNCHANGED <<chart, engine, inputs, passesTaken, visited, changes, heard>>

\* Mutant: the changes of a later pass come before those of an earlier one.
TakeOverLatestPassInReverse ==
  /\ phase = "settling"
  /\ passesTaken < PassBudget
  /\ LET pass == LatestPass
     IN  /\ ChangedAnything(pass)
         /\ pass \notin visited \union {CurrentState}
         /\ changes' = IF pass.life = life THEN changes
                       ELSE <<LifeCycleChangesOf(pass)>> \o changes
         /\ life' = pass.life
         /\ observation' = pass.observation
         /\ lastObservation' = pass.lastObservation
         /\ ownTransitionTaken' = pass.ownTransitionTaken
  /\ visited' = visited \union {CurrentState}
  /\ passesTaken' = passesTaken + 1
  /\ UNCHANGED <<chart, inputs, phase, heard>>

\* Mutant: passes are neither counted nor compared with earlier ones.
TakeOverLatestPassUncounted ==
  /\ phase = "settling"
  /\ LET pass == LatestPass
     IN  /\ ChangedAnything(pass)
         /\ changes' = <<>>
         /\ life' = pass.life
         /\ observation' = pass.observation
         /\ lastObservation' = pass.lastObservation
         /\ ownTransitionTaken' = pass.ownTransitionTaken
  /\ UNCHANGED <<chart, inputs, phase, heard, visited, passesTaken>>

TakeOverLatestPass ==
  /\ phase = "settling"
  /\ passesTaken < PassBudget
  /\ LET pass == LatestPass
     IN  /\ ChangedAnything(pass)
         /\ pass \notin visited \union {CurrentState}
         /\ changes' = IF pass.life = life THEN changes
                       ELSE Append(changes, LifeCycleChangesOf(pass))
         /\ life' = pass.life
         /\ observation' = pass.observation
         /\ lastObservation' = pass.lastObservation
         /\ ownTransitionTaken' = pass.ownTransitionTaken
  /\ visited' = visited \union {CurrentState}
  /\ passesTaken' = passesTaken + 1
  /\ UNCHANGED <<chart, inputs, phase, heard>>

\* The changes settle collected are lost with it: no callback of them runs.
RaiseDoesNotSettle ==
  /\ phase = "settling"
  /\ \/ passesTaken = PassBudget
     \/ LET pass == LatestPass
        IN  /\ ChangedAnything(pass)
            /\ pass \in visited \union {CurrentState}
  /\ phase' = "unsettled"
  /\ changes' = <<>>
  /\ UNCHANGED <<chart, engine, inputs, passesTaken, visited, heard>>

\* LifeCycleChange.run_callback: what the node of a change is told.
Callbacks(change) ==
  IF change.new = "NOT_STARTED" THEN <<"on_reset">>
  ELSE IF change.previous = "NOT_STARTED" /\ change.new = "RUNNING"
    THEN <<"on_start">>
  ELSE IF change.previous = "NOT_STARTED" /\ change.new = "PAUSED"
    THEN <<"on_start", "on_pause">>
  ELSE IF change.previous = "RUNNING" /\ change.new = "PAUSED" THEN <<"on_pause">>
  ELSE IF change.previous = "PAUSED" /\ change.new = "RUNNING" THEN <<"on_unpause">>
  ELSE IF change.previous \in ActiveStates /\ change.new \in TerminalStates
    THEN <<"on_end">>
  ELSE <<>>

\* What a node makes of its callbacks.
Told == [on_reset |-> "NOT_STARTED", on_start |-> "RUNNING",
         on_pause |-> "PAUSED", on_unpause |-> "RUNNING", on_end |-> "ENDED"]

NextChange ==
  CHOOSE c \in Head(changes) : \A d \in Head(changes) : c.node <= d.node

RunCallback ==
  /\ phase = "callbacks"
  /\ changes # <<>>
  /\ LET told == Callbacks(NextChange)
     IN  heard' = IF told = <<>> THEN heard
                  ELSE [heard EXCEPT ![NextChange.node] = Told[told[Len(told)]]]
  /\ changes' = IF Head(changes) = {NextChange} THEN Tail(changes)
                ELSE <<Head(changes) \ {NextChange}>> \o Tail(changes)
  /\ UNCHANGED <<chart, engine, inputs, phase, passesTaken, visited>>

\* A callback raises out of the tick: those after it never run.
CallbackRaises ==
  /\ phase = "callbacks"
  /\ changes # <<>>
  /\ NextChange.node \in chart.callbackRaises
  /\ Callbacks(NextChange) # <<>>
  /\ phase' = "raised"
  /\ changes' = <<>>
  /\ UNCHANGED <<chart, engine, inputs, passesTaken, visited, heard>>

EndTick ==
  /\ phase = "callbacks"
  /\ changes = <<>>
  /\ phase' = "rest"
  /\ UNCHANGED <<chart, engine, inputs, passesTaken, visited, changes, heard>>

\* After a tick raised, the executor finishes the run and ticks no more.
Stopped ==
  /\ phase \in {"raised", "unsettled"}
  /\ UNCHANGED vars

Next ==
  \/ CollectTickObservations
  \/ \E n \in Node : OnTickRaises(n)
  \/ Settle
  \/ TakeOverLatestPass
  \/ RaiseDoesNotSettle
  \/ RunCallback
  \/ CallbackRaises
  \/ EndTick
  \/ Stopped

\* The tick is one synchronous call: once begun, it runs to its end.
Fairness ==
  /\ WF_vars(Settle \/ TakeOverLatestPass \/ RaiseDoesNotSettle)
  /\ WF_vars(RunCallback \/ CallbackRaises \/ EndTick)

Spec == Init /\ [][Next]_vars /\ Fairness
-----------------------------------------------------------------------------
LifeCycleChange ==
  [node : Node, previous : LifeCycleValues, new : LifeCycleValues]

TypeOK ==
  /\ life \in [Node -> LifeCycleValues]
  /\ observation \in [Node -> ObservationStateValues]
  /\ lastObservation \in [Node -> ObservationStateValues]
  /\ lifeAtCycleStart \in [Node -> LifeCycleValues]
  /\ tickObservation \in [Node -> ObservationStateValues \union {NoObservation}]
  /\ ownTransitionTaken \in SUBSET Node
  /\ phase \in {"rest", "settling", "callbacks", "raised", "unsettled"}
  /\ passesTaken \in Nat
  /\ changes \in Seq(SUBSET LifeCycleChange)
  /\ heard \in [Node -> LifeCycleValues \union {"ENDED"}]

\* In every pass of every tick the nodes' states fit together: a child runs
\* only below a running parent, is paused only below a running or paused one,
\* and has not started while its parent has not.  Code between two passes
\* never sees a child outliving its parent.
HierarchyConsistent ==
  \A n \in Node : FitsParent(life[n], ParentState(n, life))

\* A node that was reset in a tick does not start again in it, whichever of
\* its ancestors the reset came from: "it never ends, resets and starts again
\* within one" (cramph/doc/statecharts.md).
NoRestartWithinTick ==
  [][phase = "settling" =>
       \A n \in Node :
         (lifeAtCycleStart[n] # "NOT_STARTED" /\ life[n] = "NOT_STARTED")
           => life'[n] = "NOT_STARTED"]_vars

\* A node that starts in a tick has observed nothing by the end of it, so no
\* condition can act on an observation from before the node ran.
FreshlyStartedObservesUnknown ==
  \A n \in Node :
    (life[n] \in ActiveStates /\ lifeAtCycleStart[n] \notin ActiveStates)
      => observation[n] = "UNKNOWN" /\ lastObservation[n] = "UNKNOWN"

\* A node that ends only of itself ended as its last observation says, and the
\* last observation keeps saying so until the node is reset, however its
\* expression would read after the end.
EndsAsLastObserved ==
  \A n \in Node :
    /\ (life[n] = "SUCCEEDED" /\ chart.condition[n]["SUCCEED"] = ConstFalse)
         => lastObservation[n] = "TRUE"
    /\ (life[n] = "FAILED" /\ chart.condition[n]["FAIL"] = ConstFalse)
         => lastObservation[n] = "FALSE"

\* What a node observed belongs to the life it observed it in: nothing from before
\* its start, and, once it ended, what it ended with (compiled_tick.py, the
\* masks of the observation passes).
ObservationsBelongToTheirLife == FreshlyStartedObservesUnknown /\ EndsAsLastObserved


\* A node that entered the tick paused keeps its observation while it stays
\* running or paused, even when it resumes in the middle of the tick.
PausedKeepsObservation ==
  [][phase = "settling" =>
       \A n \in Node :
         (lifeAtCycleStart[n] = "PAUSED" /\ life[n] \in ActiveStates)
           => observation'[n] = observation[n]]_vars

\* settle stops comparing at the three published states: a pass that leaves
\* them alone also leaves OWN_TRANSITION_TAKEN alone, so the tick has really
\* reached a fixpoint.
QuietPassIsFixpoint ==
  (phase = "settling" /\ ~ ChangedAnything(LatestPass))
    => LatestPass = CurrentState

\* Callbacks reach a node in an order its life cycle allows: on_start before
\* anything else, on_unpause only when paused, on_end once, on_reset never
\* before on_start.
Expects ==
  [on_start |-> {"NOT_STARTED"}, on_pause |-> {"RUNNING"},
   on_unpause |-> {"PAUSED"}, on_end |-> ActiveStates,
   on_reset |-> ActiveStates \union {"ENDED"}]

CallbacksInOrder ==
  (phase = "callbacks" /\ changes # <<>>)
    => /\ Callbacks(NextChange) # <<>>
       /\ heard[NextChange.node] \in Expects[Callbacks(NextChange)[1]]

\* Between ticks every node has heard of exactly the state it is in, so on_tick
\* is only ever called on a node whose on_start was its last word.
CallbacksTellLifeCycle ==
  phase = "rest" =>
    \A n \in Node :
      heard[n] = IF life[n] \in TerminalStates THEN "ENDED" ELSE life[n]

\* The callbacks of a tick tell each node its life cycle, in order and to the end
\* (Statechart.tick), although they run after all passes.
CallbacksFollowLifeCycle == CallbacksInOrder /\ CallbacksTellLifeCycle


\* A tick always comes to an end: it settles and runs its callbacks, or it
\* raises, so the control loop is never blocked by a contradictory chart.
TickEnds == (phase = "settling") ~> (phase \in {"rest", "raised", "unsettled"})

\* What the engine promises about life cycles, whatever the chart is.
Contract == INSTANCE LifeCycleContract
              WITH parent <- chart.parent, spent <- ownTransitionTaken
ImplementsContract == Contract!Spec
=============================================================================
