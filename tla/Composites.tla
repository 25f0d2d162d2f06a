----------------------------- MODULE Composites -----------------------------
(***************************************************************************)
(* The templates of cramph/composites.py: composite nodes that order,      *)
(* repeat, choose between or watch over their children.  A template is     *)
(* nothing but conditions and an observation expression over its children, *)
(* so it is modelled by what it writes into the chart CompiledTick runs.   *)
(*                                                                         *)
(* A plan says of every node what it is and which children it holds.       *)
(* Joined wires it as it joins a statechart; a child may be inserted after *)
(* that; Compiled turns the plan into the chart.  ComposedSpec ticks that  *)
(* chart until it ended or was cancelled, as                               *)
(* StatechartExecutor.tick_until_end does.                                 *)
(***************************************************************************)
EXTENDS CompiledTick, FiniteSetsExt

CONSTANT Ticks   \* what on_tick of a node without children may return

RunningItsChildrenInTurn == {"Sequence", "TryInOrder"}
EndingItsChildren == RunningItsChildrenInTurn \union {"TryAll", "RepeatUntil"}
Pausing == {"PausedWhileTrue", "PausedUntilTrue"}
Stopping == {"StoppedWhenTrue", "CancelledWhenTrue"}
Monitored == Pausing \union Stopping
Composite == EndingItsChildren \union {"Parallel"} \union Monitored
Terminal == {"EndStatechart", "CancelStatechart"}
\* "Node" stands for every node without children, "Absent" for a number of Node
\* the statechart has no node for.
Kinds == Composite \union Terminal \union {"Node", "Absent"}

\* `children' in order; `minimum' only where minimum_success is given; `ends'
\* how a node without children ends of itself; `watched' the node whose end a
\* terminal node on the top level waits for; `fail' and `success' the conditions
\* written so far.
IsPlan(plan) ==
  /\ plan.kind \in [Node -> Kinds]
  /\ plan.children \in [Node -> Seq(Node)]
  /\ DOMAIN plan.minimum \subseteq Node
  /\ plan.ends \in
       [Node -> SUBSET {"SucceedsOnObservingTrue", "FailsOnObservingFalse"}]
  /\ plan.watched \in [Node -> Node]
  /\ plan.fail \in [Node -> Condition]
  /\ plan.success \in [Node -> Condition]
  \* A node is a child only once: NodeAlreadyAChildError and
  \* NodeAlreadyBelongsToDifferentNodeError.
  /\ \A o, p \in Node :
       \A i \in DOMAIN plan.children[o], j \in DOMAIN plan.children[p] :
         plan.children[o][i] = plan.children[p][j] => o = p /\ i = j
  \* A child is a node, a minimum a count; a template brings its own endings; what
  \* is watched over is there beside what watches over it.
  /\ \A o \in Node : \A i \in DOMAIN plan.children[o] :
       plan.kind[plan.children[o][i]] # "Absent"
  /\ \A n \in DOMAIN plan.minimum : plan.minimum[n] \in Nat
  /\ \A n \in Node : plan.kind[n] \in Composite => plan.ends[n] = {}
  /\ \A n \in Node : plan.kind[n] \in Monitored \union {"RepeatUntil"}
                       => Len(plan.children[n]) >= 2
-----------------------------------------------------------------------------
\* Conditions, in disjunctive normal form.

AllOf(conditions) ==
  {UNION {clause[c] : c \in conditions} :
     clause \in {f \in [conditions -> UNION conditions] :
                   \A c \in conditions : f[c] \in c}}

Not(condition) ==
  AllOf({{{[literal EXCEPT !.holds = ~ @]} : literal \in clause} :
           clause \in condition})

EndedWithoutSuccess(n) == {{Is(n, "IS_FAILED")}, {Is(n, "IS_INTERRUPTED")}}
-----------------------------------------------------------------------------
\* Who holds whom.

Steps(plan, n) == plan.children[n]
ChildrenOf(plan, n) == Range(plan.children[n])

Owner(plan, n) ==
  IF \E o \in Node : n \in ChildrenOf(plan, o)
  THEN CHOOSE o \in Node : n \in ChildrenOf(plan, o) ELSE NoParent

OwnerKind(plan, n) ==
  IF Owner(plan, n) = NoParent THEN "None" ELSE plan.kind[Owner(plan, n)]

IsChild(plan, n, position, kinds) ==
  /\ OwnerKind(plan, n) \in kinds
  /\ position \in DOMAIN Steps(plan, Owner(plan, n))
  /\ Steps(plan, Owner(plan, n))[position] = n

\* The two children of a composite that watches over one of them.  A third one
\* ends the statechart with an exception.
Monitor(plan, n) ==
  Steps(plan, n)[IF plan.kind[n] = "RepeatUntil" THEN 2 ELSE 1]
Watched(plan, n) ==
  Steps(plan, n)[IF plan.kind[n] = "RepeatUntil" THEN 1 ELSE 2]
IsTask(plan, n) == IsChild(plan, n, 1, {"RepeatUntil"})
IsWatched(plan, n, kinds) == IsChild(plan, n, 2, kinds)

Fired(plan, n) == {{Is(Monitor(plan, n), "LAST_OBSERVED_TRUE")}}
-----------------------------------------------------------------------------
\* How a node fails and succeeds.

RequiredSuccesses(plan, n) ==
  IF n \in DOMAIN plan.minimum THEN plan.minimum[n] ELSE Len(Steps(plan, n))

\* Mutant: fails only once one node more than necessary is lost.
CannotArriveAnyMoreLate(plan, n) ==
  UNION {AllOf({EndedWithoutSuccess(m) : m \in group}) :
           group \in kSubset(Len(Steps(plan, n)) - RequiredSuccesses(plan, n) + 2,
                             ChildrenOf(plan, n))}

CannotArriveAnyMore(plan, n) ==
  LET mustEnd == Len(Steps(plan, n)) - RequiredSuccesses(plan, n) + 1
  IN  IF mustEnd <= 0 THEN ConstTrue
      ELSE UNION {AllOf({EndedWithoutSuccess(m) : m \in group}) :
                    group \in kSubset(mustEnd, ChildrenOf(plan, n))}

EndsOfItself(plan, n) ==
  IF plan.kind[n] \in EndingItsChildren
  THEN {"SucceedsOnObservingTrue", "FailsOnObservingFalse"} ELSE plan.ends[n]

InherentFailCondition(plan, n) ==
  (IF "FailsOnObservingFalse" \in EndsOfItself(plan, n)
   THEN {{Is(n, "OBSERVES_FALSE")}} ELSE {})
    \union (IF plan.kind[n] = "Parallel" THEN CannotArriveAnyMore(plan, n) ELSE {})
    \union (IF plan.kind[n] \in Monitored
            THEN EndedWithoutSuccess(Watched(plan, n)) ELSE {})

EffectiveFailCondition(plan, n) ==
  plan.fail[n] \union InherentFailCondition(plan, n)

CanFailOnItsOwn(plan, n) == EffectiveFailCondition(plan, n) # ConstFalse

\* What an owner writes on a child it ends, against what the child can fail by
\* at that moment.
SucceedAtItsGoal(plan, n) ==
  AllOf({{{Is(n, "OBSERVES_TRUE")}}, Not(EffectiveFailCondition(plan, n))})

EndedByItsOwner(plan, n) ==
  /\ \/ OwnerKind(plan, n) \in EndingItsChildren \ {"RepeatUntil"}
     \/ IsTask(plan, n)
  /\ plan.kind[n] \notin Terminal
  /\ "SucceedsOnObservingTrue" \notin EndsOfItself(plan, n)

WiredSuccess(plan, n) ==
  IF EndedByItsOwner(plan, n) THEN SucceedAtItsGoal(plan, n) ELSE ConstFalse
-----------------------------------------------------------------------------
\* A plan joins a statechart, where it may still change until it compiles.

\* What check_children rejects: nothing to hold, or an alternative or a task
\* nothing could move on from.
IsAccepted(plan) ==
  \A n \in Node :
    /\ plan.kind[n] \in Composite => Steps(plan, n) # <<>>
    /\ plan.kind[n] = "TryInOrder" =>
         \A i \in 1..(Len(Steps(plan, n)) - 1) :
           CanFailOnItsOwn(plan, Steps(plan, n)[i])
    /\ plan.kind[n] = "RepeatUntil" => CanFailOnItsOwn(plan, Watched(plan, n))

Joined(plan) == [plan EXCEPT !.success = [n \in Node |-> WiredSuccess(plan, n)]]

\* ControlStructureNode.insert_after: the holder wires its children again.
InsertedAfter(plan, reference, node) ==
  LET holder == Owner(plan, reference)
      steps == Steps(plan, holder)
      position == CHOOSE i \in DOMAIN steps : steps[i] = reference
      inserted ==
        [plan EXCEPT
           !.kind[node] = "Node",
           !.children[holder] = SubSeq(steps, 1, position) \o <<node>>
                                  \o SubSeq(steps, position + 1, Len(steps))]
      rewired == IF plan.kind[holder] \in EndingItsChildren
                 THEN ChildrenOf(inserted, holder) ELSE {}
  IN  [inserted EXCEPT
         !.success = [n \in Node |-> IF n \in rewired THEN WiredSuccess(inserted, n)
                                     ELSE plan.success[n]]]

-----------------------------------------------------------------------------
\* What the templates write on their children.

\* Mutant: reads what the previous step observes instead of its outcome.
StartConditionAfterObservation(plan, owner, previous) ==
  {{Is(previous, IF plan.kind[owner] = "Sequence" THEN "OBSERVES_TRUE"
                 ELSE "OBSERVES_FALSE")}}

StartConditionAfter(plan, owner, previous) ==
  IF plan.kind[owner] = "Sequence" THEN {{Is(previous, "IS_SUCCEEDED")}}
  ELSE EndedWithoutSuccess(previous)

\* Mutant: asks for the outcome of a monitor, which it need not have.
CancelConditionOnOutcome(plan, owner) ==
  {{Is(Monitor(plan, owner), "IS_SUCCEEDED")}}

CancelCondition(plan, owner) == Fired(plan, owner)

\* EndStatechart.when_true and CancelStatechart.when_failed.
EndCondition(plan, n) ==
  IF plan.kind[n] = "EndStatechart"
  THEN {{Is(plan.watched[n], "OBSERVES_TRUE")}, {Is(plan.watched[n], "IS_SUCCEEDED")}}
  ELSE {{Is(plan.watched[n], "IS_FAILED")}}

StartCondition(plan, n) ==
  LET owner == Owner(plan, n)
      position == CHOOSE i \in DOMAIN Steps(plan, owner) : Steps(plan, owner)[i] = n
  IN  CASE plan.kind[n] = "Absent" -> ConstFalse
        [] plan.kind[n] \in Terminal /\ owner = NoParent -> EndCondition(plan, n)
        [] IsChild(plan, n, 3, {"RepeatUntil", "CancelledWhenTrue"})
             -> CancelCondition(plan, owner)
        [] IsTask(plan, n) -> Not(Fired(plan, owner))
        [] OwnerKind(plan, n) \in RunningItsChildrenInTurn /\ position > 1
             -> StartConditionAfter(plan, owner, Steps(plan, owner)[position - 1])
        [] OTHER -> ConstTrue

\* Mutant: a failed task is never tried again.
ResetConditionNever(plan, n) == ConstFalse

ResetCondition(plan, n) ==
  IF IsTask(plan, n)
  THEN AllOf({{{Is(n, "IS_FAILED")}}, Not(Fired(plan, Owner(plan, n)))})
  ELSE ConstFalse

InterruptCondition(plan, n) ==
  IF IsTask(plan, n) \/ IsWatched(plan, n, Stopping)
  THEN Fired(plan, Owner(plan, n)) ELSE ConstFalse

PauseCondition(plan, n) ==
  LET monitor == Monitor(plan, Owner(plan, n))
  IN  IF IsWatched(plan, n, {"PausedWhileTrue"}) THEN {{Is(monitor, "OBSERVES_TRUE")}}
      ELSE IF IsWatched(plan, n, {"PausedUntilTrue"})
        THEN {{IsNot(monitor, "OBSERVES_TRUE")}}
      ELSE ConstFalse
-----------------------------------------------------------------------------
\* What the templates observe.

Observes(value, condition) ==
  [when |-> condition, reads |-> [of |-> "value", value |-> value]]

\* One condition per node: that it is at its goal, counted for a Parallel.
AtItsGoal(n) ==
  {{Is(n, "LAST_OBSERVED_TRUE"), IsNot(n, "IS_FAILED"), IsNot(n, "IS_INTERRUPTED")}}

ObservesSteps(plan, n) ==
  LET last == Steps(plan, n)[Len(Steps(plan, n))]
  IN  <<Observes("FALSE", UNION {EndedWithoutSuccess(m) : m \in ChildrenOf(plan, n)}),
        Observes("TRUE", {{Is(last, "IS_SUCCEEDED")}})>>

\* Mutant: gives up with the first alternative that did not work.
ObservesAnyAlternative(plan, n) ==
  <<Observes("TRUE", {{Is(m, "IS_SUCCEEDED")} : m \in ChildrenOf(plan, n)}),
    Observes("FALSE", UNION {EndedWithoutSuccess(m) : m \in ChildrenOf(plan, n)})>>

ObservesAlternatives(plan, n) ==
  <<Observes("TRUE", {{Is(m, "IS_SUCCEEDED")} : m \in ChildrenOf(plan, n)}),
    Observes("FALSE", AllOf({EndedWithoutSuccess(m) : m \in ChildrenOf(plan, n)}))>>

ObservesEnough(plan, n) ==
  <<Observes("TRUE", UNION {AllOf({AtItsGoal(m) : m \in group}) :
                              group \in kSubset(RequiredSuccesses(plan, n),
                                                ChildrenOf(plan, n))}),
    Observes("FALSE", ConstTrue)>>

ObservesTask(plan, n) ==
  <<Observes("TRUE", {{Is(Watched(plan, n), "IS_SUCCEEDED")}}),
    Observes("FALSE", Fired(plan, n))>>

ObservesUnlessStopped(plan, n) ==
  LET watched == Watched(plan, n)
  IN  <<Observes("TRUE", {{IsNot(watched, "IS_TERMINATED"), Is(watched, "OBSERVES_TRUE")},
                          {Is(watched, "IS_SUCCEEDED")}}),
        Observes("FALSE", Fired(plan, n))>>

ObservationCases(plan, n) ==
  CASE plan.kind[n] = "Sequence" -> ObservesSteps(plan, n)
    [] plan.kind[n] \in {"TryAll", "TryInOrder"} -> ObservesAlternatives(plan, n)
    [] plan.kind[n] = "Parallel" -> ObservesEnough(plan, n)
    [] plan.kind[n] = "RepeatUntil" -> ObservesTask(plan, n)
    [] plan.kind[n] \in Stopping -> ObservesUnlessStopped(plan, n)
    [] plan.kind[n] \in Pausing ->
         <<[when |-> ConstTrue, reads |-> [of |-> "last", node |-> Watched(plan, n)]]>>
    [] plan.kind[n] \in Terminal -> <<Observes("TRUE", ConstTrue)>>
    [] OTHER -> <<[when |-> ConstTrue, reads |-> [of |-> "observation", node |-> n]]>>
-----------------------------------------------------------------------------
\* The chart a plan compiles to.

ConditionsWritten(plan, n) ==
  [START |-> StartCondition(plan, n), PAUSE |-> PauseCondition(plan, n),
   SUCCEED |-> plan.success[n],
   FAIL |-> EffectiveFailCondition(plan, n), RESET |-> ResetCondition(plan, n),
   INTERRUPT |-> InterruptCondition(plan, n)]

Compiled(plan) ==
  LET depth[n \in Node] ==
        IF Owner(plan, n) = NoParent THEN 0 ELSE depth[Owner(plan, n)] + 1
  IN  [plan |-> plan,
       parent |-> [n \in Node |-> Owner(plan, n)],
       depth |-> depth,
       condition |-> [n \in Node |-> ConditionsWritten(plan, n)],
       ends |-> [n \in Node |-> EndsOfItself(plan, n)],
       observation |-> [n \in Node |-> ObservationCases(plan, n)],
       onTick |-> [n \in Node |-> IF plan.kind[n] = "Node" THEN Ticks
                                  ELSE {NoObservation}],
       callbackRaises |-> {}]

ASSUME PlansAssumption ==
  \A c \in Charts : IsPlan(c.plan) /\ c = Compiled(c.plan)
-----------------------------------------------------------------------------
\* StatechartExecutor.tick_until_end: ticks until an EndStatechart observes True
\* or a CancelStatechart that started in the tick raises its exception.
NodesOf(kinds) == {n \in Node : chart.plan.kind[n] \in kinds}

IsEnded == \E n \in NodesOf({"EndStatechart"}) : observation[n] = "TRUE"
IsCancelled == \E n \in NodesOf({"CancelStatechart"}) : heard[n] # "NOT_STARTED"
Over == phase = "rest" /\ (IsEnded \/ IsCancelled)

FinishRun == Over /\ UNCHANGED vars

ComposedNext == (~ Over /\ Next) \/ FinishRun

\* The loop is one thread: until the run is over or raised, a step is always
\* possible and it keeps taking one.  This is weak fairness of Next, with what
\* enables a step spelled out.
KeepsStepping ==
  []<>(Over \/ phase \in {"raised", "unsettled"}) \/ []<><<Next>>_vars

ComposedSpec == Init /\ [][ComposedNext]_vars /\ KeepsStepping
-----------------------------------------------------------------------------
\* What the templates promise, said of the children's life cycles rather than of
\* the conditions that bring it about.

Unsuccessful == {"FAILED", "INTERRUPTED"}
CompositeNodes == NodesOf(Composite)
StepsOf(n) == Steps(chart.plan, n)
Children(n) == ChildrenOf(chart.plan, n)
WatchedBy(n) == Watched(chart.plan, n)
HasFired(n) == lastObservation[Monitor(chart.plan, n)] = "TRUE"
InState(n, states) == {m \in Children(n) : life[m] \in states}

Arrived(n) ==
  LET kind == chart.plan.kind[n]
  IN  \/ kind = "Sequence" /\ life[StepsOf(n)[Len(StepsOf(n))]] = "SUCCEEDED"
      \/ kind \in {"TryAll", "TryInOrder"} /\ InState(n, {"SUCCEEDED"}) # {}
      \/ kind = "Parallel"
           /\ Cardinality({m \in Children(n) : lastObservation[m] = "TRUE"
                                               /\ life[m] \notin Unsuccessful})
                >= RequiredSuccesses(chart.plan, n)
      \/ kind = "RepeatUntil" /\ life[WatchedBy(n)] = "SUCCEEDED"
      \/ kind \in Pausing
           /\ lastObservation[WatchedBy(n)] = "TRUE" /\ life[WatchedBy(n)] \notin Unsuccessful
      \/ kind \in Stopping
           /\ \/ life[WatchedBy(n)] = "SUCCEEDED"
              \/ life[WatchedBy(n)] \in ActiveStates /\ observation[WatchedBy(n)] = "TRUE"

CannotArrive(n) ==
  LET kind == chart.plan.kind[n]
  IN  \/ kind = "Sequence" /\ InState(n, Unsuccessful) # {}
      \/ kind \in {"TryAll", "TryInOrder"} /\ InState(n, Unsuccessful) = Children(n)
      \/ kind = "Parallel"
           /\ Cardinality(Children(n) \ InState(n, Unsuccessful))
                < RequiredSuccesses(chart.plan, n)
      \/ kind = "RepeatUntil" /\ HasFired(n) /\ life[WatchedBy(n)] # "SUCCEEDED"
      \/ kind \in Monitored /\ life[WatchedBy(n)] \in Unsuccessful

\* Steps run one after another: a child of a Sequence has not started unless
\* every child before it succeeded, one of a TryInOrder unless every child
\* before it ended without succeeding, in every pass of every tick and however
\* deep the composite sits below others that pause, repeat or stop it.
StepsRunInTurn ==
  \A n \in NodesOf(RunningItsChildrenInTurn) :
    \A i, j \in DOMAIN StepsOf(n) :
      (i < j /\ life[StepsOf(n)[j]] # "NOT_STARTED") =>
        life[StepsOf(n)[i]] \in IF chart.plan.kind[n] = "Sequence"
                                THEN {"SUCCEEDED"} ELSE Unsuccessful

\* A composite ends the way its children did: it succeeds only in a pass that
\* finds it arrived and fails only in one that finds it can no longer arrive,
\* so what a child observed before it failed or was cut off never counts.
EndsAsItsChildrenDid ==
  [][\A n \in CompositeNodes :
       life'[n] # life[n] =>
         /\ life'[n] = "SUCCEEDED" => Arrived(n)
         /\ life'[n] = "FAILED" => CannotArrive(n)]_vars

\* No owner is held open: when a tick is over, a composite that ran through it
\* is not one that can no longer arrive, and, where it or its owner ends it at
\* its goal, not one that arrived.
NoOwnerIsHeldOpen ==
  phase = "rest" =>
    \A n \in CompositeNodes :
      (life[n] = "RUNNING" /\ lifeAtCycleStart[n] = "RUNNING") =>
        /\ ~ CannotArrive(n)
        /\ Arrived(n) =>
             ~ \/ EndedByItsOwner(chart.plan, n)
               \/ "SucceedsOnObservingTrue" \in chart.ends[n]

\* "A child that fails on the same tick fails" (node.py:2301), although
\* succeeding takes precedence over failing.
FailingChildFails ==
  [][\A n \in Node :
       (EndedByItsOwner(chart.plan, n) /\ life'[n] = "SUCCEEDED" /\ life[n] # "SUCCEEDED")
         => ~ Holds(EffectiveFailCondition(chart.plan, n), life, observation',
                    lastObservation')]_vars

\* Outcomes travel upwards undistorted: from a child's failure to the child, and from the
\* children to their composite (_succeed_children_at_their_goals, build_artifacts).
OutcomesFollowChildren == FailingChildFails /\ EndsAsItsChildrenDid


\* The nodes below a node: its children, and with a node its children.
Below(n) ==
  {m \in Node : \A nodes \in SUBSET Node :
     (Children(n) \subseteq nodes /\ \A k \in nodes : Children(k) \subseteq nodes)
       => m \in nodes}

\* "A composite task starts over as a unit" (composites.py:500): whenever a
\* composite starts, nothing below it remembers an earlier attempt, so neither
\* an old outcome nor the old reading of a monitor decides the new one.
StartsOverAsAUnit ==
  [][\A n \in CompositeNodes :
       (life[n] = "NOT_STARTED" /\ life'[n] # "NOT_STARTED") =>
         \A m \in Below(n) :
           /\ life'[m] \in {"NOT_STARTED"} \union ActiveStates
           /\ lastObservation'[m] = "UNKNOWN"]_vars

\* A node under a pausing monitor does not run on over a tick at whose end the monitor
\* holds it, whether it ran before the tick or started in it; a monitor that has
\* observed nothing holds it as well where it waits for the monitor to turn True.
\* Only a node that resumed in that very tick runs on: it moves by its own conditions
\* once a tick, and a monitor that is a composite may turn True for a single pass.
HeldByItsMonitor ==
  phase = "rest" =>
    \A n \in NodesOf(Pausing) :
      LET monitor == Monitor(chart.plan, n)
          watched == WatchedBy(n)
          holds == IF chart.plan.kind[n] = "PausedWhileTrue"
                   THEN observation[monitor] = "TRUE" ELSE observation[monitor] # "TRUE"
      IN  ~ (life[watched] = "RUNNING" /\ lifeAtCycleStart[watched] # "PAUSED" /\ holds)

\* At the end of a tick every composite is as its template says: not held open beyond its
\* decision, and held back while its monitor says so.
SettledAsWired == NoOwnerIsHeldOpen /\ HeldByItsMonitor


\* A monitor that gives up on a node with an exception ends the run in the tick
\* it fires, even if its composite ends within the same tick; only a composite
\* that something above it ends in that very pass stays silent.
FiredMonitorCancels ==
  [][\A n \in CompositeNodes :
       (/\ chart.plan.kind[n] \in {"RepeatUntil", "CancelledWhenTrue"}
        /\ Len(StepsOf(n)) = 3
        /\ ~ HasFired(n) /\ HasFired(n)' /\ life'[n] = "RUNNING")
         => life'[StepsOf(n)[3]] # "NOT_STARTED"]_vars

\* A failed task is tried again: unless its monitor calls the retrying off or
\* the composite itself stops running, another attempt starts, which takes the
\* reset in one tick and the start in a later one.
OwesAnAttempt(n) ==
  /\ chart.plan.kind[n] = "RepeatUntil"
  /\ life[n] = "RUNNING"
  /\ life[WatchedBy(n)] \in {"NOT_STARTED", "FAILED"}

FailedTaskIsRetried ==
  (\E n \in Node : OwesAnAttempt(n)) ~> ((\A n \in Node : ~ OwesAnAttempt(n)) \/ Over)

\* A plan that succeeded, failed or was at its goal, be it for a single pass,
\* ends the run: one of the nodes watching its root notices.
DecidedPlanEndsTheRun ==
  (\E m \in NodesOf(Terminal) :
     LET watched == chart.plan.watched[m]
     IN  /\ Owner(chart.plan, m) = NoParent
         /\ life[watched] \in {"SUCCEEDED", "FAILED"} \/ observation[watched] = "TRUE")
    ~> Over

\* A plan always goes on to what it owes: the next attempt of a failed task, and the end
\* of the run once it is decided.
PlansGoOn == FailedTaskIsRetried /\ DecidedPlanEndsTheRun

=============================================================================
