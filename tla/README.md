# Verification of the cognitive robot abstract machine

TLA+ models, TLC runs and TLAPS proofs about the parts of the repository that
decide, step by step, what a robot does: the statechart engine `cramph`, the
action server and motion server of Giskard that run a statechart on a robot, and
the worlds of `semantic_digital_twin` that several processes keep in step.

Paths are relative to the repository's root; `cramph` stands for `cramph/src/cramph`,
`.../ros2` for `giskardpy/src/giskardpy/middleware/ros2`.

## 1. The system

The repository is a monorepo of Python packages. A plan of `coraplex` becomes a
statechart of `cramph`; Giskard receives the statechart as the goal of a ROS action,
ticks it in its control loop and commands the robot; the nodes of the statechart read
and change a `World`, and every change of the world is published to the other
processes. While a goal runs its client follows it on a copy, and chooses children for
nodes that ask for one. Around this core stand perception (`robokudo`, `segmind`),
knowledge (`krrood`, `random_events`, `probabilistic_model`) and simulation.

| component | state it keeps | operations | interacts through | hard behaviour | what makes it correct |
|---|---|---|---|---|---|
| Statechart engine, `cramph/compiled_tick.py`, `Statechart.tick` | life cycle, observation, last observation of every node; own transitions of the tick | a tick: tick running nodes, passes to a fixpoint, callbacks | conditions between nodes, callbacks into nodes | order of passes, resets of ancestors, contradictory conditions, callbacks that raise | children fit their parents, nothing restarts within a tick, callbacks in order, the tick ends |
| Composites, `cramph/composites.py` | the conditions written on children | expand, wire children, insert a child | conditions of their children | nesting, outcomes of several passes, monitors that pause or stop, children that join later | a composite ends as its children did, steps take turns, nothing is held open |
| Statechart construction, `cramph/statechart.py`, `compiler.py`, `giskardpy/motion_control.py` | nodes, open blocks, count of compiled nodes, changed flags | `modify`, add, insert, replace, remove, compile again, let nodes choose | callbacks of the executor and of the motion control | blocks in blocks that raise, changes inside a tick, compiling while the robot moves | compiled nodes keep their place, nothing compiles or blocks while the robot moves, a failed block is undone as far as the nodes it found are there |
| Nodes on threads, `cramph/threaded_nodes.py` | result, error, thread | start, compute, join | shared fields without locks | a thread that outlives its start | an observation belongs to the current start |
| Action server, `.../ros2/action_server.py` | current goal, cancel flag, outcome, two queues of one place | goal, cancel and execute callbacks; accept, set outcome, send result | threads of rclpy, motion server | callbacks on several threads, goals superseding each other | every accepted goal is answered once |
| Motion server, `motion_server.py`, `control_loop.py`, `client_presence.py` | current phase, error, watched client | idle cycle, execute, finish, stop | action server, heartbeats, signals | clients that die, cancellation in a cycle, clean up that raises, signals anywhere | the robot rests unless a goal moves it, goals end and their outcome is true |
| Children chosen by the client, `child_choices.py`, `feedback_publisher.py` | received choices by node index; answered requests | ask in feedback, answer, take in order | feedback, a topic, the statechart on both sides | late, lost and repeated choices, choices for an earlier goal, resets | both sides hold the same nodes, a request is answered |
| Client executor, `giskard_client_executor.py`, `state_updates.py` | the client's copy of the chart, the awaited position | send, follow, answer, take over, wait for the world | feedback thread against result thread | feedback after the result, timeouts | the client reads what its goal did |
| World publication, `world.py`, publishing half of `world_synchronizer.py` | locks, nested contexts, recorded blocks, deferred publications, previous state | `modify_world`, announce a state, flush | callbacks, a ROS topic | two locks, lock release before flushing, bodies that raise | blocks leave once and in order, states behind the models that were complete before them |
| World synchronization, receiving half of `world_synchronizer.py`, `world_fetcher.py` | buffered messages, received and applied positions | receive, buffer, apply, fetch | a ROS topic, the thread that owns the world | lost messages, messages that cannot be read or applied, callbacks that raise | positions are applied in order, and nothing counts as applied that may still come |
| World updates around a goal, `world_updates.py` | required and published positions | drain while idle, drain states in motion, await, report | the two halves above, on both sides of a goal | changes under a running motion, waiting for what nobody applies | a goal is built on its client's world and the client reads its end |
| Plan executors, `coraplex/.../plans` | the plan's chart, failures, candidate counts | wrap a plan, run it, ground an action | executors, Giskard | stall detection beside the end of a plan | a plan ends as its nodes did |
| Perception queries, `robokudo/.../annotators/query.py` | query, answer and preemption flag on a blackboard | goal, cancel and execute callbacks | behaviour tree | goals that share the blackboard | an answer reaches the goal that asked |
| Event log, `segmind/.../event_logger.py` | timeline, event queue, callbacks | log, join, reset | detector threads | locks around parts of an event | events leave in the order of the timeline |

The remaining parts (kinematics, collision checking, the QP controller, model
adapters, query language, object-relational mapping, rules, probability, image
processing, physics, applications, packaging) are sequential and rich in data, or
numerical; `PROJECT.json` lists each with its reason. `PROJECT.json` also lists the
hazards of the code at the lines where they bite, the covered ones with their
properties.

## 2. Modules

| module | models | extends |
|---|---|---|
| `LifeCycle` | life cycle and observation values, conditions, the transitions of one node (`cramph/data_types.py`, `node.py`) | |
| `LifeCycleContract` | abstract: what a pass may do to life cycles, whatever the conditions are | `LifeCycle` |
| `CompiledTick` | one tick | `LifeCycle` |
| `Composites` | the templates as charts of `CompiledTick`, ticked until the run is over | `CompiledTick` |
| `Recompiling` | changing a statechart that may be running, and compiling it again | |
| `GoalService` | abstract: goals are executed one at a time, each yields one answer | |
| `ActionServerHandler` | the handover of goals between the threads of rclpy and the motion server | |
| `MotionServer` | the motion server's thread, heartbeats, signals | `ActionServerHandler` |
| `ChildChoices` | children a client chooses for the running goal | |
| `WorldPublication` | how model and state changes leave a process | |
| `WorldSynchronization` | how the changes of other processes reach a world | |
| `GoalWorlds` | the worlds of Giskard and a client around a goal | `WorldSynchronization` |
| `*_proofs` | theorems about the module they name, those of the handover in `MotionServer_proofs` | that module, `TLAPS` |
| `MC*` | charts, plans, goals, threads and worlds to check on | the module they name |

Composition: `MotionServer` runs the handler (every step of it is one of the handler or
leaves it alone), `GoalWorlds` runs the synchronization in the same way, and a composed
plan runs on the engine. `ImplementsGoalService` and `ImplementsContract` are the
refinements of the two abstract specifications.

Operators named as mutants stand before the definition they alter; they are plausible
mistakes that the named property detects and are not part of any specification.

### CompiledTick

The chart is a value: parents, depth, the six conditions of every node, how it ends
of itself, its observation expression, and what its `on_tick` and callbacks may do.
Behaviours start with any chart of `Charts`, and theorems hold for any well-formed
one. The arrays of the engine are variables of their own names; a node is its index.

`CollectTickObservations` is the start of `settle` (`on_tick` of every running
node), `TakeOverLatestPass` one iteration of its loop, `Settle` and
`RaiseDoesNotSettle` its exits, `RunCallback` one step of the loop in
`Statechart.tick`. `LatestPass` is the compiled expression of `_create_pass`:
observations first, then life cycles parents first. `OnTickRaises` and
`CallbackRaises` leave the tick by an exception; the executor then finishes the run,
so nothing follows.

`heard`, which the code does not have, records what callbacks told each node. `visited` holds
the states `settle` compares with.

Left out: choosing children and compiling again within `Statechart.tick` (`Recompiling`
and `ChildChoices` have them), the history, and `CancelStatechart`, which raises after
the callbacks (`Composites` has it).

### Composites

A template has no code of its own that runs in a tick: it writes conditions on its
children and an observation expression on itself. So a plan (what each node is and which
children it holds) is turned into the chart the engine would get: `Joined` writes what a
composite wires when it joins (`WiredSuccess`: an owner ends its child "at its goal"),
`InsertedAfter` lets a child join later, `Compiled` collects the conditions
(`StartCondition`, `ResetCondition`, `InterruptCondition`, `PauseCondition`, `EndCondition`,
one operator per transition kind) and the observation. `ComposedSpec` ticks the chart until
`EndStatechart` or `CancelStatechart` ended the run, as `StatechartExecutor.tick_until_end`
does; what a node without children observes is any answer of `on_tick`.

The properties are stated on life cycles, not on conditions: `Arrived` and `CannotArrive`
say what the outcome of each template depends on. `IsPlan` is what the templates' classes
require: a child is a node, `minimum_success` a count, a composite sets its own endings, and one with
a monitor has the monitor beside what it watches.

`HeldByItsMonitor` exempts one node: one that resumed in that very tick. A monitor that is a
composite reads its children one pass late and may change its answer for a single pass; a node it lets
go in that pass has used up its own transition and runs on to the end of the tick, although
`composites.py:762` has it held "for as long as the monitor observes True". `LateMonitorPlan` is a
chart in which that happens.

Left out: statements (`a(...)`), `replace`, JSON, the limit on ticks; the composite that
chooses its child is in `ChildChoices`.

### Recompiling

A node is a name. Of its conditions the model keeps which nodes they read, which is
what wiring, removing and compiling look at; every composite is wired the way a Sequence
is. Which nodes run is any choice per tick. `Modify`, `CloseBlock` and `AbandonBlock` are
`__enter__` and the two ways out of `__exit__`; `AddNode`, `InsertAtPosition`,
`ReplaceByHolder`, `Replace` are blocks of their own that end in `Exit`, as in the code;
`RemoveNode` is no block. `Exit` of the outermost block compiles if `when_held_still` lets
it, and asks the robot to hold still otherwise (`CompileAgain`, `Wait`). `BeginTick` is
`before_tick` of the motion control and `compile_if_changed`, `LetWaitingNodesChoose`,
`ChooseChild`, `GiveUp` and `FinishChoosing` are the block in which nodes choose, `EndTick` is
`after_tick`, which follows the running nodes only if nobody waits for the robot. An
exception is caught between ticks, may be caught in a callback, and ends the loop elsewhere
(phase `over`).

A block that raises puts replaced nodes back and then drops whatever stands beyond the number
of nodes it began with. Any node may be removed or replaced inside it, those it found included; then
that number is no longer the place where its own nodes begin, and a node it added stays. If the parent
a record names does not list the replacement any more, putting back raises out of `__exit__`
(`Stuck`, `FailToPutBack`) and nothing is dropped. `AbandonBlock` and `FailToPutBack` do both as the code
does. `FindsItsNodes` says that the nodes a block found and those all records name are there; after a block
that was abandoned without them the phase is `torn` and nothing more is modelled.

Filtering a list (`Kept`) and putting back what was replaced (`PutBackFrom`)
are recursive functions, and what is below a node (`Descendants`) is a least set, so that all of
it can be proved about.

Left out: which artifacts of a node are built again, structure copies, checks of the
context. Bounds on what joins: each node once, composites that were handed nothing only
around a node, and at most `MaxLeft` nodes gone once one is removed or replaced.

### ActionServerHandler and MotionServer

`stage[g]` says where the callbacks of goal `g` are. The goal callback has two steps,
`RequestGoal` and `CancelCurrentGoal`, because the goal it finds and the goal it
cancels may differ; goal and cancel callbacks share a mutually exclusive group
(`CallbackGroupFree`), and only `Threads` callbacks run at once. `execute_callback`
is `StopPolling`, `PutGoal`, `GetAnswer`. `send_result` has three steps, since other threads
may look between any two of its assignments. rclpy itself, and the queues of Python,
are modelled from how the code uses them.

`MotionServer` adds the thread that calls the handler. Its `phase` is the line that
thread is at. What a goal does is left open: parsing, waiting for the world, compiling
and every tick may fail, and a motion may end in any cycle or never. `RunCycle` is one
control cycle: the reasons to stop are looked at before the tick. `Breaks` lets an idle
cycle or a clean up raise, and `Signals` bounds how many `KeyboardInterrupt`s hit the thread,
at any phase, the handler of an interrupt included. Time is abstract: a heartbeat is
`recent` or `stale`, and the wait for the client's world can always end by its timeout.

### ChildChoices

One goal runs. Of its chart there are the nodes that choose their child, and the children
in the order they joined; a child is named by the request it was chosen for. `Settle` makes any
move the life cycle allows; `NotHeldStill` and `HasChoiceFor` are the questions asked before a
choice is taken, `ChooseChild` takes it, `EndCycle` reports (`EndCycleRepeatingRequests` repeats
open requests). On the client, `AnswerSome` and `AnswerAll` choose on the copy for the requests it
is ready for, `FollowRaises` fails over a report that does not fit the copy, `Receive` delivers
a choice, and `ReceiveLate` one of the client of a superseded goal. Finding a choice and taking it are separate
sections of the lock, so a choice may be replaced in between.

### WorldPublication

`Enter`, `ExitNested`, `Commit`, `RaiseInBody` and `EnterMismatching` are
`__enter__` and `__exit__` of `modify_world`, split where another thread can come
between: `Commit` under the lock, then `ClaimTurn` (the order lock, and the world lock
released under it) and `Flush`. `Announce`, `PublishOrDefer`, `Defer` or `PublishNow`,
and `RememberState` are `on_state_change`, which reads the flag of the running
modification and the state without a lock.

Abstractions: a modification is the set of degrees of freedom it adds; a position is a
number that only grows; swapping and appending to `pending_publications` are single
steps, as they are single bytecode operations; the release of the order lock is part of
`Flush`; setters that hold the lock while they announce are a subset of the
interleavings here; `batch_state_changes` and pausing a callback are left out.

### WorldSynchronization and GoalWorlds

Each world publishes into a stream of its own; a message adds an entity on a base, removes
one or positions one, and its place in the stream is its sequence number. `SubscriptionCallback`
is one delivery: a message is read against the world as it is (`Deserializable`), then skipped if it
is the world's own, buffered by a world that defers (`Buffer`) or applied at once. What must be there to
read it is what its connection refers to (`References`): an addition, the base; the removal of a branch
(`branch`; `remove_branch_from_world`, or the revert of an addition), which carries the removed connection
along, its parent and its child. Both may raise, and as reading comes before the own messages are
skipped, the removal of a branch raises in the world that published it, where the child is gone. `TakeLeading` moves the
leading messages out of the buffer and `ApplyNext` applies them one by one; one that raises
takes those behind it with it. An exception in a callback ends the spinner thread
(`raised`, then `dead`). `FetchWorld` and `Subscribe` are a world that joins late: it copies what
its source contains, and lacks what its source lost. A full queue drops its oldest message;
`gone` records what a world lost. A body is never its own parent (`Base[e] # e`): `World.validate`
requires a tree. A message may be unreadable because the one it builds on is still on its way
from a third world: the queues of two publishers are independent.

`GoalWorlds` puts the motion server's and the client's threads around it: everything is
applied while idle (`ApplyAll`), states only in motion (`ApplyStateUpdates`), nobody but the thread of the
motion server drains while it awaits the required position (`ApplyOrFail`, `CompileGoal`), a motion
ends for a pending model change (`EndForModelChange`), and `FinishGoal` publishes the halt before it reads the
position to report. `CatchUp` is the client's wait for that position.

Left out: reloading a model from a database, pausing, two threads of one process that
apply, a copy fetched while its source changes, division of the client's patience
(`CatchingUpWithGiskard`), what an idle cycle publishes of its inputs (`motion_server.py:194`), restarts of
Giskard.

## 3. Runs

| run | question | instance | result |
|---|---|---|---|
| `wired` | do passes, outcomes and callbacks keep their promises? | three nodes nested in each other with every choice of two wired conditions, three nodes in two flat nestings with every pair of start, pause and reset conditions | 650 000 states, holds |
| `observing` | do observations that read each other stay in their node's life? does a contradictory chart end its tick? | every combination of three observation expressions over a pausing pair | 9 500 states, holds |
| `composing` | does every template keep its promise, whatever it holds and whatever holds it? does a decided run end? | every template around every template beside a third node, minima 1 and 2, three ways a child ends | 125 000 states, holds |
| `grown` | is nothing held open, also after a node joined later? | a Parallel that gains a node as a step of a Sequence | violated |
| `recompiling` | does a chart stay whole while it changes, and is it only blocked at rest? | five nodes: a sequence with a child, a holder, a motion, a chooser; two blocks of callers, two nodes gone | 788 000 states, holds |
| `abandoned` | does a block that raises, and finds its nodes, leave the statechart as it was? | the same | violated |
| `goal_handover` | is every accepted goal answered, once? | three goals, three threads | 310 000 states, holds |
| `serving` | does the robot rest, do goals end, are outcomes true? | two goals of two clients, two signals, everything may raise | 550 000 states, holds |
| `choosing` | do chart and copy stay in step? is a new request answered? | two nodes, one resettable, one pausable, two children, a late choice | 240 000 states, holds |
| `unanswered_request` | does every waiting node get an answer? | the same | violated |
| `publishing` | do blocks leave once and in order, and states behind the blocks that were complete? does every thread return? | two modifying threads, one writing; two blocks, nesting of two; bodies, validation and nested contexts may raise | 510 000 states, holds |
| `catching` | does nobody build on, change or read a world too early, or wait in vain? | Giskard and a client that joins late, a chain of three entities, three messages, queues of two | 244 000 states, holds |

Several of the properties are conjunctions of named parts, each stated and explained where it
is defined, so that a run asks one question of each part of the system:

| property | parts |
|---|---|
| `CallbacksFollowLifeCycle` | `CallbacksInOrder`, `CallbacksTellLifeCycle` |
| `ObservationsBelongToTheirLife` | `FreshlyStartedObservesUnknown`, `EndsAsLastObserved` |
| `SettledAsWired` | `NoOwnerIsHeldOpen`, `HeldByItsMonitor` |
| `OutcomesFollowChildren` | `FailingChildFails`, `EndsAsItsChildrenDid` |
| `PlansGoOn` | `FailedTaskIsRetried`, `DecidedPlanEndsTheRun` |
| `StatechartStaysWhole` | `TypeOK`, `ParentsListTheirChildren`, `CompiledNodesKeepTheirPlace`, `EveryNodeIsCompiledOrAwaited` |
| `HeldStillForSomething` | `ChangesAreCompiled`, `WaitingNodesChoose` |
| `RobotRestsWhenUnserved` | `RobotMovesOnlyForAGoal`, `StoppedByOneSignal` |
| `UnwantedMotionEnds` | `CanceledGoalEnds`, `SilentClientStopsMotion` |
| `CopyKeepsUpWithChart` | `SamePlaceInChartAndCopy`, `OneChoiceAhead` |
| `StreamKeepsItsOrder` | `BlocksLeaveInOrder`, `EveryBlockLeaves`, `StateBehindModelUnlessFailed` |
| `MessagesAreAccountedFor` | `AppliedInStreamOrder`, `NothingVanishes`, `HasAppliedMeansContainedOrGone` |
| `GoalRunsOnItsWorld` | `GoalIsBuiltOnItsWorld`, `MotionKeepsItsModel` |
| `AwaitedChangesArrive` | `RequiredChangeArrives`, `ReportedChangeArrives` |

The type invariants and `UsesHandler` (every step of the motion server is one of the handler
or leaves it alone) are theorems and no run repeats them, except the types of `Recompiling`,
which `StatechartStaysWhole` includes.

A violated run checks one sentence of the repository's own documentation that the
code does not keep; `PROJECT.json` quotes it and retells the counterexample. In short:

- `grown`: an owner writes on a child it ends "at its goal and not failing", as the child can
  fail at that moment. A node inserted into that child changes how it fails, but only the
  child is wired again, not its owner; the owner then waits for ever.
- `abandoned`: undoing a block drops the nodes it added but keeps the conditions the block
  wrote on the nodes that stay, which go on reading a node that is gone.
- `unanswered_request`: a client answers a request once and tells requests apart by the
  child count, which a node that gave up or was reset asks with again.

Disagreements of code and documentation met on the way that no run of its own is kept for:

- `cramph/compiled_tick.py:497`: a tick whose last allowed pass is the quiet one raises,
  although it settled.
- `.../ros2/action_server.py:180`: a goal that superseded one which just ended cancels
  the goal accepted after it; `:198`: callbacks of two goals wait in one queue, so they may
  swap answers (every waiting callback is owed exactly one, and gets one).
- `.../ros2/motion_server.py:158`: a second signal in the handler of the first leaves the robot
  moving (one never does); `:219`: a goal interrupted by a signal may be answered as succeeded.
- `semantic_digital_twin/.../world.py:278`: a modification that raises clears publications
  another thread deferred and did not flush yet.
- `world_synchronizer.py:601`: a state announced while a modification is open, of another thread or of
  its own, is deferred ahead of the block that is still being recorded, and names the degrees of freedom
  that block adds: the stream is `<<State{d1, d2}, Block{d2}>>`, and the receiver raises
  `StateUpdateContainsUnknownDegreesOfFreedomError` (691-699). It takes no second thread: a setter inside
  `with modify_world()` is enough. `_publish_or_defer` (594-599) says that deferring "keeps a state update
  behind the model update that introduces what it refers to", and the class (459-462) and
  `test_world_synchronizer.py:1714` say that the model comes first. The model reaches these streams; what it
  promises instead is `StreamKeepsItsOrder`. The flag is read without the lock besides, so that a state may be
  deferred after the last flush.
- `world_synchronizer.py:243`: a message is read against the world without what is still buffered, and lost
  if it builds on that. It is also read before the own messages are skipped (255), although the callback is
  said to wrap "by self-skipping": the removal of a branch carries its connection, whose child is gone in the
  world that published it, so it raises there and ends the thread that spins its node.
- `cramph/statechart.py:168`: "If the block raises, the nodes added inside it are dropped again and the
  statechart stays as it was" (133-134, and `cramph/doc/statecharts.md:647`). They are dropped by the number of
  nodes at the start: if the block removed or replaced (with a node that does not hold it) one of an earlier
  time, a node it added stays. If the holder of a replaced node was removed, `put_back` finds nothing to list
  it in place of, raises `StopIteration` out of `__exit__`, and nothing is dropped. The docstring of `replace`
  warns only that the replaced node does not come back.

### Bounds

- Engine: three nodes, a node, its parent and its grandparent, or siblings. A pass relates
  a node to its parent and to the nodes its conditions name; two wired conditions make
  a cycle of causes. `TransitionKinds` and predicates are complete for
  the kinds of transition; predicates are reduced to `OBSERVES_TRUE` and
  `IS_TERMINATED` in the runs. The theorems need none of these bounds.
- `PassLimit` 20, `PassesPerNestingLevel` 2: large enough never to matter for a handful of
  nodes.
- Composites: a composite over two nodes, beside a third one, in every order that matters: a
  template wires only its own children, so what one composite can do to another shows at two
  levels. Nine node numbers, the unused ones absent.
- Recompiling: `MaxModifications` 2 blocks of callers besides the one nodes choose in and
  those of the methods, so that blocks nest and end differently; each node joins once. `MaxLeft` 2 lets a
  sequence leave with its child, or two nodes one by one; the run takes three minutes with it, and
  without it (`MaxLeft` 5, 1.66 million states) every property holds as well.
- Handover: three goals, one being answered, one accepted, one still polling. Two suffice for the
  motion server, whose state is reset between two consecutive goals. Two signals: the one
  that interrupts and the one that interrupts its handler.
- Choices: `MaxChildren` 2 and `MaxResets` 1 per goal, `FeedbackDepth` 1 (later feedback replaces the
  one kept), `LateNode` one node: the shortest histories in which a choice is for an earlier life,
  an earlier goal or out of order.
- Publication: two modifying threads, one writer, two blocks, nesting of two, one write per degree
  of freedom: the shortest histories in which a flush meets another modification and a state.
- Synchronization: `MaxMessages` 3 over all streams and a chain of three entities: a message
  that needs another one, which is buffered or lost, and a third behind it; `QueueDepth` 2.

Deadlock is checked for the engine and for plans (a stopped chart stutters explicitly). The
other systems may come to rest when no client sends anything, when the server is down,
when the run is over, or when a bound is used up.

### Fairness

- Engine: a tick is one synchronous call, so its passes and callbacks are weakly fair.
  Starting a tick is not. `ComposedSpec` adds that the executor ticks on until the run is over
  (`KeepsStepping`, weak fairness of the next-state relation with its enabledness spelled out).
  Nothing makes an observation true: liveness of plans is stated from what was observed.
- Recompiling: the loop ticks, a block of a caller ends, and a node with no child left gives
  up. `ComeToRest` is strongly fair: a controller that follows no node brings the robot to
  rest if it is held still again and again. That is the one assumption about control.
- Handover: the threads of rclpy run, so the steps of an execute callback and of a goal
  callback that began are weakly fair, and so is the motion server. Neither sending nor
  canceling a goal is. `RclpyStep` is fair per goal: weak fairness is enough, because
  a queue of one place is only filled when somebody waits for it.
- Motion server: only what the thread is certain to do (`ServeSurely`). In particular a
  cycle is fair only when there is a reason to stop: nothing makes a motion end.
- Choices: the loop ticks and reports every 0.1 s (`EndCycleRepeatingRequests`), a choice that is sent arrives
  or is lost, and a client that is ready again and again answers (`AnswerAll`, strongly).
- World: a thread that left its modification, or announces, runs on. Nothing makes it
  leave the body of `modify_world`. Messages in a queue are delivered, buffered ones applied
  by the thread that owns the world, and a client that waits looks again. Neither changes,
  goals nor late subscriptions are fair.

## 4. Proofs

TLAPS checks these for every value of the constants that meets the named assumptions;
`PROJECT.json` lists the main theorems with the property each one states.

**Engine** (`CompiledTick_proofs`, from `NodeAssumption`, `ChartsAssumption`,
`LimitAssumption`). The invariant is that the chart is well formed and everything is typed;
`HierarchyConsistent` is inductive beside it. `ParentsFirst` shows that the recursive
definition of the states a pass reaches is well founded over the depth of nodes, hence
that every node reads its parent's new state; everything about passes rests
on it. `NoRestart` needs `ResetsArePinned`: a node that was reset in this
tick either took a transition of its own, which bars it from another, or still has a
parent that holds it. `FreshStart`, `EndsAsObserved` and `PausedNodesKeepObserving` relate an
observation to the life it was made in: a pass computes it before the life cycle changes, so
the proof follows an observation through the pass that starts, ends or resets its node. `CallbacksKeepOrder`
and `NodesKnowTheirLifeCycle` follow a change from the pass that made it through the queue of
callbacks. `TickImplementsContract` maps each pass to a step of
`LifeCycleContract` and everything else to stuttering.

**Composites** (`Composites_proofs`, on top of the engine's lemmas). What the connectives of
conditions mean (`AllOfHolds`, `NotHolds`) is proved once; then `StepsTakeTurns` shows that no
pass starts a step whose predecessor has not ended as its owner waits for, and that a reset
reaches all steps with their owner. `CompositesStartOver` rests on the same: what is below a
composite that did not start is not started either. Three theorems assume that the chart is wired
as its nodes are (`WiredAsTheyAre`), which is proved of every plan as it joined
(`JoinedPlansAreWired`) and is what an insertion breaks (run `grown`). `TemplatesKeepTheirPromises`
puts them together from assumptions on the plans alone:

- `FailingChildrenFail`: a child that fails in the pass in which it would succeed fails.
- `OutcomesComeFromChildren`: what a template observes is what its children's lives and outcomes
  make it (`CompositesObserve`), so it ends when and as they did, for every template and nesting. It
  also assumes `EndedByTemplatesAlone`: no caller wrote a failure of his own on a composite, which
  would end it whatever its children do.
- `CompositesSettle`: a tick ends in a fixpoint (`TicksEndInFixpoints` of the engine), and a node
  that ran when the tick began still has its own transition (`RunningNodesHaveNotMoved`); a
  composite that could end or has to pause would therefore have done so in the last pass. That nothing
  it relates changes afterwards needs that children start with or after their owner
  (`StartTogether`) and what they observe when they start paused (`StartsPaused`).

`FiredMonitorsCancel` holds of every plan: the cancel condition is true in the pass in which the monitor
fires and the node that raises has not started yet.

**Recompiling** (`Recompiling_proofs`). `ControlInv` ties the phase of the ticking thread to the
open blocks and to what was asked of the robot: all callbacks have answered just while nodes
choose, and then the robot is at rest; what waits is waited for by holding still. Nothing in
it looks at the chart, so it holds for every way to change one. `RobotIsHeldStill` and
`OnlyARobotAtRestIsBlocked` follow.

The second part is about the chart itself, from `NodeAssumption` and `HandedAssumption`. What a
filtered list has in it (`KeptMembers`, `KeptOfBoth`, `KeptTwice`) is
proved over the length of the list, by a least counterexample (`LeastOf`, `ListInduction`), and what is put
back record by record the same way from above (`Downwards`). A chart is
`Whole` when parents and children agree and no node is its own ancestor: among any nodes
there is one whose parent is not among them. For each method a lemma says what it makes of a whole
chart (`AddStep`, `InsertStep`, `ChooseStep`, `RemoveStep`, `SubstituteStep`, `WrapStep`): a whole one that
differs from it only in nodes that are new and nodes that leave (`ChartStep`), or one with a node wrapped
(`Wraps`).

That an abandoned block leaves a whole chart is not inductive: it drops the nodes that joined in it, and one
of them may hold an older node by then. `Sound` therefore relates the chart to the open blocks and to the
records of replacements: for each open block, putting back what was replaced since it opened gives every
node of that time its parent and its children again (`Reverts`), each record finds the replacement listed
where it puts the node back (`Relists`), and an inner block began with all that the outer ones began with
(`Nested`). Each way to change the chart, open a block, compile or abandon a block keeps it (`StepIsSound`,
`WrapIsSound`, `OpenIsSound`, `CompiledIsSound`, `AbandonIsSound`).

A removal breaks that for the blocks that found the node, and for the records naming it. `Standing` is what
stays: the chart is whole, what was compiled is in front, every open block still has those of its nodes that are
left within its count (`Drops`), and `Sound` holds for the blocks that find all their nodes
(`FoundBlocks`) if the records find theirs. As no node joins twice, what a block misses it misses for good.
`ChartInv` adds what compiling knows. `ChartStaysWhole` follows, as parents and children may disagree only
in phase `torn`, and so does `AbandonedBlocksGiveBack`: a block never drops a node it found, and gives
everything back, without raising, if its nodes and those of the records are there. Without that premise
the second half is false, by the counterexamples told in section 3. What a node reads is only typed there: an
abandoned block does not give the conditions back (run `abandoned`).

**Handover** (`MotionServer_proofs`, first part, from `HandlerAssumption`). Being owed an
answer is not inductive: it needs that a goal is in at most one place (queue, current,
in sending, answered: `OnePlace`) and what `send_result` has done so far (`Handing`). Each action then moves
one goal from one place to the next. The refinement of `GoalService` reuses it.

**Motion server** (`MotionServer_proofs`, from `ServerAssumption` as well). `Next_Handler`
shows that every step of the server is a step of the handler or leaves it alone, so the
handler's invariant and its refinement carry over without being proved again
(`ServerUsesHandler`, `ServerImplementsGoalService`). The server's own invariant relates
its phase to the handler's goal (`GoalIsCurrent`), the error to the goal it belongs to
(`ErrorIsOfGoal`), the watched client to the goal's client (`WatchIsOfGoal`), and the
moving robot to who will stop it (`RobotIsWatched`). `OutcomesAreTold` follows an outcome from the
end of a motion through the handler's queue to the client (`Telling`), as long as no signal came.

**Choices** (`ChildChoices_proofs`, from `NodeAssumption` and the two after it). `ChoiceInv`:
every choice on its way says where its child stands in the copy, which only grows, and
Giskard adds it at that place or not at all; so chart and copy agree (`ChartFollowsCopy`).
`ClientChoosesOneAhead` adds that a request that was answered has one child for it in the
copy, and that child counts in reports never run ahead of the chart. `OnlyLostChoicesAbort` needs
`InTurn`: choices leave the client in the order of the places they name, a request that was
answered is not asked with again before its choice is taken or lost (`AnsweredInTurn`,
`OneChoiceEach`), and a node takes a choice only if none before it is still received (`TakenInTurn`).
So a choice that does not fit the chart stands behind one that can no longer be taken.

**World publication** (`WorldPublication_proofs`, from `WorldAssumption`). `LockIsOwed` says what the
lock of the world is held for: once for every active context, once for the one being left,
once for one that raised while it was entered; `TheLockMatchesContexts` and the bound on
its depth follow. The disagreeing nested context, which leaves the lock taken, is exempted there. `BlocksLeaveInOrder` is not inductive alone: `Order` adds
that pending publications are recorded, ordered and newer than all that were published
(`Before`), and that an update announced by a writer is a state (`Types`). `BlocksAreFlushed` and
`StatesFollowTheirModel` need that a block which was recorded is on its way (pending, or in
the hands of the thread whose turn it is) and that the turn is held from the
commit to the flush (`OnTheirWay`, `TurnIsHeld`), so that whoever saw a block complete
announces behind it. `StreamsKeepTheirOrder` is the three together. It does not say that a stream can be
replayed: a state may name what a block adds that was still open (section 3). `StreamsCarryTheState` assumes that at most one thread writes (`LoneWriter`;
modifying threads are not limited). What was carried by the stream, is owed by the writer's
running announcement or was brought by a block adds up to the positions of the world
(`Accounted`). The assumption is needed: with two writers TLC finds that one of them copies the
positions after the other wrote and before it announced (`world_synchronizer.py:588`), and the
second write is never published.

**World synchronization** (`WorldSynchronization_proofs`). `SyncInv`: what has a place in a
buffer was published, queues, batch and buffer of a world hold each publisher's messages in
order and beyond what was applied (`MessagesKeepTheirOrder`), and each published
position waits, was applied or is gone (`NoMessageVanishes`). `AppliedPositionsAreFinal` is
what `has_applied` may conclude from both. `WorldInv` adds
what worlds are made of: a world contains its own messages at once and no message that waits for
it (`HistoryOf`), an entity is added once, and a message follows the additions of what it refers to
(`AddedOnce`, `ReferencesAddedFirst`), and
what a world ever met is in it or some message tells why not (`ModelOf`). A world that lost nothing is
then just its messages (`WorldsAreTheirMessages`). For `UnreadableMessagesHaveAReason` a
message is followed back to its publisher, which had all it refers to when it wrote: so that was
there at first or the message adding it was published, and that message is contained, buffered, lost, or on
its way in the queue of a third world. In the publisher's own world only a loss or a removal is left, since
it contains what it wrote and wrote only about what it had. In `GoalWorlds_proofs` every step is one of the synchronization
(`GoalWorldsSynchronize`), so these hold around a goal, and with `Serving` and `DrainsStates` they
give that a goal is built on its client's world, a motion keeps its model and the client
reads the end. `GoalWorldsStaySynchronized` is the three results above for these worlds.

**Only model-checked.** Every liveness property: fairness and ENABLED are beyond the prover.
Every invariant and every action property of a passing run is stated by a theorem. Some of these
assume more than the constants' assumptions: how plans were built (`NothingInserted`,
`NoFailureWrittenOnComposites`) and how many threads write (`LoneWriter`). The runs that pass are
instances of it; what happens otherwise is run `grown` and the counterexample told above.

## 5. Not modelled, and the plan

What is left of the core, and why it is not modelled:

- Nodes on threads (`threaded_nodes.py`): what their threads leave behind is an arbitrary
  observation to the tick, and that a thread of an earlier start may overwrite the outcome of a
  later one is documented there.
- The copy of the client after the result: late feedback and the final states are written by
  two threads without comparing ticks (`giskard_client_executor.py:279`); which value a node of the copy
  ends up with is data the models leave out.
- Reloading a model from a database while a world is modified, and a source that changes while
  it is fetched: the contents of a snapshot would have to be modelled.
- Statements, replacing in a composite, JSON, reports and records: transformations of a
  chart at rest.
- Perception queries, event segmentation and the physics loop meet the core only through
  topics and observations; each is a small concurrent program of its own. Plan executors wrap a
  plan in nodes `Composites` has.

Out of reach: geometry, optimisation, probability and image processing are numerical;
parsers, generators and storage transform data without interleaving; ROS, rclpy and the
simulators are external.

Next: what further theorems could say. `GoalWorlds` and `MotionServer` model the same motion server with
a different depth; a step-by-step refinement of one by the other would make the outcomes told to a
client and the worlds its goals run on one statement. The hazards without a property in `PROJECT.json`
each name what would have to be modelled first.
