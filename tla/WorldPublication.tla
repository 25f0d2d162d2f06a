-------------------------- MODULE WorldPublication --------------------------
(***************************************************************************)
(* How the changes of a world leave its process (semantic_digital_twin     *)
(* world.py, the publishing half of adapters/ros/world_synchronizer.py):   *)
(* threads modify the model inside `modify_world', which holds the world   *)
(* lock and defers what is to be published, and write positions, which     *)
(* they announce without any lock.  Whatever leaves does so in the order   *)
(* of `publishing_in_order'.                                               *)
(*                                                                         *)
(* A modification is the set of degrees of freedom it introduces, a        *)
(* position is a number that every write increases.  WorldUpdates carry a  *)
(* modification block or a state; `knows' is not part of them but says     *)
(* how many blocks their thread had seen completed.                        *)
(***************************************************************************)
EXTENDS Integers, Sequences, FiniteSets

CONSTANTS
  Thread,
  NoThread,
  Dof,             \* the degrees of freedom a modification may introduce
  InitialDof,      \* those of the world at the start
  Modifiers,       \* the threads that modify the model
  Writers,         \* the threads that write positions
  Failures,        \* SUBSET {"body", "validation", "mismatch"}: what goes wrong
  MaxNesting, MaxBlocks, MaxWrites

ASSUME WorldAssumption ==
  /\ NoThread \notin Thread
  /\ IsFiniteSet(Dof)
  /\ InitialDof \subseteq Dof
  /\ Modifiers \subseteq Thread /\ Writers \subseteq Thread
  /\ Failures \subseteq {"body", "validation", "mismatch"}
  /\ {MaxNesting, MaxBlocks, MaxWrites} \subseteq Nat

VARIABLES
  lock,            \* World._world_lock: owner and depth
  order,           \* who holds _publication_order_lock
  contexts,        \* how many contexts of modify_world are active
  willBePublished, \* _current_modifications_will_be_published
  beingModified,   \* World.world_is_being_modified
  block,           \* current_model_modification_block
  blocks,          \* model_modification_blocks, and whether each may leave
  position,        \* the positions in World.state
  previous,        \* previous_world_state_data
  pending,         \* pending_publications
  stream,          \* what was published so far
  stage,           \* what each thread is about to do
  update,          \* the update each thread is about to publish
  knows,           \* how many blocks each thread found when it took the lock
  failures         \* what went wrong so far

worldVars == <<block, position>>
managerVars == <<contexts, willBePublished, beingModified, blocks>>
threadVars == <<stage, update, knows>>
vars == <<lock, order, managerVars, worldVars, previous, pending, stream, threadVars,
          failures>>

NoPositions == [d \in {} |-> 0]
ModelUpdate(number) == [block |-> number, positions |-> NoPositions, knows |-> number]
StateUpdate(positions, seen) == [block |-> 0, positions |-> positions, knows |-> seen]
NoUpdate == StateUpdate(NoPositions, 0)

Init ==
  /\ lock = [owner |-> NoThread, depth |-> 0]
  /\ order = NoThread
  /\ contexts = 0 /\ willBePublished = "None" /\ beingModified = FALSE
  /\ block = {} /\ blocks = <<>>
  /\ position = [d \in InitialDof |-> 0]
  /\ previous = position
  /\ pending = <<>> /\ stream = <<>>
  /\ stage = [t \in Thread |-> "ready"]
  /\ update = [t \in Thread |-> NoUpdate]
  /\ knows = [t \in Thread |-> 0]
  /\ failures = {}
-----------------------------------------------------------------------------
Holds(t) == lock.owner = t
CanLock(t) == lock.owner \in {t, NoThread}
Locked(t) == [owner |-> t, depth |-> lock.depth + 1]
Released ==
  [owner |-> IF lock.depth = 1 THEN NoThread ELSE lock.owner, depth |-> lock.depth - 1]

Ready(t) == stage[t] = "ready"
Inside(t) == Holds(t) /\ contexts > 0
Goes(t, next) == stage' = [stage EXCEPT ![t] = next]
Notices(t) == knows' = [knows EXCEPT ![t] = Len(blocks)]
GoesWrong(what) == what \in Failures /\ failures' = failures \union {what}
-----------------------------------------------------------------------------
\* Modifying the model.

Publish == {"yes", "no"}

\* __enter__ of the outermost or of a nested context.
Enter(t, publish) ==
  /\ t \in Modifiers /\ Ready(t) /\ CanLock(t)
  /\ contexts < MaxNesting /\ Len(blocks) < MaxBlocks
  /\ willBePublished \in {"None", publish}
  /\ lock' = Locked(t)
  /\ willBePublished' = publish
  /\ beingModified' = TRUE
  /\ contexts' = contexts + 1
  /\ Notices(t)
  /\ UNCHANGED <<order, blocks, worldVars, previous, pending, stream, stage, update,
                 failures>>

\* A nested context that disagrees about publishing raises, after it took the lock.
EnterMismatching(t, publish) ==
  /\ Inside(t) /\ Ready(t) /\ contexts < MaxNesting
  /\ willBePublished \notin {"None", publish}
  /\ "mismatch" \notin failures /\ GoesWrong("mismatch")
  /\ lock' = Locked(t)
  /\ UNCHANGED <<order, managerVars, worldVars, previous, pending, stream, threadVars>>

AddDof(t, d) ==
  /\ Inside(t) /\ Ready(t)
  /\ d \notin DOMAIN position
  /\ position' = [e \in DOMAIN position \union {d} |-> IF e = d THEN 0 ELSE position[e]]
  /\ block' = block \union {d}
  /\ UNCHANGED <<lock, order, managerVars, previous, pending, stream, threadVars,
                 failures>>

\* The body raises.  The outermost context discards what was deferred and recorded,
\* but not what was done to the world; an outer one may catch the error.
RaiseInBody(t) ==
  /\ Inside(t) /\ Ready(t)
  /\ GoesWrong("body")
  /\ contexts' = contexts - 1
  /\ \/ /\ contexts = 1
        /\ pending' = <<>> /\ block' = {}
        /\ beingModified' = FALSE /\ willBePublished' = "None"
     \/ /\ contexts > 1
        /\ UNCHANGED <<pending, block, beingModified, willBePublished>>
  /\ Goes(t, "releasing")
  /\ UNCHANGED <<lock, order, blocks, position, previous, stream, update, knows>>

ExitNested(t) ==
  /\ Inside(t) /\ Ready(t) /\ contexts > 1
  /\ contexts' = contexts - 1
  /\ Goes(t, "releasing")
  /\ UNCHANGED <<lock, order, willBePublished, beingModified, blocks, worldVars,
                 previous, pending, stream, update, knows, failures>>

\* Mutant: only the block is deferred, not the state that goes with it.
DeferredWithoutState(publish) ==
  IF publish = "no" THEN <<>> ELSE <<ModelUpdate(Len(blocks) + 1)>>

\* on_model_change defers the block, then on_state_change every position.
Deferred(publish) ==
  IF publish = "no" THEN <<>>
  ELSE <<ModelUpdate(Len(blocks) + 1)>>
         \o (IF position = NoPositions THEN <<>>
             ELSE <<StateUpdate(position, Len(blocks) + 1)>>)

\* __exit__ of the outermost context records the block and notifies the callbacks;
\* after them the world may turn out to be invalid.
Commit(t) ==
  /\ Inside(t) /\ Ready(t) /\ contexts = 1
  /\ contexts' = 0 /\ willBePublished' = "None" /\ beingModified' = FALSE
  /\ blocks' = Append(blocks, [dofs |-> block, publish |-> willBePublished])
  /\ block' = {}
  /\ pending' = pending \o Deferred(willBePublished)
  /\ previous' = position
  /\ \/ Goes(t, "claiming") /\ UNCHANGED failures
     \/ Goes(t, "releasing") /\ GoesWrong("validation")
  /\ UNCHANGED <<lock, order, position, stream, update, knows>>

\* Mutant: only the outermost context releases the lock.
ReleaseOutermost(t) ==
  /\ stage[t] = "releasing" /\ order = NoThread
  /\ lock' = IF contexts = 0 THEN Released ELSE lock
  /\ Goes(t, "ready")
  /\ UNCHANGED <<order, managerVars, worldVars, previous, pending, stream, update, knows,
                 failures>>

\* The lock of the world is released under the turn in the stream of publications.
Release(t) ==
  /\ stage[t] = "releasing" /\ order = NoThread
  /\ lock' = Released
  /\ Goes(t, "ready")
  /\ UNCHANGED <<order, managerVars, worldVars, previous, pending, stream, update, knows,
                 failures>>

\* Mutant: the turn is not claimed before the lock is released.
ClaimTurnTooLate(t) ==
  /\ stage[t] = "claiming" /\ order = NoThread
  /\ lock' = Released
  /\ Goes(t, "flushing")
  /\ UNCHANGED <<order, managerVars, worldVars, previous, pending, stream, update, knows,
                 failures>>

ClaimTurn(t) ==
  /\ stage[t] = "claiming" /\ order = NoThread
  /\ order' = t
  /\ lock' = Released
  /\ Goes(t, "flushing")
  /\ UNCHANGED <<managerVars, worldVars, previous, pending, stream, update, knows,
                 failures>>

\* Mutant: the deferred publications are flushed under the lock of the world.
FlushUnderLock(t) ==
  /\ stage[t] = "flushing" /\ CanLock(t)
  /\ stream' = stream \o pending /\ pending' = <<>>
  /\ order' = NoThread
  /\ Goes(t, "ready")
  /\ UNCHANGED <<lock, managerVars, worldVars, previous, update, knows, failures>>

Flush(t) ==
  /\ stage[t] = "flushing"
  /\ stream' = stream \o pending /\ pending' = <<>>
  /\ order' = NoThread
  /\ Goes(t, "ready")
  /\ UNCHANGED <<lock, managerVars, worldVars, previous, update, knows, failures>>
-----------------------------------------------------------------------------
\* Writing positions and announcing them.

WriteState(t, d) ==
  /\ Ready(t) /\ CanLock(t)
  /\ t \in Writers /\ d \in DOMAIN position
  /\ position[d] < MaxWrites
  /\ position' = [position EXCEPT ![d] = @ + 1]
  /\ Notices(t)
  /\ Goes(t, "announcing")
  /\ UNCHANGED <<lock, order, managerVars, block, previous, pending, stream, update,
                 failures>>

\* compute_state_changes: a state of another shape changed everywhere.
Changes ==
  IF Cardinality(DOMAIN previous) # Cardinality(DOMAIN position) THEN position
  ELSE [d \in {e \in DOMAIN position : position[e] # previous[e]} |-> position[d]]

\* notify_state_change, on the thread that wrote.
Announce(t) ==
  /\ stage[t] = "announcing"
  /\ IF Changes = NoPositions
     THEN Goes(t, "ready") /\ UNCHANGED update
     ELSE /\ update' = [update EXCEPT ![t] = StateUpdate(Changes, knows[t])]
          /\ Goes(t, "deciding")
  /\ UNCHANGED <<lock, order, managerVars, worldVars, previous, pending, stream, knows,
                 failures>>

\* _publish_or_defer looks at a flag that any thread may have set.
PublishOrDefer(t) ==
  /\ stage[t] = "deciding"
  /\ Goes(t, IF beingModified THEN "deferring" ELSE "publishing")
  /\ UNCHANGED <<lock, order, managerVars, worldVars, previous, pending, stream, update,
                 knows, failures>>

Defer(t) ==
  /\ stage[t] = "deferring"
  /\ pending' = Append(pending, update[t])
  /\ Goes(t, "remembering")
  /\ UNCHANGED <<lock, order, managerVars, worldVars, previous, stream, update, knows,
                 failures>>

PublishNow(t) ==
  /\ stage[t] = "publishing" /\ order = NoThread
  /\ stream' = Append(stream, update[t])
  /\ Goes(t, "remembering")
  /\ UNCHANGED <<lock, order, managerVars, worldVars, previous, pending, update, knows,
                 failures>>

\* update_previous_world_state reads the positions again.
RememberState(t) ==
  /\ stage[t] = "remembering"
  /\ previous' = position
  /\ update' = [update EXCEPT ![t] = NoUpdate]
  /\ Goes(t, "ready")
  /\ UNCHANGED <<lock, order, managerVars, worldVars, pending, stream, knows, failures>>
-----------------------------------------------------------------------------
\* What a thread does of its own accord, and what it is bound to do then.
Act(t) ==
  \/ \E publish \in Publish : Enter(t, publish) \/ EnterMismatching(t, publish)
  \/ \E d \in Dof : AddDof(t, d) \/ WriteState(t, d)
  \/ RaiseInBody(t)

Leave(t) == ExitNested(t) \/ Commit(t)

Continue(t) ==
  \/ Release(t) \/ ClaimTurn(t) \/ Flush(t)
  \/ Announce(t) \/ PublishOrDefer(t) \/ Defer(t) \/ PublishNow(t) \/ RememberState(t)

Next == \E t \in Thread : Act(t) \/ Leave(t) \/ Continue(t)

\* Every thread runs on until it returns to its caller; only the body of a
\* modification and what comes after is left to the program.
Fairness == \A t \in Thread : WF_vars(Continue(t))

Spec == Init /\ [][Next]_vars /\ Fairness
-----------------------------------------------------------------------------
AtRest == (\A t \in Thread : Ready(t)) /\ contexts = 0

ModelUpdatesIn(updates) == {i \in DOMAIN updates : updates[i].block > 0}
StateUpdatesIn(updates) == DOMAIN updates \ ModelUpdatesIn(updates)

IsUpdate(u) ==
  /\ u.block \in 0..MaxBlocks /\ u.knows \in 0..MaxBlocks
  /\ DOMAIN u.positions \subseteq Dof
  /\ \A d \in DOMAIN u.positions : u.positions[d] \in 0..MaxWrites

TypeOK ==
  /\ lock \in [owner : Thread \union {NoThread}, depth : 0..(MaxNesting + 1)]
  /\ order \in Thread \union {NoThread}
  /\ contexts \in 0..MaxNesting
  /\ willBePublished \in Publish \union {"None"} /\ beingModified \in BOOLEAN
  /\ block \subseteq Dof
  /\ \A k \in DOMAIN blocks : blocks[k] \in [dofs : SUBSET Dof, publish : Publish]
  /\ DOMAIN position \subseteq Dof /\ DOMAIN previous \subseteq DOMAIN position
  /\ \A i \in DOMAIN pending : IsUpdate(pending[i])
  /\ \A i \in DOMAIN stream : IsUpdate(stream[i])
  /\ \A t \in Thread : IsUpdate(update[t])
  /\ stage \in [Thread -> {"ready", "releasing", "claiming", "flushing", "announcing",
                           "deciding", "deferring", "publishing", "remembering"}]
  /\ knows \in [Thread -> 0..MaxBlocks]
  /\ failures \subseteq Failures

\* The lock of the world is taken exactly as often as it will be released again, "as
\* it needs to be released as many times as it was acquired" (__exit__), unless a
\* context raised while it was entered.
LockMatchesContexts ==
  "mismatch" \notin failures =>
    lock.depth = contexts + Cardinality({t \in Thread :
                              Holds(t) /\ stage[t] \in {"releasing", "claiming"}})

\* Receivers replay the blocks: they leave once and in the order they were recorded,
\* whichever thread flushes them, and only if they may leave.
BlocksLeaveInOrder ==
  /\ \A i, j \in ModelUpdatesIn(stream) : i < j => stream[i].block < stream[j].block
  /\ \A i \in ModelUpdatesIn(stream) : blocks[stream[i].block].publish = "yes"

Published(k) == \E i \in DOMAIN stream : stream[i].block = k

\* While nothing went wrong, no block that may leave is left behind.
EveryBlockLeaves ==
  AtRest /\ failures = {} =>
    \A k \in DOMAIN blocks : blocks[k].publish = "yes" => Published(k)

\* "A thread that was waiting for that lock cannot announce the state it then reads
\* before the model change it belongs to has been published" (publishing_in_order).
StateBehindModel ==
  \A i \in StateUpdatesIn(stream), k \in DOMAIN blocks :
    blocks[k].publish = "yes" /\ k <= stream[i].knows
      => \E j \in 1..(i - 1) : stream[j].block = k

\* The same while nothing went wrong.
StateBehindModelUnlessFailed == failures = {} => StateBehindModel

\* The turns of publishing_in_order keep the stream in order, whoever writes, modifies
\* and flushes: blocks leave once, in order and all of them, and a state behind each
\* block that was complete when its thread held the lock.  That is not all _publish_or_defer
\* promises: a state announced while a modification is open is deferred ahead of the
\* block that is still being recorded, although it names what that block adds.
StreamKeepsItsOrder ==
  BlocksLeaveInOrder /\ EveryBlockLeaves /\ StateBehindModelUnlessFailed


CarriesLast(d) ==
  \E i \in DOMAIN stream :
    /\ d \in DOMAIN stream[i].positions /\ stream[i].positions[d] = position[d]
    /\ \A j \in DOMAIN stream : d \in DOMAIN stream[j].positions => j <= i

\* Whoever follows the stream ends up with the positions of this world, if one thread
\* writes them and no block was kept back.
StreamCarriesState ==
  (AtRest /\ failures = {} /\ \A k \in DOMAIN blocks : blocks[k].publish = "yes")
    => \A d \in DOMAIN position :
         position[d] > 0 \/ d \notin InitialDof => CarriesLast(d)

\* No two threads wait for each other's lock: a thread that left its modification or
\* announces a state returns to its caller.
ThreadReturns == \A t \in Thread : ~ Ready(t) ~> Ready(t)
=============================================================================
