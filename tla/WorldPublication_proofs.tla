----------------------- MODULE WorldPublication_proofs -----------------------
(***************************************************************************)
(* What holds of the publication of a world for all threads, nestings and  *)
(* numbers of modifications: its types, that the lock of the world is      *)
(* released as often as it is taken, that blocks leave in order, and that  *)
(* with one writing thread the stream carries the state.                   *)
(***************************************************************************)
EXTENDS WorldPublication, FiniteSetTheorems, SequenceTheorems, TLAPS

Stages == {"ready", "releasing", "claiming", "flushing", "announcing", "deciding",
           "deferring", "publishing", "remembering"}

LockTypes ==
  /\ lock \in [owner : Thread \union {NoThread}, depth : Nat]
  /\ contexts \in 0..MaxNesting
  /\ willBePublished \in Publish \union {"None"}
  /\ stage \in [Thread -> Stages]
  /\ failures \in SUBSET Failures

\* Who left a context of modify_world and has not released the lock for it yet.
Leaving == {t \in Thread : stage[t] \in {"releasing", "claiming"}}
Owed == contexts + (IF Leaving = {} THEN 0 ELSE 1)
                 + (IF "mismatch" \in failures THEN 1 ELSE 0)

\* One thread is inside modify_world or about to leave it; it holds the lock once for
\* every context, for the one it leaves and for one that raised while it was entered.
LockIsOwed ==
  /\ lock.depth = Owed
  /\ lock.owner = NoThread <=> lock.depth = 0
  /\ Leaving \subseteq {lock.owner}
  /\ Leaving # {} => contexts < MaxNesting
  /\ \A t \in Leaving : stage[t] = "claiming" => contexts = 0
  /\ willBePublished = "None" <=> contexts = 0

Locks == LockTypes /\ LockIsOwed
-----------------------------------------------------------------------------
LEMMA Init_Locks == Init => Locks
<1> SUFFICES ASSUME Init PROVE Locks
  OBVIOUS
<1>1. LockTypes
  BY WorldAssumption DEF Init, LockTypes, Publish, Stages
<1>2. Leaving = {}
  BY DEF Init, Leaving
<1>3. QED
  BY <1>1, <1>2 DEF Init, Locks, LockIsOwed, Owed

\* A thread that does not leave a context leaves the set of those that do alone.
LEMMA SameLeaving ==
  ASSUME LockTypes, NEW t \in Thread, NEW next, Goes(t, next),
         stage[t] \notin {"releasing", "claiming"}, next \notin {"releasing", "claiming"}
  PROVE  Leaving' = Leaving
BY DEF LockTypes, Goes, Leaving

LEMMA NowLeaving ==
  ASSUME LockTypes, NEW t \in Thread, NEW next, Goes(t, next),
         next \in {"releasing", "claiming"}
  PROVE  Leaving' = Leaving \union {t}
BY DEF LockTypes, Goes, Leaving

LEMMA NoLongerLeaving ==
  ASSUME LockTypes, NEW t \in Thread, NEW next, Goes(t, next),
         next \notin {"releasing", "claiming"}
  PROVE  Leaving' = Leaving \ {t}
BY DEF LockTypes, Goes, Leaving

LEMMA Next_Locks ==
  ASSUME Locks, [Next]_vars
  PROVE  Locks'
<1> USE WorldAssumption
<1>1. ASSUME NEW t \in Thread, NEW publish \in Publish, Enter(t, publish)
      PROVE  Locks'
  <2>1. LockTypes'
    BY <1>1 DEF Locks, LockTypes, Enter, Locked
  <2>2. Leaving = {} /\ Leaving' = {}
    BY <1>1 DEF Locks, LockTypes, LockIsOwed, Leaving, Enter, Ready, CanLock
  <2>3. LockIsOwed'
    BY <1>1, <2>1, <2>2
       DEF Locks, LockTypes, LockIsOwed, Owed, Enter, Locked, CanLock, Publish
  <2>4. QED
    BY <2>1, <2>3 DEF Locks
<1>2. ASSUME NEW t \in Thread, NEW publish \in Publish, EnterMismatching(t, publish)
      PROVE  Locks'
  <2>1. LockTypes'
    BY <1>2
       DEF Locks, LockTypes, EnterMismatching, Locked, GoesWrong, managerVars, threadVars
  <2>2. Leaving' = Leaving
    BY <1>2 DEF EnterMismatching, threadVars, Leaving
  <2>3. LockIsOwed'
    BY <1>2, <2>1, <2>2
       DEF Locks, LockTypes, LockIsOwed, Owed, EnterMismatching, Locked, GoesWrong, Inside,
           Holds, managerVars, threadVars, Leaving
  <2>4. QED
    BY <2>1, <2>3 DEF Locks
<1>3. ASSUME NEW t \in Thread, RaiseInBody(t)
      PROVE  Locks'
  <2>1. LockTypes'
    BY <1>3 DEF Locks, LockTypes, RaiseInBody, Goes, Stages, GoesWrong, Inside, Publish
  <2>2. Leaving = {} /\ Leaving' = {t} /\ stage'[t] = "releasing"
    BY <1>3 DEF Locks, LockTypes, LockIsOwed, Leaving, RaiseInBody, Goes, Ready, Inside, Holds
  <2>3. LockIsOwed'
    BY <1>3, <2>1, <2>2
       DEF Locks, LockTypes, LockIsOwed, Owed, RaiseInBody, GoesWrong, Inside, Holds
  <2>4. QED
    BY <2>1, <2>3 DEF Locks
<1>4. ASSUME NEW t \in Thread, ExitNested(t)
      PROVE  Locks'
  <2>1. LockTypes'
    BY <1>4 DEF Locks, LockTypes, ExitNested, Goes, Stages
  <2>2. Leaving = {} /\ Leaving' = {t} /\ stage'[t] = "releasing"
    BY <1>4 DEF Locks, LockTypes, LockIsOwed, Leaving, ExitNested, Goes, Ready, Inside, Holds
  <2>3. LockIsOwed'
    BY <1>4, <2>1, <2>2
       DEF Locks, LockTypes, LockIsOwed, Owed, ExitNested, Inside, Holds
  <2>4. QED
    BY <2>1, <2>3 DEF Locks
<1>5. ASSUME NEW t \in Thread, Commit(t)
      PROVE  Locks'
  <2>1. LockTypes'
    <3>1. stage' \in [Thread -> Stages]
      BY <1>5 DEF Locks, LockTypes, Commit, Goes, Stages
    <3>2. failures' \in SUBSET Failures
      BY <1>5 DEF Locks, LockTypes, Commit, GoesWrong
    <3>3. QED
      BY <1>5, <3>1, <3>2 DEF Locks, LockTypes, Commit
  <2>2. Leaving = {} /\ Leaving' = {t}
    BY <1>5 DEF Locks, LockTypes, LockIsOwed, Leaving, Commit, Goes, Ready, Inside, Holds
  <2>3. LockIsOwed'
    BY <1>5, <2>1, <2>2
       DEF Locks, LockTypes, LockIsOwed, Owed, Commit, GoesWrong, Inside, Holds
  <2>4. QED
    BY <2>1, <2>3 DEF Locks
<1>6. ASSUME NEW t \in Thread, Release(t) \/ ClaimTurn(t)
      PROVE  Locks'
  <2>1. Leaving = {t} /\ lock.owner = t /\ lock.depth >= 1 /\ lock' = Released
    BY <1>6 DEF Locks, LockTypes, LockIsOwed, Leaving, Owed, Release, ClaimTurn
  <2>2. LockTypes'
    <3>1. stage' \in [Thread -> Stages]
      BY <1>6 DEF Locks, LockTypes, Release, ClaimTurn, Goes, Stages
    <3>2. lock' \in [owner : Thread \union {NoThread}, depth : Nat]
      BY <2>1 DEF Locks, LockTypes, Released
    <3>3. UNCHANGED <<contexts, willBePublished, failures>>
      BY <1>6 DEF Release, ClaimTurn, managerVars
    <3>4. QED
      BY <3>1, <3>2, <3>3 DEF Locks, LockTypes
  <2>3. Leaving' = {}
    BY <1>6, <2>1, NoLongerLeaving DEF Locks, Release, ClaimTurn
  <2>4. LockIsOwed'
    <3>1. UNCHANGED <<contexts, willBePublished, failures>>
      BY <1>6 DEF Release, ClaimTurn, managerVars
    <3>2. Owed \in Nat /\ Owed' = Owed - 1
      BY <2>1, <2>3, <3>1 DEF Locks, LockTypes, Owed
    <3>3. lock'.depth = Owed' /\ (lock'.owner = NoThread <=> lock'.depth = 0)
      BY <2>1, <3>2 DEF Locks, LockTypes, LockIsOwed, Released
    <3>4. QED
      BY <2>3, <3>1, <3>3 DEF Locks, LockIsOwed
  <2>5. QED
    BY <2>2, <2>4 DEF Locks
<1>7. ASSUME NEW t \in Thread,
             \/ \E d \in Dof : AddDof(t, d) \/ WriteState(t, d)
             \/ Flush(t) \/ Announce(t) \/ PublishOrDefer(t) \/ Defer(t) \/ PublishNow(t)
             \/ RememberState(t)
      PROVE  Locks'
  <2>1. UNCHANGED <<lock, contexts, willBePublished, failures>>
    BY <1>7
       DEF AddDof, WriteState, Flush, Announce, PublishOrDefer, Defer, PublishNow,
           RememberState, managerVars, threadVars
  <2>2. /\ stage' \in [Thread -> Stages]
        /\ Leaving' = Leaving
        /\ \A s \in Leaving : stage'[s] = stage[s]
    BY <1>7
       DEF Locks, LockTypes, Stages, Leaving, AddDof, WriteState, Flush, Announce,
           PublishOrDefer, Defer, PublishNow, RememberState, Goes, Ready, threadVars
  <2>3. QED
    BY <2>1, <2>2 DEF Locks, LockTypes, LockIsOwed, Owed
<1>8. CASE UNCHANGED vars
  BY <1>8 DEF Locks, LockTypes, LockIsOwed, Owed, Leaving, vars, managerVars, threadVars
<1>9. QED
  BY <1>1, <1>2, <1>3, <1>4, <1>5, <1>6, <1>7, <1>8 DEF Next, Act, Leave, Continue

LEMMA Spec_Locks == Spec => []Locks
BY Init_Locks, Next_Locks, PTL DEF Spec

\* The lock of the world is taken once for every context of modify_world that is
\* active or being left, unless a context raised while it was entered (__enter__ and
\* __exit__), for every number of threads, nestings and failures.
THEOREM TheLockMatchesContexts == Spec => []LockMatchesContexts
<1>1. ASSUME Locks PROVE LockMatchesContexts
  <2>1. {t \in Thread : Holds(t) /\ stage[t] \in {"releasing", "claiming"}} = Leaving
    BY <1>1 DEF Locks, LockIsOwed, Leaving, Holds
  <2>2. CASE Leaving = {}
    BY <1>1, <2>1, <2>2, FS_EmptySet
       DEF Locks, LockTypes, LockIsOwed, Owed, LockMatchesContexts
  <2>3. CASE Leaving = {lock.owner}
    BY <1>1, <2>1, <2>3, FS_Singleton
       DEF Locks, LockTypes, LockIsOwed, Owed, LockMatchesContexts
  <2>4. QED
    BY <1>1, <2>2, <2>3 DEF Locks, LockIsOwed
<1>2. QED
  BY <1>1, Spec_Locks, PTL
-----------------------------------------------------------------------------
\* The remaining types: positions of some degrees of freedom, updates, and blocks.
Positions == UNION {[dofs -> 0..MaxWrites] : dofs \in SUBSET Dof}
Update == [block : 0..MaxBlocks, positions : Positions, knows : 0..MaxBlocks]
Block == [dofs : SUBSET Dof, publish : Publish]

Types ==
  /\ order \in Thread \union {NoThread}
  /\ beingModified \in BOOLEAN
  /\ block \subseteq Dof
  /\ blocks \in Seq(Block) /\ Len(blocks) <= MaxBlocks
  /\ contexts > 0 => Len(blocks) < MaxBlocks
  /\ position \in Positions /\ previous \in Positions
  /\ DOMAIN previous \subseteq DOMAIN position
  /\ pending \in Seq(Update) /\ stream \in Seq(Update)
  /\ update \in [Thread -> Update]
  /\ \A t \in Thread : update[t].block = 0
  /\ knows \in [Thread -> 0..MaxBlocks]

LEMMA PositionsOf ==
  ASSUME NEW p \in Positions
  PROVE  /\ p = [d \in DOMAIN p |-> p[d]]
         /\ DOMAIN p \subseteq Dof
         /\ \A d \in DOMAIN p : p[d] \in 0..MaxWrites
BY DEF Positions

LEMMA ArePositions ==
  ASSUME NEW dofs \in SUBSET Dof, NEW p \in [dofs -> 0..MaxWrites]
  PROVE  p \in Positions
BY DEF Positions

LEMMA ChangesArePositions ==
  ASSUME position \in Positions
  PROVE  Changes \in Positions
<1> DEFINE Changed == {e \in DOMAIN position : position[e] # previous[e]}
<1>1. [d \in Changed |-> position[d]] \in [Changed -> 0..MaxWrites] /\ Changed \subseteq Dof
  BY PositionsOf
<1>2. QED
  BY <1>1, ArePositions DEF Changes

LEMMA Init_Types == Init => Types
<1> SUFFICES ASSUME Init PROVE Types
  OBVIOUS
<1> USE WorldAssumption DEF Init
<1>1. position \in Positions /\ NoPositions \in Positions
  <2>1. position \in [InitialDof -> 0..MaxWrites] /\ InitialDof \in SUBSET Dof
    OBVIOUS
  <2>2. NoPositions \in [{} -> 0..MaxWrites] /\ {} \in SUBSET Dof
    BY DEF NoPositions
  <2>3. QED
    BY <2>1, <2>2, ArePositions
<1>2. NoUpdate \in Update /\ NoUpdate.block = 0
  BY <1>1 DEF NoUpdate, StateUpdate, Update
<1>3. /\ blocks \in Seq(Block) /\ Len(blocks) <= MaxBlocks /\ contexts = 0
      /\ pending \in Seq(Update) /\ stream \in Seq(Update)
  OBVIOUS
<1>4. update \in [Thread -> Update] /\ \A t \in Thread : update[t].block = 0
  BY <1>2
<1>5. knows \in [Thread -> 0..MaxBlocks]
  OBVIOUS
<1>6. /\ order \in Thread \union {NoThread} /\ beingModified \in BOOLEAN /\ block \subseteq Dof
      /\ previous = position
  OBVIOUS
<1> HIDE DEF Init
<1>7. QED
  BY <1>1, <1>3, <1>4, <1>5, <1>6 DEF Types

\* What a modification defers, typed.
LEMMA DeferredAreUpdates ==
  ASSUME Types, contexts > 0, NEW publish
  PROVE  /\ <<ModelUpdate(Len(blocks) + 1)>> \in Seq(Update)
         /\ <<StateUpdate(position, Len(blocks) + 1)>> \in Seq(Update)
         /\ Deferred(publish) \in Seq(Update)
<1> USE WorldAssumption
<1>1. Len(blocks) + 1 \in 1..MaxBlocks
  BY DEF Types
<1>2. NoPositions \in Positions
  <2>1. NoPositions \in [{} -> 0..MaxWrites] /\ {} \in SUBSET Dof
    BY DEF NoPositions
  <2>2. QED
    BY <2>1, ArePositions
<1>3. ModelUpdate(Len(blocks) + 1) \in Update
  BY <1>1, <1>2 DEF ModelUpdate, Update
<1>4. StateUpdate(position, Len(blocks) + 1) \in Update
  BY <1>1 DEF StateUpdate, Update, Types
<1>5. <<ModelUpdate(Len(blocks) + 1)>> \in Seq(Update)
      /\ <<StateUpdate(position, Len(blocks) + 1)>> \in Seq(Update)
      /\ <<>> \in Seq(Update)
  BY <1>3, <1>4
<1>6. QED
  BY <1>5, ConcatProperties DEF Deferred

LEMMA Next_Types ==
  ASSUME Types, LockTypes, LockIsOwed, [Next]_vars
  PROVE  Types'
<1> USE WorldAssumption
<1>1. ASSUME NEW t \in Thread, NEW publish \in Publish, Enter(t, publish)
      PROVE  Types'
  <2>1. Len(blocks) < MaxBlocks /\ Len(blocks) \in Nat
    BY <1>1 DEF Enter, Types
  <2>2. knows' \in [Thread -> 0..MaxBlocks]
    BY <1>1, <2>1 DEF Enter, Notices, Types
  <2>3. QED
    BY <1>1, <2>1, <2>2 DEF Enter, Types, worldVars
<1>2. ASSUME NEW t \in Thread, NEW d \in Dof, AddDof(t, d)
      PROVE  Types'
  <2>1. position' \in Positions /\ DOMAIN position \subseteq DOMAIN position'
    <3>1. position' \in [DOMAIN position \union {d} -> 0..MaxWrites]
      BY <1>2, PositionsOf DEF AddDof, Types
    <3>2. DOMAIN position \union {d} \in SUBSET Dof
      BY PositionsOf DEF Types
    <3>3. QED
      BY <3>1, <3>2, ArePositions
  <2>2. QED
    BY <1>2, <2>1 DEF AddDof, Types, managerVars, threadVars
<1>3. ASSUME NEW t \in Thread, RaiseInBody(t)
      PROVE  Types'
  <2>1. contexts' > 0 => contexts > 0
    BY <1>3 DEF RaiseInBody, LockTypes
  <2>2. pending' \in Seq(Update) /\ block' \subseteq Dof /\ beingModified' \in BOOLEAN
    <3>1. <<>> \in Seq(Update)
      OBVIOUS
    <3>2. QED
      BY <1>3, <3>1 DEF RaiseInBody, Types
  <2>3. QED
    BY <1>3, <2>1, <2>2 DEF RaiseInBody, Types
<1>4. ASSUME NEW t \in Thread, ExitNested(t)
      PROVE  Types'
  <2>1. contexts' > 0 => contexts > 0
    BY <1>4 DEF ExitNested, LockTypes
  <2>2. QED
    BY <1>4, <2>1 DEF ExitNested, Types, worldVars
<1>5. ASSUME NEW t \in Thread, Commit(t)
      PROVE  Types'
  <2>1. [dofs |-> block, publish |-> willBePublished] \in Block
    BY <1>5 DEF Commit, Types, Block, LockTypes, LockIsOwed
  <2>2. blocks' \in Seq(Block) /\ Len(blocks') = Len(blocks) + 1
    BY <1>5, <2>1, AppendProperties DEF Commit, Types
  <2>3. Len(blocks) < MaxBlocks /\ contexts' = 0 /\ contexts > 0
    BY <1>5 DEF Commit, Types
  <2>4. pending' \in Seq(Update)
    BY <1>5, <2>3, DeferredAreUpdates, ConcatProperties DEF Commit, Types
  <2>5. Len(blocks') <= MaxBlocks
    BY <2>2, <2>3 DEF Types
  <2>6. /\ UNCHANGED <<order, position, stream, update, knows>>
        /\ block' = {} /\ beingModified' = FALSE /\ previous' = position
    BY <1>5 DEF Commit
  <2>7. /\ order' \in Thread \union {NoThread} /\ beingModified' \in BOOLEAN /\ block' \subseteq Dof
        /\ position' \in Positions /\ previous' \in Positions
        /\ DOMAIN previous' \subseteq DOMAIN position'
    BY <2>6 DEF Types
  <2>8. /\ stream' \in Seq(Update) /\ update' \in [Thread -> Update]
        /\ \A s \in Thread : update'[s].block = 0
        /\ knows' \in [Thread -> 0..MaxBlocks]
    BY <2>6 DEF Types
  <2>9. contexts' > 0 => Len(blocks') < MaxBlocks
    BY <2>3
  <2>10. QED
    BY <2>2, <2>4, <2>5, <2>7, <2>8, <2>9 DEF Types
<1>6. ASSUME NEW t \in Thread, Release(t)
      PROVE  Types'
  BY <1>6 DEF Release, Types, managerVars, worldVars
<1>7. ASSUME NEW t \in Thread, ClaimTurn(t)
      PROVE  Types'
  BY <1>7 DEF ClaimTurn, Types, managerVars, worldVars
<1>8. ASSUME NEW t \in Thread, Flush(t)
      PROVE  Types'
  <2>1. stream' \in Seq(Update) /\ pending' \in Seq(Update)
    BY <1>8, ConcatProperties DEF Flush, Types
  <2>2. QED
    BY <1>8, <2>1 DEF Flush, Types, managerVars, worldVars
<1>9. ASSUME NEW t \in Thread, NEW d \in Dof, WriteState(t, d)
      PROVE  Types'
  <2>1. position' \in Positions /\ DOMAIN position' = DOMAIN position
    <3>1. position' \in [DOMAIN position -> 0..MaxWrites]
      BY <1>9, PositionsOf DEF WriteState, Types
    <3>2. QED
      BY <3>1, PositionsOf, ArePositions DEF Types
  <2>2. Len(blocks) \in 0..MaxBlocks
    BY DEF Types
  <2>3. knows' \in [Thread -> 0..MaxBlocks]
    BY <1>9, <2>2 DEF WriteState, Notices, Types
  <2>4. QED
    BY <1>9, <2>1, <2>3 DEF WriteState, Types, managerVars
<1>10. ASSUME NEW t \in Thread, Announce(t)
       PROVE  Types'
  <2>1. StateUpdate(Changes, knows[t]) \in Update /\ StateUpdate(Changes, knows[t]).block = 0
    BY ChangesArePositions DEF StateUpdate, Update, Types
  <2>2. update' \in [Thread -> Update] /\ \A s \in Thread : update'[s].block = 0
    BY <1>10, <2>1 DEF Announce, Types
  <2>3. QED
    BY <1>10, <2>2 DEF Announce, Types, managerVars, worldVars
<1>11. ASSUME NEW t \in Thread, Defer(t)
       PROVE  Types'
  <2>1. pending' \in Seq(Update)
    BY <1>11, AppendProperties DEF Defer, Types
  <2>2. QED
    BY <1>11, <2>1 DEF Defer, Types, managerVars, worldVars
<1>12. ASSUME NEW t \in Thread, PublishNow(t)
       PROVE  Types'
  <2>1. stream' \in Seq(Update)
    BY <1>12, AppendProperties DEF PublishNow, Types
  <2>2. QED
    BY <1>12, <2>1 DEF PublishNow, Types, managerVars, worldVars
<1>13. ASSUME NEW t \in Thread, RememberState(t)
       PROVE  Types'
  <2>1. NoUpdate \in Update /\ NoUpdate.block = 0
    <3>1. NoPositions \in [{} -> 0..MaxWrites] /\ {} \in SUBSET Dof
      BY DEF NoPositions
    <3>2. NoPositions \in Positions
      BY <3>1, ArePositions
    <3>3. QED
      BY <3>2 DEF NoUpdate, StateUpdate, Update
  <2>2. update' \in [Thread -> Update] /\ \A s \in Thread : update'[s].block = 0
    BY <1>13, <2>1 DEF RememberState, Types
  <2>3. QED
    BY <1>13, <2>2 DEF RememberState, Types, managerVars, worldVars
<1>14. CASE UNCHANGED vars
  BY <1>14 DEF Types, vars, managerVars, worldVars, threadVars
<1>15. ASSUME NEW t \in Thread,
              PublishOrDefer(t) \/ \E publish \in Publish : EnterMismatching(t, publish)
       PROVE  Types'
  BY <1>15 DEF PublishOrDefer, EnterMismatching, Types, managerVars, worldVars, threadVars
<1>16. QED
  BY <1>1, <1>2, <1>3, <1>4, <1>5, <1>6, <1>7, <1>8, <1>9, <1>10, <1>11, <1>12, <1>13, <1>14,
     <1>15 DEF Next, Act, Leave, Continue

LEMMA Spec_Types == Spec => [](Locks /\ Types)
<1>1. Init => Locks /\ Types
  BY Init_Locks, Init_Types
<1>2. (Locks /\ Types) /\ [Next]_vars => (Locks /\ Types)'
  BY Next_Locks, Next_Types DEF Locks
<1>3. QED
  BY <1>1, <1>2, PTL DEF Spec

\* Every variable keeps its type: among them, the lock is never held more often than a
\* context more than may be nested, and the positions remembered as announced are of
\* degrees of freedom the world has.
THEOREM TypesHold == Spec => []TypeOK
<1>1. ASSUME Locks, Types PROVE TypeOK
  <2> USE WorldAssumption
  <2>1. lock \in [owner : Thread \union {NoThread}, depth : 0..(MaxNesting + 1)]
    <3>1. Owed \in 0..(MaxNesting + 1)
      BY <1>1 DEF Locks, LockTypes, LockIsOwed, Owed
    <3>2. QED
      BY <1>1, <3>1 DEF Locks, LockTypes, LockIsOwed
  <2>2. \A u \in Update : IsUpdate(u)
    BY PositionsOf DEF IsUpdate, Update
  <2>3. /\ \A i \in DOMAIN pending : IsUpdate(pending[i])
        /\ \A i \in DOMAIN stream : IsUpdate(stream[i])
        /\ \A t \in Thread : IsUpdate(update[t])
    BY <1>1, <2>2 DEF Types
  <2>4. \A k \in DOMAIN blocks : blocks[k] \in [dofs : SUBSET Dof, publish : Publish]
    <3>1. \A k \in DOMAIN blocks : blocks[k] \in Block
      BY <1>1 DEF Types
    <3>2. QED
      BY <3>1 DEF Block
  <2>5. DOMAIN position \subseteq Dof /\ DOMAIN previous \subseteq DOMAIN position
    BY <1>1, PositionsOf DEF Types
  <2>6. QED
    BY <1>1, <2>1, <2>3, <2>4, <2>5 DEF Locks, LockTypes, Types, TypeOK, Stages
<1>2. QED
  BY <1>1, Spec_Types, PTL
-----------------------------------------------------------------------------
\* The blocks of a sequence of updates, in the order they were recorded.
Ordered(updates) ==
  \A i, j \in ModelUpdatesIn(updates) : i < j => updates[i].block < updates[j].block

\* They were recorded, and may leave.
Recorded(updates) ==
  \A i \in ModelUpdatesIn(updates) :
    updates[i].block \in DOMAIN blocks /\ blocks[updates[i].block].publish = "yes"

Before(first, second) ==
  \A i \in ModelUpdatesIn(first), j \in ModelUpdatesIn(second) : first[i].block < second[j].block

\* What is deferred comes after all that was published, whoever flushes it.
Order ==
  /\ Ordered(stream) /\ Recorded(stream)
  /\ Ordered(pending) /\ Recorded(pending)
  /\ Before(stream, pending)

LEMMA BlocksOfConcatenation ==
  ASSUME NEW first \in Seq(Update), NEW second \in Seq(Update)
  PROVE  \A k \in ModelUpdatesIn(first \o second) :
           \/ /\ k \in ModelUpdatesIn(first) /\ (first \o second)[k] = first[k]
              /\ k \in 1..Len(first)
           \/ /\ k - Len(first) \in ModelUpdatesIn(second)
              /\ (first \o second)[k] = second[k - Len(first)]
              /\ k > Len(first)
<1>1. /\ DOMAIN (first \o second) = 1..(Len(first) + Len(second))
      /\ \A k \in 1..(Len(first) + Len(second)) :
           (first \o second)[k] = IF k <= Len(first) THEN first[k] ELSE second[k - Len(first)]
  BY ConcatProperties
<1>2. QED
  BY <1>1 DEF ModelUpdatesIn

\* Ordered sequences of updates may be put one behind the other.
LEMMA OrderedConcatenation ==
  ASSUME NEW first \in Seq(Update), NEW second \in Seq(Update),
         Ordered(first), Ordered(second), Before(first, second)
  PROVE  Ordered(first \o second)
<1> DEFINE both == first \o second
<1> SUFFICES ASSUME NEW i \in ModelUpdatesIn(both), NEW j \in ModelUpdatesIn(both), i < j
             PROVE  both[i].block < both[j].block
  BY DEF Ordered
<1>1. Len(first) \in Nat /\ i \in Nat /\ j \in Nat
  BY ConcatProperties DEF ModelUpdatesIn
<1>2. CASE i \in ModelUpdatesIn(first) /\ both[i] = first[i] /\ i \in 1..Len(first)
  BY <1>1, <1>2, BlocksOfConcatenation DEF Ordered, Before
<1>3. CASE /\ i - Len(first) \in ModelUpdatesIn(second) /\ i > Len(first)
           /\ both[i] = second[i - Len(first)]
  <2>1. /\ j - Len(first) \in ModelUpdatesIn(second)
        /\ both[j] = second[j - Len(first)]
    <3>1. \/ j \in 1..Len(first)
          \/ j - Len(first) \in ModelUpdatesIn(second) /\ both[j] = second[j - Len(first)]
      BY BlocksOfConcatenation
    <3>2. QED
      <4>1. ~ (j \in 1..Len(first))
        <5> HIDE DEF both
        <5>1. QED
          BY <1>1, <1>3
      <4>2. QED
        BY <3>1, <4>1
  <2>2. i - Len(first) < j - Len(first)
    BY <1>1
  <2>3. QED
    BY <1>3, <2>1, <2>2 DEF Ordered
<1>4. QED
  BY <1>2, <1>3, BlocksOfConcatenation

LEMMA RecordedConcatenation ==
  ASSUME NEW first \in Seq(Update), NEW second \in Seq(Update),
         Recorded(first), Recorded(second)
  PROVE  Recorded(first \o second)
<1> DEFINE both == first \o second
<1> SUFFICES ASSUME NEW i \in ModelUpdatesIn(both)
             PROVE  both[i].block \in DOMAIN blocks /\ blocks[both[i].block].publish = "yes"
  BY DEF Recorded
<1>1. CASE i \in ModelUpdatesIn(first) /\ both[i] = first[i]
  BY <1>1 DEF Recorded
<1>2. CASE i - Len(first) \in ModelUpdatesIn(second) /\ both[i] = second[i - Len(first)]
  BY <1>2 DEF Recorded
<1>3. QED
  BY <1>1, <1>2, BlocksOfConcatenation

LEMMA BeforeConcatenation ==
  ASSUME NEW first \in Seq(Update), NEW second \in Seq(Update), NEW other \in Seq(Update)
  PROVE  /\ Before(other, first) /\ Before(other, second) => Before(other, first \o second)
         /\ Before(first, other) /\ Before(second, other) => Before(first \o second, other)
BY BlocksOfConcatenation, ZenonT(60) DEF Before

\* A state is no block: it changes nothing about the order, wherever it is appended.
LEMMA AppendedState ==
  ASSUME NEW updates \in Seq(Update), NEW u \in Update, u.block = 0
  PROVE  /\ ModelUpdatesIn(Append(updates, u)) = ModelUpdatesIn(updates)
         /\ \A i \in ModelUpdatesIn(updates) : Append(updates, u)[i] = updates[i]
<1>1. /\ DOMAIN Append(updates, u) = 1..(Len(updates) + 1)
      /\ \A i \in 1..Len(updates) : Append(updates, u)[i] = updates[i]
      /\ Append(updates, u)[Len(updates) + 1] = u
      /\ DOMAIN updates = 1..Len(updates) /\ Len(updates) \in Nat
  BY AppendProperties, LenProperties
<1>2. QED
  BY <1>1 DEF ModelUpdatesIn

LEMMA NoBlocks == ModelUpdatesIn(<<>>) = {}
BY DEF ModelUpdatesIn

\* What a modification defers is its own block, once, if it may leave.
LEMMA BlocksOfDeferred ==
  ASSUME NEW publish, Types, contexts > 0
  PROVE  \A i \in ModelUpdatesIn(Deferred(publish)) :
           i = 1 /\ Deferred(publish)[i].block = Len(blocks) + 1 /\ publish # "no"
<1>1. CASE publish = "no"
  BY <1>1, NoBlocks DEF Deferred
<1>2. CASE publish # "no" /\ position = NoPositions
  <2>1. Deferred(publish) = <<ModelUpdate(Len(blocks) + 1)>>
    BY <1>2 DEF Deferred
  <2>2. QED
    BY <1>2, <2>1 DEF ModelUpdatesIn, ModelUpdate
<1>3. CASE publish # "no" /\ position # NoPositions
  <2>1. Deferred(publish) = <<ModelUpdate(Len(blocks) + 1)>> \o <<StateUpdate(position, Len(blocks) + 1)>>
    BY <1>3 DEF Deferred
  <2>2. ModelUpdatesIn(<<StateUpdate(position, Len(blocks) + 1)>>) = {}
    BY DEF ModelUpdatesIn, StateUpdate
  <2>3. \A i \in ModelUpdatesIn(<<ModelUpdate(Len(blocks) + 1)>>) :
          i = 1 /\ <<ModelUpdate(Len(blocks) + 1)>>[i].block = Len(blocks) + 1
    BY DEF ModelUpdatesIn, ModelUpdate
  <2>4. QED
    BY <1>3, <2>1, <2>2, <2>3, DeferredAreUpdates, BlocksOfConcatenation
<1>4. QED
  BY <1>1, <1>2, <1>3

LEMMA Init_Order == Init => Order
BY NoBlocks DEF Init, Order, Ordered, Recorded, Before

LEMMA Next_Order ==
  ASSUME Order, Types, LockTypes, LockIsOwed, [Next]_vars
  PROVE  Order'
<1>1. ASSUME NEW t \in Thread, RaiseInBody(t)
      PROVE  Order'
  BY <1>1, NoBlocks DEF RaiseInBody, Order, Ordered, Recorded, Before
<1>2. ASSUME NEW t \in Thread, Commit(t)
      PROVE  Order'
  <2> DEFINE deferred == Deferred(willBePublished)
  <2>1. /\ deferred \in Seq(Update) /\ pending' = pending \o deferred /\ stream' = stream
        /\ pending \in Seq(Update)
    BY <1>2, DeferredAreUpdates DEF Commit, Types
  <2>2. /\ blocks \in Seq(Block) /\ DOMAIN blocks' = 1..(Len(blocks) + 1)
        /\ \A k \in DOMAIN blocks : k \in DOMAIN blocks' /\ blocks'[k] = blocks[k]
        /\ blocks'[Len(blocks) + 1].publish = willBePublished
        /\ DOMAIN blocks = 1..Len(blocks) /\ Len(blocks) \in Nat
    BY <1>2, AppendProperties, LenProperties DEF Commit, Types
  <2>3. willBePublished \in Publish
    BY <1>2 DEF Commit, LockTypes, LockIsOwed
  <2>4. Recorded(stream)' /\ Recorded(pending)'
    <3>1. \A i \in ModelUpdatesIn(deferred) :
            deferred[i].block \in DOMAIN blocks' /\ blocks'[deferred[i].block].publish = "yes"
      BY <1>2, <2>2, <2>3, BlocksOfDeferred DEF Commit, Publish
    <3>2. \A i \in ModelUpdatesIn(pending) :
            pending[i].block \in DOMAIN blocks' /\ blocks'[pending[i].block].publish = "yes"
      BY <2>2 DEF Order, Recorded
    <3>3. \A i \in ModelUpdatesIn(pending \o deferred) :
            /\ (pending \o deferred)[i].block \in DOMAIN blocks'
            /\ blocks'[(pending \o deferred)[i].block].publish = "yes"
      <4>1. SUFFICES ASSUME NEW i \in ModelUpdatesIn(pending \o deferred)
                     PROVE  /\ (pending \o deferred)[i].block \in DOMAIN blocks'
                            /\ blocks'[(pending \o deferred)[i].block].publish = "yes"
        OBVIOUS
      <4> HIDE DEF deferred
      <4>2. \/ i \in ModelUpdatesIn(pending) /\ (pending \o deferred)[i] = pending[i]
            \/ /\ i - Len(pending) \in ModelUpdatesIn(deferred)
               /\ (pending \o deferred)[i] = deferred[i - Len(pending)]
        BY <2>1, BlocksOfConcatenation
      <4>3. QED
        BY <3>1, <3>2, <4>2
    <3>4. Recorded(stream)'
      BY <2>1, <2>2 DEF Order, Recorded, ModelUpdatesIn
    <3>5. QED
      BY <2>1, <3>3, <3>4 DEF Recorded, ModelUpdatesIn
  <2>5. Before(stream, deferred) /\ Before(pending, deferred)
    BY <1>2, <2>2, BlocksOfDeferred DEF Commit, Order, Recorded, Before
  <2>6. Ordered(deferred)
    BY <1>2, BlocksOfDeferred DEF Commit, Ordered
  <2>7. Ordered(pending \o deferred) /\ Before(stream, pending \o deferred)
    BY <2>1, <2>5, <2>6, OrderedConcatenation, BeforeConcatenation DEF Order, Types
  <2>8. QED
    BY <2>1, <2>4, <2>7 DEF Order, Ordered, Before, ModelUpdatesIn
<1>3. ASSUME NEW t \in Thread, Flush(t)
      PROVE  Order'
  <2>1. stream' = stream \o pending /\ pending' = <<>> /\ blocks' = blocks
    BY <1>3 DEF Flush, managerVars
  <2>2. Ordered(stream \o pending) /\ Recorded(stream \o pending)
    BY OrderedConcatenation, RecordedConcatenation DEF Order, Types
  <2>3. QED
    BY <2>1, <2>2, NoBlocks DEF Order, Ordered, Recorded, Before, ModelUpdatesIn
<1>4. ASSUME NEW t \in Thread, Defer(t)
      PROVE  Order'
  <2>1. /\ pending' = Append(pending, update[t]) /\ stream' = stream /\ blocks' = blocks
        /\ pending \in Seq(Update) /\ update[t] \in Update /\ update[t].block = 0
    BY <1>4 DEF Defer, Types, managerVars
  <2>2. /\ ModelUpdatesIn(pending') = ModelUpdatesIn(pending)
        /\ \A i \in ModelUpdatesIn(pending) : pending'[i] = pending[i]
    BY <2>1, AppendedState
  <2>3. QED
    BY <2>1, <2>2, ZenonT(60) DEF Order, Ordered, Recorded, Before
<1>5. ASSUME NEW t \in Thread, PublishNow(t)
      PROVE  Order'
  <2>1. /\ stream' = Append(stream, update[t]) /\ pending' = pending /\ blocks' = blocks
        /\ stream \in Seq(Update) /\ update[t] \in Update /\ update[t].block = 0
    BY <1>5 DEF PublishNow, Types, managerVars
  <2>2. /\ ModelUpdatesIn(stream') = ModelUpdatesIn(stream)
        /\ \A i \in ModelUpdatesIn(stream) : stream'[i] = stream[i]
    BY <2>1, AppendedState
  <2>3. QED
    BY <2>1, <2>2, ZenonT(60) DEF Order, Ordered, Recorded, Before
<1>6. ASSUME UNCHANGED <<stream, pending, blocks>>
      PROVE  Order'
  BY <1>6 DEF Order, Ordered, Recorded, Before, ModelUpdatesIn
<1>7. ASSUME NEW t \in Thread,
             \/ \E publish \in Publish : Enter(t, publish) \/ EnterMismatching(t, publish)
             \/ \E d \in Dof : AddDof(t, d) \/ WriteState(t, d)
             \/ ExitNested(t) \/ Release(t) \/ ClaimTurn(t) \/ Announce(t)
             \/ PublishOrDefer(t) \/ RememberState(t)
      PROVE  UNCHANGED <<stream, pending, blocks>>
  BY <1>7
     DEF Enter, EnterMismatching, AddDof, WriteState, ExitNested, Release, ClaimTurn,
         Announce, PublishOrDefer, RememberState, managerVars
<1>8. CASE UNCHANGED vars
  BY <1>6, <1>8 DEF vars, managerVars
<1>9. QED
  BY <1>1, <1>2, <1>3, <1>4, <1>5, <1>6, <1>7, <1>8 DEF Next, Act, Leave, Continue

\* Modification blocks leave the process once, in the order in which modify_world
\* recorded them, and only if they may, whichever thread takes the deferred
\* publications along and whatever fails in between.
THEOREM BlocksLeaveInTheirOrder == Spec => []BlocksLeaveInOrder
<1>1. Init => Order
  BY Init_Order
<1>2. Order /\ (Locks /\ Types) /\ [Next]_vars => Order'
  BY Next_Order DEF Locks
<1>3. Order => BlocksLeaveInOrder
  BY DEF Order, Ordered, Recorded, BlocksLeaveInOrder
<1>4. QED
  BY <1>1, <1>2, <1>3, Spec_Types, PTL DEF Spec
-----------------------------------------------------------------------------
\* While nothing goes wrong, every block is on its way and states follow theirs.

MayLeave == {k \in DOMAIN blocks : blocks[k].publish = "yes"}
BlocksIn(updates) == {updates[i].block : i \in ModelUpdatesIn(updates)}

\* A block is deferred only until a thread that already goes for its turn flushes.
OnTheirWay ==
  /\ MayLeave \subseteq BlocksIn(stream) \union BlocksIn(pending)
  /\ BlocksIn(pending) # {} => \E t \in Thread : stage[t] \in {"claiming", "flushing"}

TurnIsHeld == \A t \in Thread : stage[t] = "flushing" <=> order = t

\* A thread that announces a state read it when no block was waiting for the turn, ...
Announcing == {"announcing", "deciding", "deferring", "publishing"}
AnnouncesKnown ==
  \A t \in Thread : stage[t] \in Announcing =>
    /\ stage[t] # "announcing" => update[t].knows <= knows[t]
    /\ \A k \in MayLeave : k <= knows[t] => k \in BlocksIn(stream) \/ order # NoThread

\* ... and nobody knows of blocks to come.
KnowThePast ==
  /\ \A t \in Thread : knows[t] <= Len(blocks)
  /\ \A i \in DOMAIN stream : stream[i].knows <= Len(blocks)
  /\ \A i \in DOMAIN pending : pending[i].knows <= Len(blocks)

\* Every state follows the blocks it knows of, among the updates or the earlier ones.
Behind(updates, earlier, leave) ==
  \A i \in StateUpdatesIn(updates), k \in leave :
    k <= updates[i].knows
      => k \in earlier \/ \E j \in 1..(i - 1) : updates[j].block = k

StatesFollow == Behind(stream, {}, MayLeave) /\ Behind(pending, BlocksIn(stream), MayLeave)

Flowing == OnTheirWay /\ AnnouncesKnown /\ KnowThePast /\ StatesFollow
FlowingUnlessFailed == TurnIsHeld /\ (failures = {} => Flowing)

LEMMA BlocksOfAppended ==
  ASSUME NEW updates \in Seq(Update), NEW u \in Update, u.block = 0
  PROVE  BlocksIn(Append(updates, u)) = BlocksIn(updates)
BY AppendedState, ZenonT(60) DEF BlocksIn

LEMMA BlocksOfBoth ==
  ASSUME NEW first \in Seq(Update), NEW second \in Seq(Update)
  PROVE  BlocksIn(first \o second) = BlocksIn(first) \union BlocksIn(second)
<1> DEFINE both == first \o second
<1>1. /\ DOMAIN both = 1..(Len(first) + Len(second))
      /\ \A k \in 1..(Len(first) + Len(second)) :
           both[k] = IF k <= Len(first) THEN first[k] ELSE second[k - Len(first)]
      /\ DOMAIN first = 1..Len(first) /\ DOMAIN second = 1..Len(second)
      /\ Len(first) \in Nat /\ Len(second) \in Nat
  BY ConcatProperties, LenProperties
<1>2. BlocksIn(both) \subseteq BlocksIn(first) \union BlocksIn(second)
  <2> SUFFICES ASSUME NEW i \in ModelUpdatesIn(both)
               PROVE  both[i].block \in BlocksIn(first) \union BlocksIn(second)
    BY DEF BlocksIn
  <2> HIDE DEF both
  <2>1. \/ i \in ModelUpdatesIn(first) /\ both[i] = first[i]
        \/ i - Len(first) \in ModelUpdatesIn(second) /\ both[i] = second[i - Len(first)]
    BY BlocksOfConcatenation DEF both
  <2> QED BY <2>1 DEF BlocksIn
<1>3. BlocksIn(first) \subseteq BlocksIn(both)
  <2>1. \A i \in ModelUpdatesIn(first) : i \in ModelUpdatesIn(both) /\ both[i] = first[i]
    BY <1>1 DEF ModelUpdatesIn
  <2> QED BY <2>1 DEF BlocksIn
<1>4. BlocksIn(second) \subseteq BlocksIn(both)
  <2>1. \A i \in ModelUpdatesIn(second) :
          i + Len(first) \in ModelUpdatesIn(both) /\ both[i + Len(first)] = second[i]
    BY <1>1 DEF ModelUpdatesIn
  <2> QED BY <2>1 DEF BlocksIn
<1> QED BY <1>2, <1>3, <1>4

\* A state whose known blocks are all there may be appended.
LEMMA BehindAppended ==
  ASSUME NEW updates \in Seq(Update), NEW u \in Update, u.block = 0, NEW earlier,
         NEW leave, Behind(updates, earlier, leave),
         \A k \in leave : k <= u.knows => k \in earlier \union BlocksIn(updates)
  PROVE  Behind(Append(updates, u), earlier, leave)
<1> DEFINE more == Append(updates, u)
<1>1. /\ DOMAIN more = 1..(Len(updates) + 1)
      /\ \A i \in 1..Len(updates) : more[i] = updates[i]
      /\ more[Len(updates) + 1] = u
      /\ DOMAIN updates = 1..Len(updates) /\ Len(updates) \in Nat
  BY AppendProperties, LenProperties
<1> SUFFICES ASSUME NEW i \in StateUpdatesIn(more), NEW k \in leave,
                    k <= more[i].knows, k \notin earlier
             PROVE  \E j \in 1..(i - 1) : more[j].block = k
  BY DEF Behind
<1> HIDE DEF more
<1>2. CASE i \in 1..Len(updates)
  <2>1. i \in StateUpdatesIn(updates) /\ more[i] = updates[i]
    BY <1>1, <1>2 DEF StateUpdatesIn, ModelUpdatesIn
  <2>2. PICK j \in 1..(i - 1) : updates[j].block = k
    BY <2>1 DEF Behind
  <2> QED BY <1>1, <1>2, <2>2
<1>3. CASE i = Len(updates) + 1
  <2>1. PICK j \in DOMAIN updates : updates[j].block = k
    BY <1>1, <1>3 DEF BlocksIn, ModelUpdatesIn
  <2>2. j \in 1..(i - 1) /\ more[j].block = k
    BY <1>1, <1>3, <2>1
  <2> QED BY <2>2
<1> QED BY <1>1, <1>2, <1>3 DEF StateUpdatesIn

\* Two sequences of updates, each behind its blocks.
LEMMA BehindBoth ==
  ASSUME NEW first \in Seq(Update), NEW second \in Seq(Update), NEW earlier, NEW leave,
         Behind(first, earlier, leave), Behind(second, earlier \union BlocksIn(first), leave)
  PROVE  Behind(first \o second, earlier, leave)
<1> DEFINE both == first \o second
<1>1. /\ DOMAIN both = 1..(Len(first) + Len(second))
      /\ \A k \in 1..(Len(first) + Len(second)) :
           both[k] = IF k <= Len(first) THEN first[k] ELSE second[k - Len(first)]
      /\ DOMAIN first = 1..Len(first) /\ DOMAIN second = 1..Len(second)
      /\ Len(first) \in Nat /\ Len(second) \in Nat
  BY ConcatProperties, LenProperties
<1> SUFFICES ASSUME NEW i \in StateUpdatesIn(both), NEW k \in leave,
                    k <= both[i].knows, k \notin earlier
             PROVE  \E j \in 1..(i - 1) : both[j].block = k
  BY DEF Behind
<1> HIDE DEF both
<1>2. CASE i \in 1..Len(first)
  <2>1. i \in StateUpdatesIn(first) /\ both[i] = first[i]
    BY <1>1, <1>2 DEF StateUpdatesIn, ModelUpdatesIn
  <2>2. PICK j \in 1..(i - 1) : first[j].block = k
    BY <2>1 DEF Behind
  <2>3. both[j].block = k
    BY <1>1, <1>2, <2>2
  <2> QED BY <2>3
<1>3. CASE i > Len(first)
  <2> DEFINE n == i - Len(first)
  <2>1. i \in Nat /\ n \in Nat /\ n \in DOMAIN second /\ both[i] = second[n]
    BY <1>1, <1>3 DEF StateUpdatesIn
  <2>2. n \in StateUpdatesIn(second)
    BY <2>1 DEF StateUpdatesIn, ModelUpdatesIn
  <2>3. k \in BlocksIn(first) \/ \E j \in 1..(n - 1) : second[j].block = k
    BY <2>1, <2>2 DEF Behind
  <2>4. ASSUME k \in BlocksIn(first) PROVE \E j \in 1..(i - 1) : both[j].block = k
    <3>1. PICK j \in DOMAIN first : first[j].block = k
      BY <2>4 DEF BlocksIn, ModelUpdatesIn
    <3>2. j \in 1..(i - 1) /\ both[j].block = k
      BY <1>1, <1>3, <2>1, <3>1
    <3> QED BY <3>2
  <2>5. ASSUME NEW j \in 1..(n - 1), second[j].block = k
        PROVE  \E m \in 1..(i - 1) : both[m].block = k
    <3>1. j + Len(first) \in 1..(i - 1) /\ both[j + Len(first)].block = k
      BY <1>1, <1>3, <2>1, <2>5
    <3> QED BY <3>1
  <2> QED BY <2>3, <2>4, <2>5
<1> QED BY <1>1, <1>2, <1>3 DEF StateUpdatesIn

LEMMA Init_Flowing == Init => FlowingUnlessFailed
<1> SUFFICES ASSUME Init PROVE FlowingUnlessFailed
  OBVIOUS
<1>1. /\ blocks = <<>> /\ stream = <<>> /\ pending = <<>> /\ order = NoThread
      /\ \A t \in Thread : stage[t] = "ready" /\ knows[t] = 0
  BY DEF Init
<1>2. TurnIsHeld
  BY <1>1, WorldAssumption DEF TurnIsHeld
<1>3. Flowing
  BY <1>1, NoBlocks
     DEF Flowing, OnTheirWay, AnnouncesKnown, KnowThePast, StatesFollow, Behind, BlocksIn,
         MayLeave, StateUpdatesIn, Announcing
<1> QED BY <1>2, <1>3 DEF FlowingUnlessFailed

\* The turn in the stream is with the thread that flushes.
LEMMA Next_TurnIsHeld ==
  ASSUME TurnIsHeld, Types, LockTypes, [Next]_vars
  PROVE  TurnIsHeld'
<1> USE WorldAssumption
<1>1. ASSUME NEW t \in Thread, NEW next, Goes(t, next), next # "flushing",
             stage[t] # "flushing", order' = order
      PROVE  TurnIsHeld'
  BY <1>1 DEF TurnIsHeld, Goes, LockTypes
<1>2. ASSUME stage' = stage, order' = order
      PROVE  TurnIsHeld'
  BY <1>2 DEF TurnIsHeld
<1>3. ASSUME NEW t \in Thread, ClaimTurn(t) \/ Flush(t)
      PROVE  TurnIsHeld'
  BY <1>3 DEF TurnIsHeld, ClaimTurn, Flush, Goes, LockTypes, Types
<1>4. ASSUME NEW t \in Thread,
             \/ \E publish \in Publish : Enter(t, publish) \/ EnterMismatching(t, publish)
             \/ \E d \in Dof : AddDof(t, d)
      PROVE  TurnIsHeld'
  BY <1>2, <1>4 DEF Enter, EnterMismatching, AddDof, threadVars
<1>5. ASSUME NEW t \in Thread,
             \/ \E d \in Dof : WriteState(t, d)
             \/ RaiseInBody(t) \/ ExitNested(t) \/ Commit(t) \/ Release(t)
             \/ PublishOrDefer(t) \/ Defer(t) \/ PublishNow(t) \/ RememberState(t)
      PROVE  TurnIsHeld'
  BY <1>1, <1>5
     DEF WriteState, RaiseInBody, ExitNested, Commit, Release, PublishOrDefer, Defer,
         PublishNow, RememberState, Ready, managerVars
<1>6. ASSUME NEW t \in Thread, Announce(t)
      PROVE  TurnIsHeld'
  BY <1>1, <1>6 DEF Announce
<1>7. CASE UNCHANGED vars
  BY <1>2, <1>7 DEF vars, threadVars
<1> QED BY <1>3, <1>4, <1>5, <1>6, <1>7 DEF Next, Act, Leave, Continue

\* Failures are remembered.
LEMMA FailuresStay ==
  ASSUME [Next]_vars, failures' = {}, Types, LockTypes
  PROVE  /\ failures = {}
         /\ \A t \in Thread : ~ RaiseInBody(t)
         /\ \A t \in Thread, publish \in Publish : ~ EnterMismatching(t, publish)
         /\ \A t \in Thread : Commit(t) => Goes(t, "claiming")
<1>1. \A t \in Thread : ~ RaiseInBody(t)
  BY DEF RaiseInBody, GoesWrong
<1>2. \A t \in Thread, publish \in Publish : ~ EnterMismatching(t, publish)
  BY DEF EnterMismatching, GoesWrong
<1>3. \A t \in Thread : Commit(t) => Goes(t, "claiming") /\ failures' = failures
  BY DEF Commit, GoesWrong
<1>4. failures = {}
  <2>1. ASSUME NEW t \in Thread, Act(t) \/ Leave(t) \/ Continue(t) PROVE failures' = failures
    BY <2>1, <1>1, <1>2, <1>3
       DEF Act, Leave, Continue, Enter, AddDof, WriteState, ExitNested, Release, ClaimTurn,
           Flush, Announce, PublishOrDefer, Defer, PublishNow, RememberState
  <2> QED BY <2>1 DEF Next, vars
<1> QED BY <1>1, <1>2, <1>3, <1>4

\* Steps that neither record, defer nor publish: they keep who goes for the turn, and
\* whoever comes to announce a state finds no block waiting for it.
LEMMA QuietSteps_Flowing ==
  ASSUME Flowing, Types, LockTypes, UNCHANGED <<stream, pending, blocks>>,
         BlocksIn(pending) # {} => \E t \in Thread : stage'[t] \in {"claiming", "flushing"},
         order # NoThread => order' # NoThread,
         knows' \in [Thread -> Nat],
         \A t \in Thread : knows'[t] <= Len(blocks),
         \A t \in Thread : stage'[t] \in Announcing =>
           /\ stage'[t] # "announcing" => update'[t].knows <= knows'[t]
           /\ \/ knows'[t] = knows[t] /\ stage[t] \in Announcing
              \/ BlocksIn(pending) # {} => order # NoThread
  PROVE  Flowing'
<1>1. /\ BlocksIn(stream)' = BlocksIn(stream) /\ BlocksIn(pending)' = BlocksIn(pending)
      /\ MayLeave' = MayLeave
  BY DEF BlocksIn, ModelUpdatesIn, MayLeave
<1>2. OnTheirWay'
  BY <1>1 DEF Flowing, OnTheirWay
<1>3. KnowThePast'
  BY DEF Flowing, KnowThePast
<1>4. StatesFollow'
  BY <1>1 DEF Flowing, StatesFollow, Behind, StateUpdatesIn, ModelUpdatesIn
<1>5. AnnouncesKnown'
  <2> SUFFICES ASSUME NEW t \in Thread, stage'[t] \in Announcing,
                      NEW k \in MayLeave, k <= knows'[t], k \notin BlocksIn(stream)
               PROVE  order' # NoThread
    BY <1>1 DEF AnnouncesKnown
  <2>1. CASE knows'[t] = knows[t] /\ stage[t] \in Announcing
    BY <2>1 DEF Flowing, AnnouncesKnown
  <2>2. CASE BlocksIn(pending) # {} => order # NoThread
    BY <2>2 DEF Flowing, OnTheirWay, MayLeave
  <2> QED BY <2>1, <2>2
<1> QED BY <1>2, <1>3, <1>4, <1>5 DEF Flowing

LEMMA Write_Flowing ==
  ASSUME Flowing, TurnIsHeld, Types, Locks, NEW t \in Thread, NEW d \in Dof, WriteState(t, d)
  PROVE  Flowing'
<1>1. /\ UNCHANGED <<stream, pending, blocks, order>> /\ Goes(t, "announcing") /\ Notices(t)
      /\ stage[t] = "ready" /\ CanLock(t) /\ update' = update
  BY DEF WriteState, managerVars, Ready
<1>2. ASSUME BlocksIn(pending) # {} PROVE order # NoThread
  <2>1. PICK s \in Thread : stage[s] \in {"claiming", "flushing"}
    BY <1>2 DEF Flowing, OnTheirWay
  <2>2. stage[s] # "claiming"
    BY <1>1, WorldAssumption DEF Locks, LockIsOwed, Leaving, CanLock
  <2> QED BY <2>1, <2>2, WorldAssumption DEF TurnIsHeld
<1>3. BlocksIn(pending) # {} => \E s \in Thread : stage'[s] \in {"claiming", "flushing"}
  BY <1>1 DEF Flowing, OnTheirWay, Goes, Locks, LockTypes
<1>4. Len(blocks) \in Nat /\ knows' = [knows EXCEPT ![t] = Len(blocks)]
  BY <1>1 DEF Types, Notices
<1>5. /\ knows' \in [Thread -> Nat]
      /\ \A s \in Thread : knows'[s] <= Len(blocks)
  BY <1>4 DEF Types, Flowing, KnowThePast
<1>6. \A s \in Thread : s # t => stage'[s] = stage[s] /\ knows'[s] = knows[s]
  BY <1>1, <1>4 DEF Goes, Locks, LockTypes, Types
<1>7. stage'[t] = "announcing"
  BY <1>1 DEF Goes, Locks, LockTypes
<1>8. \A s \in Thread : stage'[s] \in Announcing =>
           /\ stage'[s] # "announcing" => update'[s].knows <= knows'[s]
           /\ \/ knows'[s] = knows[s] /\ stage[s] \in Announcing
              \/ BlocksIn(pending) # {} => order # NoThread
  BY <1>1, <1>2, <1>6, <1>7 DEF Flowing, AnnouncesKnown
<1> QED BY <1>1, <1>3, <1>5, <1>8, QuietSteps_Flowing DEF Locks

\* Steps that leave what a thread knows alone, or happen to one that announces nothing.
LEMMA Others_Flowing ==
  ASSUME Flowing, TurnIsHeld, Types, Locks, NEW t \in Thread,
         \/ \E publish \in Publish : Enter(t, publish)
         \/ \E d \in Dof : AddDof(t, d)
         \/ ExitNested(t) \/ Release(t) \/ ClaimTurn(t) \/ Announce(t)
         \/ PublishOrDefer(t) \/ RememberState(t)
  PROVE  Flowing'
<1>1. UNCHANGED <<stream, pending, blocks>>
  BY DEF Enter, AddDof, ExitNested, Release, ClaimTurn, Announce, PublishOrDefer,
         RememberState, managerVars
<1>2. order # NoThread => order' # NoThread
  BY DEF Enter, AddDof, ExitNested, Release, ClaimTurn, Announce, PublishOrDefer,
         RememberState, managerVars
<1>3. Len(blocks) \in Nat /\ knows \in [Thread -> 0..MaxBlocks] /\ stage \in [Thread -> Stages]
      /\ update \in [Thread -> Update]
  BY DEF Types, Locks, LockTypes
<1>4. \A s \in Thread : s # t =>
        stage'[s] = stage[s] /\ knows'[s] = knows[s] /\ update'[s].knows = update[s].knows
  <2>1. \/ stage' = stage
        \/ \E next \in Stages : stage' = [stage EXCEPT ![t] = next]
    BY DEF Enter, AddDof, ExitNested, Release, ClaimTurn, Announce, PublishOrDefer,
           RememberState, threadVars, Goes, Stages
  <2>2. knows' = knows \/ knows' = [knows EXCEPT ![t] = Len(blocks)]
    BY DEF Enter, AddDof, ExitNested, Release, ClaimTurn, Announce, PublishOrDefer,
           RememberState, threadVars, Notices
  <2>3. update' = update \/ \E u : update' = [update EXCEPT ![t] = u]
    BY DEF Enter, AddDof, ExitNested, Release, ClaimTurn, Announce, PublishOrDefer,
           RememberState, threadVars
  <2> QED BY <1>3, <2>1, <2>2, <2>3
<1>5. stage[t] \in {"claiming", "flushing"} => stage'[t] \in {"claiming", "flushing"}
  BY <1>3
     DEF Enter, AddDof, ExitNested, Release, ClaimTurn, Announce, PublishOrDefer,
         RememberState, threadVars, Goes, Ready
<1>6. BlocksIn(pending) # {} => \E s \in Thread : stage'[s] \in {"claiming", "flushing"}
  BY <1>4, <1>5 DEF Flowing, OnTheirWay
<1>7. knows' = knows \/ knows' = [knows EXCEPT ![t] = Len(blocks)]
  BY DEF Enter, AddDof, ExitNested, Release, ClaimTurn, Announce, PublishOrDefer,
         RememberState, threadVars, Notices
<1>8. /\ knows' \in [Thread -> Nat]
      /\ \A s \in Thread : knows'[s] <= Len(blocks)
  <2>1. knows \in [Thread -> Nat]
    BY <1>3, WorldAssumption
  <2>2. \A s \in Thread : knows[s] <= Len(blocks)
    BY DEF Flowing, KnowThePast
  <2> QED BY <1>3, <1>7, <2>1, <2>2
<1>9. stage'[t] \in Announcing =>
        /\ stage'[t] # "announcing" => update'[t].knows <= knows'[t]
        /\ knows'[t] = knows[t] /\ stage[t] \in Announcing
  <2>1. CASE Announce(t)
    <3>1. /\ knows' = knows /\ stage[t] = "announcing"
          /\ \/ stage'[t] = "ready"
             \/ update'[t] = StateUpdate(Changes, knows[t])
      BY <1>3, <2>1 DEF Announce, Goes
    <3>2. stage'[t] # "ready" => update'[t].knows = knows[t]
      BY <3>1 DEF StateUpdate
    <3>3. knows[t] \in Nat
      BY <1>3, WorldAssumption
    <3> QED BY <3>1, <3>2, <3>3 DEF Announcing
  <2>2. CASE PublishOrDefer(t)
    BY <1>3, <2>2 DEF PublishOrDefer, Goes, Flowing, AnnouncesKnown, Announcing
  <2>3. CASE \/ \E publish \in Publish : Enter(t, publish)
             \/ \E d \in Dof : AddDof(t, d)
             \/ ExitNested(t) \/ Release(t) \/ ClaimTurn(t) \/ RememberState(t)
    BY <1>3, <2>3
       DEF Enter, AddDof, ExitNested, Release, ClaimTurn, RememberState, threadVars, Goes,
           Ready, Announcing
  <2> QED BY <2>1, <2>2, <2>3
<1>10. \A s \in Thread : stage'[s] \in Announcing =>
           /\ stage'[s] # "announcing" => update'[s].knows <= knows'[s]
           /\ \/ knows'[s] = knows[s] /\ stage[s] \in Announcing
              \/ BlocksIn(pending) # {} => order # NoThread
  BY <1>4, <1>9 DEF Flowing, AnnouncesKnown
<1> QED BY <1>1, <1>2, <1>6, <1>8, <1>10, QuietSteps_Flowing DEF Locks

LEMMA Flush_Flowing ==
  ASSUME Flowing, TurnIsHeld, Types, Locks, NEW t \in Thread, Flush(t)
  PROVE  Flowing'
<1>1. /\ stream' = stream \o pending /\ pending' = <<>> /\ UNCHANGED <<blocks, knows, update>>
      /\ Goes(t, "ready") /\ stage[t] = "flushing"
      /\ stream \in Seq(Update) /\ pending \in Seq(Update)
  BY DEF Flush, managerVars, Types
<1>2. MayLeave' = MayLeave
  BY <1>1 DEF MayLeave
<1>3. BlocksIn(stream') = BlocksIn(stream) \union BlocksIn(pending) /\ BlocksIn(pending') = {}
  <2>1. BlocksIn(stream \o pending) = BlocksIn(stream) \union BlocksIn(pending)
    BY <1>1, BlocksOfBoth
  <2>2. BlocksIn(<<>>) = {}
    BY NoBlocks DEF BlocksIn
  <2> QED BY <1>1, <2>1, <2>2
<1>3a. BlocksIn(stream)' = BlocksIn(stream') /\ BlocksIn(pending)' = BlocksIn(pending')
  BY DEF BlocksIn, ModelUpdatesIn
<1>4. OnTheirWay'
  BY <1>1, <1>2, <1>3, <1>3a DEF Flowing, OnTheirWay
<1>5. AnnouncesKnown'
  <2> SUFFICES ASSUME NEW s \in Thread, stage'[s] \in Announcing
               PROVE  /\ stage'[s] # "announcing" => update[s].knows <= knows[s]
                      /\ \A k \in MayLeave : k <= knows[s] => k \in BlocksIn(stream')
    BY <1>1, <1>2, <1>3a DEF AnnouncesKnown
  <2>1. stage'[s] = stage[s]
    BY <1>1 DEF Goes, Locks, LockTypes, Announcing
  <2>2. MayLeave \subseteq BlocksIn(stream')
    BY <1>3 DEF Flowing, OnTheirWay, MayLeave
  <2> QED BY <2>1, <2>2 DEF Flowing, AnnouncesKnown
<1>6. KnowThePast'
  <2>1. \A i \in DOMAIN stream' : stream'[i].knows <= Len(blocks)
    <3>1. /\ DOMAIN (stream \o pending) = 1..(Len(stream) + Len(pending))
          /\ \A k \in 1..(Len(stream) + Len(pending)) :
               (stream \o pending)[k] = IF k <= Len(stream) THEN stream[k]
                                        ELSE pending[k - Len(stream)]
          /\ DOMAIN stream = 1..Len(stream) /\ DOMAIN pending = 1..Len(pending)
          /\ Len(stream) \in Nat /\ Len(pending) \in Nat
      BY <1>1, ConcatProperties, LenProperties
    <3> QED BY <1>1, <3>1 DEF Flowing, KnowThePast
  <2> QED BY <1>1, <2>1 DEF Flowing, KnowThePast
<1>7. StatesFollow'
  <2>1. Behind(stream \o pending, {}, MayLeave)
    <3>1. {} \union BlocksIn(stream) = BlocksIn(stream)
      OBVIOUS
    <3> QED BY <1>1, <3>1, BehindBoth DEF Flowing, StatesFollow
  <2>2. Behind(stream, {}, MayLeave)'
    <3> DEFINE both == stream \o pending
    <3>1. stream' = both /\ blocks' = blocks /\ Behind(both, {}, MayLeave)
      BY <1>1, <2>1
    <3> HIDE DEF both
    <3> QED BY <1>2, <3>1 DEF Behind, StateUpdatesIn, ModelUpdatesIn
  <2>3. Behind(pending, BlocksIn(stream), MayLeave)'
    BY <1>1 DEF Behind, StateUpdatesIn
  <2> QED BY <2>2, <2>3 DEF StatesFollow
<1> QED BY <1>4, <1>5, <1>6, <1>7 DEF Flowing

LEMMA Defer_Flowing ==
  ASSUME Flowing, TurnIsHeld, Types, Locks, NEW t \in Thread, Defer(t)
  PROVE  Flowing'
<1>1. /\ pending' = Append(pending, update[t])
      /\ UNCHANGED <<blocks, knows, update, stream, order>>
      /\ Goes(t, "remembering") /\ stage[t] = "deferring"
      /\ pending \in Seq(Update) /\ update[t] \in Update /\ update[t].block = 0
  BY DEF Defer, managerVars, Types
<1>2. MayLeave' = MayLeave
  BY <1>1 DEF MayLeave
<1>3. BlocksIn(stream)' = BlocksIn(stream) /\ BlocksIn(pending)' = BlocksIn(pending)
  <2>1. BlocksIn(pending') = BlocksIn(pending)
    BY <1>1, BlocksOfAppended
  <2>2. BlocksIn(pending)' = BlocksIn(pending')
    BY DEF BlocksIn, ModelUpdatesIn
  <2> QED BY <1>1, <2>1, <2>2 DEF BlocksIn, ModelUpdatesIn
<1>4. \A s \in Thread : stage'[s] \in Announcing \union {"claiming", "flushing"} => stage'[s] = stage[s]
  BY <1>1 DEF Goes, Locks, LockTypes, Announcing
<1>5. OnTheirWay'
  <2>1. ASSUME NEW s \in Thread, stage[s] \in {"claiming", "flushing"}
        PROVE  stage'[s] \in {"claiming", "flushing"}
    BY <1>1, <2>1 DEF Goes, Locks, LockTypes
  <2> QED BY <1>1, <1>2, <1>3, <2>1 DEF Flowing, OnTheirWay
<1>6. AnnouncesKnown'
  BY <1>1, <1>2, <1>3, <1>4 DEF Flowing, AnnouncesKnown
<1>7. update[t].knows <= knows[t] /\ knows[t] <= Len(blocks)
  BY <1>1 DEF Flowing, AnnouncesKnown, Announcing, KnowThePast
<1>8. /\ update[t].knows \in Nat /\ knows[t] \in Nat /\ Len(blocks) \in Nat
      /\ DOMAIN blocks = 1..Len(blocks)
  BY <1>1, WorldAssumption, LenProperties DEF Update, Types
<1>9. KnowThePast'
  <2>1. /\ DOMAIN pending' = 1..(Len(pending) + 1)
        /\ \A i \in 1..Len(pending) : pending'[i] = pending[i]
        /\ pending'[Len(pending) + 1] = update[t]
        /\ DOMAIN pending = 1..Len(pending) /\ Len(pending) \in Nat
    BY <1>1, AppendProperties, LenProperties
  <2>2. \A i \in DOMAIN pending' : pending'[i].knows <= Len(blocks)
    BY <1>7, <1>8, <2>1 DEF Flowing, KnowThePast
  <2> QED BY <1>1, <2>2 DEF Flowing, KnowThePast
<1>10. StatesFollow'
  <2>1. MayLeave \subseteq BlocksIn(stream) \union BlocksIn(pending)
    BY DEF Flowing, OnTheirWay
  <2>2. Behind(Append(pending, update[t]), BlocksIn(stream), MayLeave)
    BY <1>1, <2>1, BehindAppended DEF Flowing, StatesFollow
  <2>3. Behind(pending, BlocksIn(stream), MayLeave)'
    BY <1>1, <1>2, <1>3, <2>2 DEF Behind, StateUpdatesIn, ModelUpdatesIn
  <2>4. Behind(stream, {}, MayLeave)'
    BY <1>1, <1>2 DEF Flowing, StatesFollow, Behind, StateUpdatesIn, ModelUpdatesIn
  <2> QED BY <2>3, <2>4 DEF StatesFollow
<1> QED BY <1>5, <1>6, <1>9, <1>10 DEF Flowing

LEMMA PublishNow_Flowing ==
  ASSUME Flowing, TurnIsHeld, Types, Locks, NEW t \in Thread, PublishNow(t)
  PROVE  Flowing'
<1>1. /\ stream' = Append(stream, update[t])
      /\ UNCHANGED <<blocks, knows, update, pending, order>> /\ order = NoThread
      /\ Goes(t, "remembering") /\ stage[t] = "publishing"
      /\ stream \in Seq(Update) /\ update[t] \in Update /\ update[t].block = 0
  BY DEF PublishNow, managerVars, Types
<1>2. MayLeave' = MayLeave
  BY <1>1 DEF MayLeave
<1>3. BlocksIn(stream)' = BlocksIn(stream) /\ BlocksIn(pending)' = BlocksIn(pending)
  <2>1. BlocksIn(stream') = BlocksIn(stream)
    BY <1>1, BlocksOfAppended
  <2>2. BlocksIn(stream)' = BlocksIn(stream')
    BY DEF BlocksIn, ModelUpdatesIn
  <2> QED BY <1>1, <2>1, <2>2 DEF BlocksIn, ModelUpdatesIn
<1>4. \A s \in Thread : stage'[s] \in Announcing \union {"claiming", "flushing"} => stage'[s] = stage[s]
  BY <1>1 DEF Goes, Locks, LockTypes, Announcing
<1>5. OnTheirWay'
  <2>1. ASSUME NEW s \in Thread, stage[s] \in {"claiming", "flushing"}
        PROVE  stage'[s] \in {"claiming", "flushing"}
    BY <1>1, <2>1 DEF Goes, Locks, LockTypes
  <2> QED BY <1>1, <1>2, <1>3, <2>1 DEF Flowing, OnTheirWay
<1>6. AnnouncesKnown'
  BY <1>1, <1>2, <1>3, <1>4 DEF Flowing, AnnouncesKnown
<1>7. update[t].knows <= knows[t] /\ knows[t] <= Len(blocks)
  BY <1>1 DEF Flowing, AnnouncesKnown, Announcing, KnowThePast
<1>8. /\ update[t].knows \in Nat /\ knows[t] \in Nat /\ Len(blocks) \in Nat
      /\ DOMAIN blocks = 1..Len(blocks)
  BY <1>1, WorldAssumption, LenProperties DEF Update, Types
<1>9. KnowThePast'
  <2>1. /\ DOMAIN stream' = 1..(Len(stream) + 1)
        /\ \A i \in 1..Len(stream) : stream'[i] = stream[i]
        /\ stream'[Len(stream) + 1] = update[t]
        /\ DOMAIN stream = 1..Len(stream) /\ Len(stream) \in Nat
    BY <1>1, AppendProperties, LenProperties
  <2>2. \A i \in DOMAIN stream' : stream'[i].knows <= Len(blocks)
    BY <1>7, <1>8, <2>1 DEF Flowing, KnowThePast
  <2> QED BY <1>1, <2>2 DEF Flowing, KnowThePast
<1>10. StatesFollow'
  <2>1. \A k \in MayLeave : k <= update[t].knows => k \in {} \union BlocksIn(stream)
    <3> SUFFICES ASSUME NEW k \in MayLeave, k <= update[t].knows
                 PROVE  k \in BlocksIn(stream)
      OBVIOUS
    <3>1. k <= knows[t]
      BY <1>7, <1>8 DEF MayLeave
    <3> QED BY <1>1, <3>1 DEF Flowing, AnnouncesKnown, Announcing
  <2>2. Behind(Append(stream, update[t]), {}, MayLeave)
    BY <1>1, <2>1, BehindAppended DEF Flowing, StatesFollow
  <2>3. Behind(stream, {}, MayLeave)'
    BY <1>1, <1>2, <2>2 DEF Behind, StateUpdatesIn, ModelUpdatesIn
  <2>4. Behind(pending, BlocksIn(stream), MayLeave)'
    BY <1>1, <1>2, <1>3 DEF Flowing, StatesFollow, Behind, StateUpdatesIn, ModelUpdatesIn
  <2> QED BY <2>3, <2>4 DEF StatesFollow
<1> QED BY <1>5, <1>6, <1>9, <1>10 DEF Flowing

\* A modification defers its block and then a state that knows of it.
LEMMA DeferredInOrder ==
  ASSUME Types, contexts > 0, NEW publish \in Publish
  PROVE  LET deferred == Deferred(publish)
         IN  /\ \A i \in DOMAIN deferred : deferred[i].knows <= Len(blocks) + 1
             /\ publish = "yes" => Len(blocks) + 1 \in BlocksIn(deferred)
             /\ \A i \in StateUpdatesIn(deferred) :
                  i = 2 /\ deferred[1].block = Len(blocks) + 1 /\ publish = "yes"
<1> DEFINE n == Len(blocks) + 1
           deferred == Deferred(publish)
<1>1. n \in Nat /\ n > 0
  BY DEF Types
<1>2. ModelUpdate(n).block = n /\ ModelUpdate(n).knows = n
  BY DEF ModelUpdate
<1>3. StateUpdate(position, n).block = 0 /\ StateUpdate(position, n).knows = n
  BY DEF StateUpdate
<1> HIDE DEF n, deferred
<1>4. CASE publish = "no"
  <2>1. deferred = <<>> /\ DOMAIN deferred = {}
    BY <1>4 DEF Deferred, deferred
  <2> QED BY <1>4, <2>1 DEF StateUpdatesIn, deferred, n
<1>5. CASE publish = "yes" /\ position = NoPositions
  <2>1. deferred = <<ModelUpdate(n)>>
    BY <1>5 DEF Deferred, deferred, n
  <2>2. DOMAIN deferred = {1} /\ deferred[1] = ModelUpdate(n)
    BY <2>1
  <2>3. ModelUpdatesIn(deferred) = {1}
    BY <1>1, <1>2, <2>2 DEF ModelUpdatesIn
  <2>4. n \in BlocksIn(deferred) /\ StateUpdatesIn(deferred) = {}
    BY <1>2, <2>2, <2>3 DEF BlocksIn, StateUpdatesIn
  <2> QED BY <1>1, <1>2, <2>2, <2>4 DEF deferred, n
<1>6. CASE publish = "yes" /\ position # NoPositions
  <2>1. deferred = <<ModelUpdate(n)>> \o <<StateUpdate(position, n)>>
    BY <1>6 DEF Deferred, deferred, n
  <2>2. /\ DOMAIN deferred = {1, 2}
        /\ deferred[1] = ModelUpdate(n) /\ deferred[2] = StateUpdate(position, n)
    BY <2>1
  <2>3. ModelUpdatesIn(deferred) = {1}
    BY <1>1, <1>2, <1>3, <2>2 DEF ModelUpdatesIn
  <2>4. n \in BlocksIn(deferred) /\ StateUpdatesIn(deferred) = {2}
    BY <1>2, <2>2, <2>3 DEF BlocksIn, StateUpdatesIn
  <2> QED BY <1>1, <1>2, <1>3, <1>6, <2>2, <2>4 DEF deferred, n
<1> QED BY <1>4, <1>5, <1>6 DEF Publish

LEMMA Commit_Flowing ==
  ASSUME Flowing, TurnIsHeld, Types, Locks, NEW t \in Thread, Commit(t), Goes(t, "claiming")
  PROVE  Flowing'
<1> DEFINE deferred == Deferred(willBePublished)
<1>1. /\ pending' = pending \o deferred
      /\ UNCHANGED <<knows, update, stream, order>>
      /\ stage[t] = "ready" /\ stage'[t] = "claiming" /\ contexts > 0
      /\ willBePublished \in Publish
  BY DEF Commit, Ready, Goes, Locks, LockTypes, LockIsOwed
<1>2. /\ pending \in Seq(Update) /\ deferred \in Seq(Update)
      /\ knows \in [Thread -> 0..MaxBlocks]
  BY <1>1, DeferredAreUpdates DEF Types
<1>3. /\ Len(blocks) \in Nat /\ DOMAIN blocks = 1..Len(blocks)
      /\ Len(blocks') = Len(blocks) + 1 /\ DOMAIN blocks' = 1..(Len(blocks) + 1)
      /\ \A k \in DOMAIN blocks : blocks'[k] = blocks[k]
      /\ blocks'[Len(blocks) + 1].publish = willBePublished
  BY AppendProperties, LenProperties DEF Commit, Types
<1>4. MayLeave' = MayLeave \union (IF willBePublished = "yes" THEN {Len(blocks) + 1} ELSE {})
  BY <1>3 DEF MayLeave
<1>5. \A k \in MayLeave' : k <= Len(blocks) => k \in MayLeave
  BY <1>3, <1>4
<1>6. /\ \A i \in DOMAIN deferred : deferred[i].knows <= Len(blocks) + 1
      /\ willBePublished = "yes" => Len(blocks) + 1 \in BlocksIn(deferred)
      /\ \A i \in StateUpdatesIn(deferred) :
           i = 2 /\ deferred[1].block = Len(blocks) + 1 /\ willBePublished = "yes"
  BY <1>1, DeferredInOrder
<1> HIDE DEF deferred
<1>7. /\ BlocksIn(stream)' = BlocksIn(stream)
      /\ BlocksIn(pending)' = BlocksIn(pending) \union BlocksIn(deferred)
  <2>1. BlocksIn(pending') = BlocksIn(pending) \union BlocksIn(deferred)
    BY <1>1, <1>2, BlocksOfBoth
  <2>2. BlocksIn(pending)' = BlocksIn(pending')
    BY DEF BlocksIn, ModelUpdatesIn
  <2> QED BY <1>1, <2>1, <2>2 DEF BlocksIn, ModelUpdatesIn
<1>8. OnTheirWay'
  BY <1>1, <1>4, <1>6, <1>7 DEF Flowing, OnTheirWay
<1>9. AnnouncesKnown'
  <2> SUFFICES ASSUME NEW s \in Thread, stage'[s] \in Announcing
               PROVE  /\ stage'[s] # "announcing" => update[s].knows <= knows[s]
                      /\ \A k \in MayLeave' : k <= knows[s]
                           => k \in BlocksIn(stream) \/ order # NoThread
    BY <1>1, <1>7 DEF AnnouncesKnown
  <2>1. stage'[s] = stage[s]
    BY <1>1 DEF Goes, Locks, LockTypes, Announcing
  <2>2. \A k \in MayLeave' : k <= knows[s] => k \in MayLeave
    <3>1. knows[s] <= Len(blocks) /\ knows[s] \in Nat
      BY <1>2, WorldAssumption DEF Flowing, KnowThePast
    <3>2. \A k \in MayLeave' : k \in Nat
      BY <1>3 DEF MayLeave
    <3> QED BY <1>3, <1>5, <3>1, <3>2
  <2> QED BY <2>1, <2>2 DEF Flowing, AnnouncesKnown
<1>10. /\ DOMAIN pending' = 1..(Len(pending) + Len(deferred))
       /\ \A k \in 1..(Len(pending) + Len(deferred)) :
            pending'[k] = IF k <= Len(pending) THEN pending[k] ELSE deferred[k - Len(pending)]
       /\ DOMAIN pending = 1..Len(pending) /\ DOMAIN deferred = 1..Len(deferred)
       /\ Len(pending) \in Nat /\ Len(deferred) \in Nat
  BY <1>1, <1>2, ConcatProperties, LenProperties
<1>11. /\ \A i \in DOMAIN stream : stream[i].knows \in Nat
       /\ \A i \in DOMAIN pending : pending[i].knows \in Nat
  <2>1. \A u \in Update : u.knows \in Nat
    BY WorldAssumption DEF Update
  <2>2. /\ \A i \in DOMAIN stream : stream[i] \in Update
        /\ \A i \in DOMAIN pending : pending[i] \in Update
    BY <1>2 DEF Types
  <2> QED BY <2>1, <2>2
<1>12. KnowThePast'
  <2>1. \A s \in Thread : knows[s] <= Len(blocks) + 1
    BY <1>2, <1>3, WorldAssumption DEF Flowing, KnowThePast
  <2>2. \A i \in DOMAIN stream : stream[i].knows <= Len(blocks) + 1
    BY <1>3, <1>11 DEF Flowing, KnowThePast
  <2>3. \A i \in DOMAIN pending : pending[i].knows <= Len(blocks) + 1
    BY <1>3, <1>11 DEF Flowing, KnowThePast
  <2>4. \A i \in DOMAIN pending' : pending'[i].knows <= Len(blocks) + 1
    BY <1>6, <1>10, <2>3, SMTT(30)
  <2> QED BY <1>1, <1>3, <2>1, <2>2, <2>4 DEF KnowThePast
<1>13. Behind(stream, {}, MayLeave)'
  <2> SUFFICES ASSUME NEW i \in StateUpdatesIn(stream), NEW k \in MayLeave',
                      k <= stream[i].knows
               PROVE  \E j \in 1..(i - 1) : stream[j].block = k
    BY <1>1 DEF Behind, StateUpdatesIn, ModelUpdatesIn
  <2>1. i \in DOMAIN stream /\ k \in Nat
    BY <1>3 DEF StateUpdatesIn, MayLeave
  <2>2. k \in MayLeave
    BY <1>3, <1>5, <1>11, <2>1 DEF Flowing, KnowThePast
  <2> QED BY <2>2 DEF Flowing, StatesFollow, Behind
<1>14. Behind(pending, BlocksIn(stream), MayLeave)'
  <2>1. Behind(pending, BlocksIn(stream), MayLeave')
    <3> SUFFICES ASSUME NEW i \in StateUpdatesIn(pending), NEW k \in MayLeave',
                        k <= pending[i].knows
                 PROVE  k \in BlocksIn(stream) \/ \E j \in 1..(i - 1) : pending[j].block = k
      BY DEF Behind
    <3>1. i \in DOMAIN pending /\ k \in Nat
      BY <1>3 DEF StateUpdatesIn, MayLeave
    <3>2. k \in MayLeave
      BY <1>3, <1>5, <1>11, <3>1 DEF Flowing, KnowThePast
    <3> QED BY <3>2 DEF Flowing, StatesFollow, Behind
  <2>2. Behind(deferred, BlocksIn(stream) \union BlocksIn(pending), MayLeave')
    <3> SUFFICES ASSUME NEW i \in StateUpdatesIn(deferred), NEW k \in MayLeave',
                        k \notin BlocksIn(stream) \union BlocksIn(pending)
                 PROVE  \E j \in 1..(i - 1) : deferred[j].block = k
      BY DEF Behind
    <3>1. i = 2 /\ deferred[1].block = Len(blocks) + 1
      BY <1>6
    <3>2. k = Len(blocks) + 1
      BY <1>4 DEF Flowing, OnTheirWay
    <3> QED BY <3>1, <3>2
  <2>3. Behind(pending \o deferred, BlocksIn(stream), MayLeave')
    BY <1>2, <2>1, <2>2, BehindBoth
  <2> DEFINE both == pending \o deferred
  <2>4. pending' = both /\ Behind(both, BlocksIn(stream), MayLeave')
    BY <1>1, <2>3
  <2> HIDE DEF both
  <2> QED BY <1>7, <2>4 DEF Behind, StateUpdatesIn, ModelUpdatesIn
<1>15. StatesFollow'
  BY <1>13, <1>14 DEF StatesFollow
<1> QED BY <1>8, <1>9, <1>12, <1>15 DEF Flowing

LEMMA Next_Flowing ==
  ASSUME FlowingUnlessFailed, Types, Locks, [Next]_vars
  PROVE  FlowingUnlessFailed'
<1>1. TurnIsHeld /\ TurnIsHeld'
  BY Next_TurnIsHeld DEF FlowingUnlessFailed, Locks
<1>2. ASSUME failures' = {} PROVE Flowing'
  <2>1. /\ failures = {}
        /\ \A t \in Thread : ~ RaiseInBody(t)
        /\ \A t \in Thread, publish \in Publish : ~ EnterMismatching(t, publish)
        /\ \A t \in Thread : Commit(t) => Goes(t, "claiming")
    BY <1>2, FailuresStay DEF Locks
  <2>2. Flowing
    BY <2>1 DEF FlowingUnlessFailed
  <2>3. ASSUME NEW t \in Thread, Commit(t) PROVE Flowing'
    BY <1>1, <2>1, <2>2, <2>3, Commit_Flowing
  <2>4. ASSUME NEW t \in Thread, NEW d \in Dof, WriteState(t, d) PROVE Flowing'
    BY <1>1, <2>2, <2>4, Write_Flowing
  <2>5. ASSUME NEW t \in Thread, Flush(t) PROVE Flowing'
    BY <1>1, <2>2, <2>5, Flush_Flowing
  <2>6. ASSUME NEW t \in Thread, Defer(t) PROVE Flowing'
    BY <1>1, <2>2, <2>6, Defer_Flowing
  <2>7. ASSUME NEW t \in Thread, PublishNow(t) PROVE Flowing'
    BY <1>1, <2>2, <2>7, PublishNow_Flowing
  <2>8. ASSUME NEW t \in Thread,
               \/ \E publish \in Publish : Enter(t, publish)
               \/ \E d \in Dof : AddDof(t, d)
               \/ ExitNested(t) \/ Release(t) \/ ClaimTurn(t) \/ Announce(t)
               \/ PublishOrDefer(t) \/ RememberState(t)
        PROVE  Flowing'
    BY <1>1, <2>2, <2>8, Others_Flowing
  <2>9. CASE UNCHANGED vars
    BY <2>2, <2>9
       DEF Flowing, OnTheirWay, AnnouncesKnown, KnowThePast, StatesFollow, Behind, MayLeave,
           BlocksIn, ModelUpdatesIn, StateUpdatesIn, vars, managerVars, threadVars
  <2> QED
    BY <2>1, <2>3, <2>4, <2>5, <2>6, <2>7, <2>8, <2>9 DEF Next, Act, Leave, Continue
<1> QED BY <1>1, <1>2 DEF FlowingUnlessFailed

LEMMA Spec_Flowing == Spec => []FlowingUnlessFailed
<1>1. FlowingUnlessFailed /\ (Locks /\ Types) /\ [Next]_vars => FlowingUnlessFailed'
  BY Next_Flowing
<1> QED BY <1>1, Init_Flowing, Spec_Types, PTL DEF Spec

\* While nothing goes wrong, no block that may leave is left behind: whoever recorded
\* it flushes it, or another thread that flushes first takes it along.
THEOREM BlocksAreFlushed == Spec => []EveryBlockLeaves
<1>1. FlowingUnlessFailed => EveryBlockLeaves
  <2> SUFFICES ASSUME Flowing, AtRest, NEW k \in DOMAIN blocks, blocks[k].publish = "yes"
               PROVE  Published(k)
    BY DEF FlowingUnlessFailed, EveryBlockLeaves
  <2>1. BlocksIn(pending) = {}
    BY DEF Flowing, OnTheirWay, AtRest, Ready
  <2>2. k \in BlocksIn(stream)
    BY <2>1 DEF Flowing, OnTheirWay, MayLeave
  <2> QED BY <2>2 DEF BlocksIn, ModelUpdatesIn, Published
<1> QED BY <1>1, Spec_Flowing, PTL

\* While nothing goes wrong, no thread announces a state before every modification it
\* had seen completed has been published (publishing_in_order), however many threads
\* write and modify.
THEOREM StatesFollowTheirModel == Spec => []StateBehindModelUnlessFailed
<1>1. FlowingUnlessFailed => StateBehindModelUnlessFailed
  <2> SUFFICES ASSUME Flowing, NEW i \in StateUpdatesIn(stream), NEW k \in DOMAIN blocks,
                      blocks[k].publish = "yes", k <= stream[i].knows
               PROVE  \E j \in 1..(i - 1) : stream[j].block = k
    BY DEF FlowingUnlessFailed, StateBehindModelUnlessFailed, StateBehindModel
  <2> QED BY DEF Flowing, StatesFollow, Behind, MayLeave
<1> QED BY <1>1, Spec_Flowing, PTL

\* However many threads write and modify (publishing_in_order): blocks leave once, in
\* order and, while nothing goes wrong, all of them, and the state of a thread behind the
\* blocks that were complete when it held the lock.  Nothing is said of a block that was
\* open then: its degrees of freedom may leave in a state ahead of it.
THEOREM StreamsKeepTheirOrder == Spec => []StreamKeepsItsOrder
BY BlocksLeaveInTheirOrder, BlocksAreFlushed, StatesFollowTheirModel, PTL
   DEF StreamKeepsItsOrder
-----------------------------------------------------------------------------
\* The stream carries the state.  What the updates say of a degree of freedom last:
Mentions(updates, d) == \E i \in DOMAIN updates : d \in DOMAIN updates[i].positions

Carries(updates, d, value) ==
  \E i \in DOMAIN updates :
    /\ d \in DOMAIN updates[i].positions /\ updates[i].positions[d] = value
    /\ \A j \in DOMAIN updates : d \in DOMAIN updates[j].positions => j <= i

\* An update may be appended if it does not contradict what they carry, ...
LEMMA CarriesOnAppended ==
  ASSUME NEW updates \in Seq(Update), NEW u \in Update, NEW d, NEW value,
         d \in DOMAIN u.positions => u.positions[d] = value
  PROVE  /\ d \in DOMAIN u.positions \/ Carries(updates, d, value)
              => Carries(Append(updates, u), d, value)
         /\ Mentions(Append(updates, u), d) => d \in DOMAIN u.positions \/ Mentions(updates, d)
<1> DEFINE longer == Append(updates, u)
<1>1. /\ DOMAIN longer = 1..(Len(updates) + 1)
      /\ \A i \in 1..Len(updates) : longer[i] = updates[i]
      /\ longer[Len(updates) + 1] = u
      /\ DOMAIN updates = 1..Len(updates) /\ Len(updates) \in Nat
  BY AppendProperties, LenProperties
<1> HIDE DEF longer
<1>2. ASSUME d \in DOMAIN u.positions PROVE Carries(longer, d, value)
  BY <1>1, <1>2 DEF Carries
<1>3. ASSUME d \notin DOMAIN u.positions, Carries(updates, d, value)
      PROVE  Carries(longer, d, value)
  BY <1>1, <1>3 DEF Carries
<1>4. Mentions(longer, d) => d \in DOMAIN u.positions \/ Mentions(updates, d)
  BY <1>1 DEF Mentions
<1> QED BY <1>2, <1>3, <1>4 DEF longer

\* ... and a sequence of them carries what its second part carries, or its first part
\* if the second does not mention it.
LEMMA CarriesOfBoth ==
  ASSUME NEW first \in Seq(Update), NEW second \in Seq(Update), NEW d, NEW value,
         \/ Carries(second, d, value)
         \/ Carries(first, d, value) /\ ~ Mentions(second, d)
  PROVE  Carries(first \o second, d, value)
<1> DEFINE both == first \o second
<1>1. /\ DOMAIN both = 1..(Len(first) + Len(second))
      /\ \A k \in 1..(Len(first) + Len(second)) :
           both[k] = IF k <= Len(first) THEN first[k] ELSE second[k - Len(first)]
      /\ DOMAIN first = 1..Len(first) /\ DOMAIN second = 1..Len(second)
      /\ Len(first) \in Nat /\ Len(second) \in Nat
  BY ConcatProperties, LenProperties
<1> HIDE DEF both
<1>2. ASSUME Carries(second, d, value) PROVE Carries(both, d, value)
  <2>1. PICK i \in DOMAIN second :
          /\ d \in DOMAIN second[i].positions /\ second[i].positions[d] = value
          /\ \A j \in DOMAIN second : d \in DOMAIN second[j].positions => j <= i
    BY <1>2 DEF Carries
  <2>2. i + Len(first) \in DOMAIN both /\ both[i + Len(first)] = second[i]
    BY <1>1
  <2>3. ASSUME NEW j \in DOMAIN both, d \in DOMAIN both[j].positions PROVE j <= i + Len(first)
    <3>1. CASE j <= Len(first)
      BY <1>1, <3>1
    <3>2. CASE ~ j <= Len(first)
      <4>1. j - Len(first) \in DOMAIN second /\ both[j] = second[j - Len(first)]
        BY <1>1, <3>2
      <4>2. j - Len(first) <= i
        BY <2>1, <2>3, <4>1
      <4> QED BY <1>1, <4>2
    <3> QED BY <3>1, <3>2
  <2> QED BY <2>1, <2>2, <2>3 DEF Carries
<1>3. ASSUME Carries(first, d, value), ~ Mentions(second, d) PROVE Carries(both, d, value)
  <2>1. PICK i \in DOMAIN first :
          /\ d \in DOMAIN first[i].positions /\ first[i].positions[d] = value
          /\ \A j \in DOMAIN first : d \in DOMAIN first[j].positions => j <= i
    BY <1>3 DEF Carries
  <2>2. i \in DOMAIN both /\ both[i] = first[i]
    BY <1>1
  <2>3. ASSUME NEW j \in DOMAIN both, d \in DOMAIN both[j].positions PROVE j <= i
    <3>1. CASE j <= Len(first)
      BY <1>1, <2>1, <2>3, <3>1
    <3>2. CASE ~ j <= Len(first)
      <4>1. j - Len(first) \in DOMAIN second /\ both[j] = second[j - Len(first)]
        BY <1>1, <3>2
      <4> QED BY <1>3, <2>3, <4>1 DEF Mentions
    <3> QED BY <3>1, <3>2
  <2> QED BY <2>1, <2>2, <2>3 DEF Carries
<1> QED BY <1>2, <1>3 DEF both
-----------------------------------------------------------------------------
\* What a single writer announces is what the world holds until it has left.
AnnouncesTruly ==
  /\ \A t \in Thread :
       stage[t] \in {"announcing", "deciding", "deferring", "publishing", "remembering"}
         => t \in Writers
  /\ \A t \in Thread : stage[t] \in {"deciding", "deferring", "publishing"} =>
       \A d \in DOMAIN update[t].positions :
         d \in DOMAIN position /\ update[t].positions[d] = position[d]
  /\ \A d \in DOMAIN previous : previous[d] <= position[d]
  /\ beingModified <=> contexts > 0

LoneWriter == \A s, t \in Writers : s = t

LEMMA Init_AnnouncesTruly == Init => AnnouncesTruly
BY WorldAssumption DEF Init, AnnouncesTruly

LEMMA Next_AnnouncesTruly ==
  ASSUME AnnouncesTruly, Types, Locks, LoneWriter, [Next]_vars
  PROVE  AnnouncesTruly'
<1> DEFINE Truthful(t) ==
      /\ stage[t] \in {"announcing", "deciding", "deferring", "publishing", "remembering"}
           => t \in Writers
      /\ stage[t] \in {"deciding", "deferring", "publishing"} =>
           \A d \in DOMAIN update[t].positions :
             d \in DOMAIN position /\ update[t].positions[d] = position[d]
<1> USE WorldAssumption
<1>1. /\ stage \in [Thread -> Stages] /\ update \in [Thread -> Update]
      /\ contexts \in Nat
      /\ \A d \in DOMAIN position : position[d] \in Nat
      /\ DOMAIN previous \subseteq DOMAIN position
      /\ \A d \in DOMAIN previous : previous[d] \in Nat
  BY PositionsOf DEF Types, Locks, LockTypes
<1>2. ASSUME NEW t \in Thread, NEW d \in Dof, WriteState(t, d) PROVE AnnouncesTruly'
  <2>1. /\ position' = [position EXCEPT ![d] = @ + 1] /\ t \in Writers
        /\ stage' = [stage EXCEPT ![t] = "announcing"] /\ stage[t] = "ready"
        /\ UNCHANGED <<update, previous, contexts, beingModified>>
    BY <1>2 DEF WriteState, Goes, Ready, managerVars
  <2>2. DOMAIN position' = DOMAIN position /\ \A e \in DOMAIN position : position[e] <= position'[e]
    BY <1>1, <2>1
  <2>3. \A s \in Thread : stage'[s] \in {"deciding", "deferring", "publishing"} => FALSE
    BY <1>1, <2>1 DEF AnnouncesTruly, LoneWriter
  <2>4. \A s \in Thread :
          stage'[s] \in {"announcing", "deciding", "deferring", "publishing", "remembering"}
            => s \in Writers
    BY <1>1, <2>1 DEF AnnouncesTruly
  <2>5. \A e \in DOMAIN previous' : previous'[e] <= position'[e]
    BY <1>1, <2>1, <2>2 DEF AnnouncesTruly
  <2> QED BY <2>1, <2>3, <2>4, <2>5 DEF AnnouncesTruly
<1>3. ASSUME NEW t \in Thread, NEW d \in Dof, AddDof(t, d) PROVE AnnouncesTruly'
  <2>1. /\ position' = [e \in DOMAIN position \union {d} |-> IF e = d THEN 0 ELSE position[e]]
        /\ d \notin DOMAIN position
        /\ UNCHANGED <<stage, update, previous, contexts, beingModified>>
    BY <1>3 DEF AddDof, managerVars, threadVars
  <2>2. \A e \in DOMAIN position : e \in DOMAIN position' /\ position'[e] = position[e]
    BY <2>1
  <2> QED BY <1>1, <2>1, <2>2 DEF AnnouncesTruly
<1>4. ASSUME NEW t \in Thread, Announce(t) PROVE AnnouncesTruly'
  <2>1. /\ UNCHANGED <<position, previous, contexts, beingModified>>
        /\ stage[t] = "announcing"
    BY <1>4 DEF Announce, managerVars, worldVars
  <2>2. \A e \in DOMAIN Changes : e \in DOMAIN position /\ Changes[e] = position[e]
    BY DEF Changes
  <2>3. CASE Changes = NoPositions
    <3>1. stage' = [stage EXCEPT ![t] = "ready"] /\ UNCHANGED update
      BY <1>4, <2>3 DEF Announce, Goes
    <3> QED BY <1>1, <2>1, <3>1 DEF AnnouncesTruly
  <2>4. CASE Changes # NoPositions
    <3>1. /\ stage' = [stage EXCEPT ![t] = "deciding"]
          /\ update' = [update EXCEPT ![t] = StateUpdate(Changes, knows[t])]
      BY <1>4, <2>4 DEF Announce, Goes
    <3>2. update'[t].positions = Changes
      BY <1>1, <3>1 DEF StateUpdate
    <3>3. \A s \in Thread : s # t => stage'[s] = stage[s] /\ update'[s] = update[s]
      BY <1>1, <3>1
    <3>4. \A s \in Thread : Truthful(s)'
      BY <1>1, <2>1, <2>2, <3>1, <3>2, <3>3 DEF AnnouncesTruly
    <3> QED BY <2>1, <3>4 DEF AnnouncesTruly
  <2> QED BY <2>3, <2>4
<1>5. ASSUME NEW t \in Thread, NEW next, Goes(t, next),
             \/ next \in {"ready", "releasing", "claiming", "flushing"}
             \/ /\ next \in {"deferring", "publishing", "remembering"}
                /\ stage[t] \in {"deciding", "deferring", "publishing"}
                /\ next # "remembering" => update' = update,
             UNCHANGED position, \A s \in Thread : s # t => update'[s] = update[s]
      PROVE  \A s \in Thread : Truthful(s)'
  <2>1. stage' = [stage EXCEPT ![t] = next]
    BY <1>5 DEF Goes
  <2>2. \A s \in Thread : s # t => stage'[s] = stage[s]
    BY <1>1, <2>1
  <2>3. stage'[t] = next
    BY <1>1, <2>1
  <2> QED BY <1>5, <2>2, <2>3 DEF AnnouncesTruly
<1>6. ASSUME NEW t \in Thread, RememberState(t) PROVE AnnouncesTruly'
  <2>1. /\ previous' = position /\ UNCHANGED <<position, contexts, beingModified>>
        /\ Goes(t, "ready") /\ \A s \in Thread : s # t => update'[s] = update[s]
    BY <1>1, <1>6 DEF RememberState, managerVars, worldVars
  <2>2. \A s \in Thread : Truthful(s)'
    BY <1>5, <2>1
  <2>3. \A d \in DOMAIN previous' : previous'[d] <= position'[d]
    BY <1>1, <2>1
  <2> QED BY <2>1, <2>2, <2>3 DEF AnnouncesTruly
<1>7. ASSUME NEW t \in Thread, Commit(t) PROVE AnnouncesTruly'
  <2>1. /\ previous' = position /\ UNCHANGED <<position, update>>
        /\ contexts' = 0 /\ beingModified' = FALSE
        /\ Goes(t, "claiming") \/ Goes(t, "releasing")
    BY <1>7 DEF Commit
  <2>2. \A s \in Thread : Truthful(s)'
    BY <1>5, <2>1
  <2>3. \A d \in DOMAIN previous' : previous'[d] <= position'[d]
    BY <1>1, <2>1
  <2> QED BY <2>1, <2>2, <2>3 DEF AnnouncesTruly
<1>8. ASSUME NEW t \in Thread, RaiseInBody(t) \/ ExitNested(t) PROVE AnnouncesTruly'
  <2>1. UNCHANGED <<position, previous, update>> /\ Goes(t, "releasing")
    BY <1>8 DEF RaiseInBody, ExitNested, worldVars
  <2>2. beingModified' <=> contexts' > 0
    BY <1>1, <1>8 DEF RaiseInBody, ExitNested, Inside, AnnouncesTruly
  <2>3. \A s \in Thread : Truthful(s)'
    BY <1>5, <2>1
  <2> QED BY <2>1, <2>2, <2>3 DEF AnnouncesTruly
<1>9. ASSUME NEW t \in Thread,
             \/ Release(t) \/ ClaimTurn(t) \/ Flush(t) \/ PublishOrDefer(t) \/ Defer(t)
             \/ PublishNow(t)
      PROVE  AnnouncesTruly'
  <2>1. UNCHANGED <<position, previous, update, contexts, beingModified>>
    BY <1>9
       DEF Release, ClaimTurn, Flush, PublishOrDefer, Defer, PublishNow, managerVars, worldVars
  <2>2. \A s \in Thread : Truthful(s)'
    <3>1. CASE Release(t) \/ ClaimTurn(t) \/ Flush(t)
      <4>1. Goes(t, "ready") \/ Goes(t, "flushing")
        BY <3>1 DEF Release, ClaimTurn, Flush
      <4> QED BY <1>5, <2>1, <4>1
    <3>2. CASE PublishOrDefer(t)
      <4>1. stage[t] = "deciding" /\ (Goes(t, "deferring") \/ Goes(t, "publishing"))
        BY <3>2 DEF PublishOrDefer
      <4> QED BY <1>5, <2>1, <4>1
    <3>3. CASE Defer(t) \/ PublishNow(t)
      <4>1. stage[t] \in {"deferring", "publishing"} /\ Goes(t, "remembering")
        BY <3>3 DEF Defer, PublishNow
      <4> QED BY <1>5, <2>1, <4>1
    <3> QED BY <1>9, <3>1, <3>2, <3>3
  <2> QED BY <2>1, <2>2 DEF AnnouncesTruly
<1>10. ASSUME NEW t \in Thread, NEW publish \in Publish,
              Enter(t, publish) \/ EnterMismatching(t, publish)
       PROVE  AnnouncesTruly'
  <2>1. UNCHANGED <<position, previous, update, stage>>
    BY <1>10 DEF Enter, EnterMismatching, worldVars, threadVars
  <2>2. beingModified' <=> contexts' > 0
    BY <1>1, <1>10 DEF Enter, EnterMismatching, AnnouncesTruly, managerVars
  <2> QED BY <2>1, <2>2 DEF AnnouncesTruly
<1>11. CASE UNCHANGED vars
  BY <1>11 DEF AnnouncesTruly, vars, managerVars, worldVars, threadVars
<1> QED
  BY <1>2, <1>3, <1>4, <1>6, <1>7, <1>8, <1>9, <1>10, <1>11 DEF Next, Act, Leave, Continue
-----------------------------------------------------------------------------
\* Whoever follows the stream and then what is deferred has a position, ...
Carried(d) ==
  \/ Carries(pending, d, position[d])
  \/ Carries(stream, d, position[d]) /\ ~ Mentions(pending, d)

\* ... or a thread is about to publish it.
Owes(d) ==
  \E t \in Writers :
    \/ stage[t] = "announcing" /\ d \in DOMAIN Changes
    \/ stage[t] \in {"deciding", "publishing"} /\ d \in DOMAIN update[t].positions

Claiming == {t \in Thread : stage[t] = "claiming"}
Flushing == {t \in Thread : stage[t] = "flushing"}

\* What is deferred counts while somebody is about to flush it.
Brought(d) ==
  IF Claiming \union Flushing # {} THEN Carried(d) ELSE Carries(stream, d, position[d])

Accounted(d) == Brought(d) \/ (Owes(d) /\ Claiming = {})

AllMayLeave == \A k \in DOMAIN blocks : blocks[k].publish = "yes"
Written == {d \in DOMAIN position : position[d] > 0 \/ d \notin InitialDof}

\* Between modifications no position is lost.
NothingIsLost ==
  failures = {} /\ contexts = 0 /\ AllMayLeave => \A d \in Written : Accounted(d)

LEMMA Init_NothingIsLost == Init => NothingIsLost
BY DEF Init, NothingIsLost, Written

\* Nothing changes for a degree of freedom that is written by nobody.
LEMMA StillBrought ==
  ASSUME UNCHANGED <<pending, stream>>, NEW d \in DOMAIN position, position'[d] = position[d],
         Claiming' \union Flushing' = Claiming \union Flushing, Brought(d)
  PROVE  Brought(d)'
BY DEF Brought, Carried, Carries, Mentions

\* A step of a thread that neither heads for the turn before it nor after it.
LEMMA NobodyElseHeads ==
  ASSUME LockTypes, NEW t \in Thread, NEW next, Goes(t, next),
         stage[t] \notin {"claiming", "flushing"}, next \notin {"claiming", "flushing"}
  PROVE  Claiming' = Claiming /\ Flushing' = Flushing
BY DEF LockTypes, Goes, Claiming, Flushing

LEMMA WriteState_NothingIsLost ==
  ASSUME NothingIsLost, AnnouncesTruly, Types, Locks, LoneWriter,
         NEW t \in Thread, NEW d \in Dof, WriteState(t, d)
  PROVE  NothingIsLost'
<1> USE WorldAssumption
<1>1. /\ position' = [position EXCEPT ![d] = @ + 1] /\ t \in Writers /\ d \in DOMAIN position
      /\ stage' = [stage EXCEPT ![t] = "announcing"] /\ stage[t] = "ready"
      /\ UNCHANGED <<update, previous, pending, stream, contexts, blocks, failures>>
      /\ Goes(t, "announcing") /\ CanLock(t)
  BY DEF WriteState, Goes, Ready, managerVars
<1>2. /\ stage \in [Thread -> Stages]
      /\ \A e \in DOMAIN position : position[e] \in Nat
      /\ DOMAIN previous \subseteq DOMAIN position /\ DOMAIN position \subseteq Dof
      /\ \A e \in DOMAIN previous : previous[e] \in Nat
  BY PositionsOf DEF Types, Locks, LockTypes
<1>3. /\ DOMAIN position' = DOMAIN position /\ position'[d] = position[d] + 1
      /\ \A e \in DOMAIN position : e # d => position'[e] = position[e]
      /\ stage'[t] = "announcing"
  BY <1>1, <1>2
<1>4. Claiming' = Claiming /\ Flushing' = Flushing
  BY <1>1, NobodyElseHeads DEF Locks
<1>5. Claiming = {}
  BY <1>1, <1>2 DEF Claiming, Locks, LockIsOwed, Leaving, CanLock
<1>6. \A e \in Dof : ~ Owes(e)
  BY <1>1 DEF Owes, LoneWriter
<1>7. d \in DOMAIN Changes'
  <2>1. CASE Cardinality(DOMAIN previous) # Cardinality(DOMAIN position)
    <3>1. Changes' = position'
      BY <1>1, <1>3, <2>1 DEF Changes
    <3> QED BY <1>1, <1>3, <3>1
  <2>2. CASE Cardinality(DOMAIN previous) = Cardinality(DOMAIN position)
    <3>1. IsFiniteSet(DOMAIN position)
      BY <1>2, FS_Subset
    <3>2. DOMAIN previous = DOMAIN position
      BY <1>2, <2>2, <3>1, FS_Subset
    <3>3. position'[d] # previous'[d]
      BY <1>1, <1>2, <1>3, <3>2 DEF AnnouncesTruly
    <3>4. Changes' = [e \in {f \in DOMAIN position' : position'[f] # previous'[f]} |-> position'[e]]
      BY <1>1, <1>3, <2>2 DEF Changes
    <3> QED BY <1>1, <1>3, <3>3, <3>4
  <2> QED BY <2>1, <2>2
<1>8. Owes(d)'
  BY <1>1, <1>3, <1>7 DEF Owes
<1> SUFFICES ASSUME failures = {}, contexts = 0, AllMayLeave, NEW e \in Written'
             PROVE  Accounted(e)'
  BY <1>1 DEF NothingIsLost, AllMayLeave
<1>9. CASE e = d
  BY <1>4, <1>5, <1>8, <1>9 DEF Accounted
<1>10. CASE e # d
  <2>1. e \in Written /\ e \in DOMAIN position /\ position'[e] = position[e]
    BY <1>3, <1>10 DEF Written
  <2>2. Brought(e)
    BY <1>2, <1>6, <2>1 DEF NothingIsLost, Accounted
  <2>3. Brought(e)'
    BY <1>1, <1>4, <2>1, <2>2, StillBrought
  <2> QED BY <2>3 DEF Accounted
<1> QED BY <1>9, <1>10

\* The steps of the writer until its update has left, and those that change neither
\* what is published nor what is deferred.
LEMMA Quiet_NothingIsLost ==
  ASSUME NothingIsLost, AnnouncesTruly, Types, Locks, LoneWriter,
         NEW t \in Thread,
         \/ Announce(t) \/ PublishOrDefer(t) \/ RememberState(t) \/ Release(t) \/ ClaimTurn(t)
  PROVE  NothingIsLost'
<1> USE WorldAssumption
<1>1. UNCHANGED <<position, pending, stream, contexts, blocks, failures>>
  BY DEF Announce, PublishOrDefer, RememberState, Release, ClaimTurn, managerVars, worldVars
<1>2. stage \in [Thread -> Stages] /\ update \in [Thread -> Update]
  BY DEF Types, Locks, LockTypes
<1> SUFFICES ASSUME failures = {}, contexts = 0, AllMayLeave, NEW d \in Written
             PROVE  Accounted(d)'
  BY <1>1 DEF NothingIsLost, AllMayLeave, Written
<1>3. Accounted(d) /\ d \in DOMAIN position
  BY DEF NothingIsLost, Written
<1>4. ASSUME Claiming' = Claiming, Flushing' = Flushing, Owes(d) => Owes(d)'
      PROVE  Accounted(d)'
  <2>1. Brought(d) => Brought(d)'
    BY <1>1, <1>3, <1>4, StillBrought
  <2> QED BY <1>3, <1>4, <2>1 DEF Accounted
<1>5. CASE Announce(t)
  <2>1. stage[t] = "announcing" /\ t \in Writers
    BY <1>5 DEF Announce, AnnouncesTruly
  <2>2. Goes(t, "ready") \/ Goes(t, "deciding")
    BY <1>5 DEF Announce
  <2>3. Claiming' = Claiming /\ Flushing' = Flushing
    BY <2>1, <2>2, NobodyElseHeads DEF Locks
  <2>4. ASSUME Owes(d) PROVE Owes(d)'
    <3>1. d \in DOMAIN Changes
      BY <2>1, <2>4 DEF Owes, LoneWriter
    <3>2. Changes # NoPositions
      BY <3>1 DEF NoPositions
    <3>3. /\ stage' = [stage EXCEPT ![t] = "deciding"]
          /\ update' = [update EXCEPT ![t] = StateUpdate(Changes, knows[t])]
      BY <1>5, <3>2 DEF Announce, Goes
    <3>4. stage'[t] = "deciding" /\ update'[t].positions = Changes
      BY <1>2, <3>3 DEF StateUpdate
    <3> QED BY <2>1, <3>1, <3>4 DEF Owes
  <2> QED BY <1>4, <2>3, <2>4
<1>6. CASE PublishOrDefer(t)
  <2>1. stage[t] = "deciding" /\ t \in Writers /\ update' = update
    BY <1>6 DEF PublishOrDefer, AnnouncesTruly
  <2>2. Goes(t, "publishing")
    BY <1>6 DEF PublishOrDefer, AnnouncesTruly
  <2>3. Claiming' = Claiming /\ Flushing' = Flushing
    BY <2>1, <2>2, NobodyElseHeads DEF Locks
  <2>4. Owes(d) => Owes(d)'
    <3>1. stage'[t] = "publishing"
      BY <1>2, <2>2 DEF Goes
    <3> QED BY <2>1, <3>1 DEF Owes, LoneWriter
  <2> QED BY <1>4, <2>3, <2>4
<1>7. CASE RememberState(t)
  <2>1. stage[t] = "remembering" /\ t \in Writers /\ Goes(t, "ready")
    BY <1>7 DEF RememberState, AnnouncesTruly
  <2>2. Claiming' = Claiming /\ Flushing' = Flushing
    BY <2>1, NobodyElseHeads DEF Locks
  <2>3. ~ Owes(d)
    BY <2>1 DEF Owes, LoneWriter
  <2> QED BY <1>4, <2>2, <2>3
<1>8. CASE Release(t)
  <2>1. stage[t] = "releasing" /\ Goes(t, "ready") /\ UNCHANGED <<update, previous>>
    BY <1>8 DEF Release
  <2>2. Claiming' = Claiming /\ Flushing' = Flushing
    BY <2>1, NobodyElseHeads DEF Locks
  <2>3. Changes' = Changes
    BY <1>1, <2>1 DEF Changes
  <2>4. \A s \in Writers : s # t => stage'[s] = stage[s]
    BY <1>2, <2>1 DEF Goes
  <2>5. Owes(d) => Owes(d)'
    BY <2>1, <2>3, <2>4 DEF Owes
  <2> QED BY <1>4, <2>2, <2>5
<1>9. CASE ClaimTurn(t)
  <2>1. stage[t] = "claiming" /\ stage' = [stage EXCEPT ![t] = "flushing"]
    BY <1>9 DEF ClaimTurn, Goes
  <2>2. t \in Claiming /\ t \in Flushing'
    BY <1>2, <2>1 DEF Claiming, Flushing
  <2>3. Claiming' \union Flushing' = Claiming \union Flushing
    BY <1>2, <2>1 DEF Claiming, Flushing
  <2>4. Brought(d)
    BY <1>3, <2>2 DEF Accounted
  <2>5. Brought(d)'
    BY <1>1, <1>3, <2>3, <2>4, StillBrought
  <2> QED BY <2>5 DEF Accounted
<1> QED BY <1>5, <1>6, <1>7, <1>8, <1>9

LEMMA Flush_NothingIsLost ==
  ASSUME NothingIsLost, Types, Locks, TurnIsHeld, NEW t \in Thread, Flush(t)
  PROVE  NothingIsLost'
<1> USE WorldAssumption
<1>1. /\ UNCHANGED <<position, previous, update, contexts, blocks, failures>>
      /\ stream' = stream \o pending /\ pending' = <<>>
      /\ stage[t] = "flushing" /\ stage' = [stage EXCEPT ![t] = "ready"]
  BY DEF Flush, Goes, managerVars, worldVars
<1>2. stage \in [Thread -> Stages] /\ stream \in Seq(Update) /\ pending \in Seq(Update)
  BY DEF Types, Locks, LockTypes
<1> SUFFICES ASSUME failures = {}, contexts = 0, AllMayLeave, NEW d \in Written
             PROVE  Accounted(d)'
  BY <1>1 DEF NothingIsLost, AllMayLeave, Written
<1>3. Accounted(d)
  BY DEF NothingIsLost
<1>4. Claiming' = Claiming /\ t \in Flushing
  BY <1>1, <1>2 DEF Claiming, Flushing
<1>5. Owes(d) => Owes(d)'
  <2>1. Changes' = Changes
    BY <1>1 DEF Changes
  <2>2. \A s \in Writers : s # t => stage'[s] = stage[s]
    BY <1>1, <1>2
  <2> QED BY <1>1, <2>1, <2>2 DEF Owes
<1>6. Brought(d) => Brought(d)'
  <2> SUFFICES ASSUME Carried(d) PROVE Brought(d)'
    BY <1>4 DEF Brought
  <2>1. Carries(stream \o pending, d, position[d])
    BY <1>2, CarriesOfBoth DEF Carried
  <2>2. Carries(stream', d, position'[d])
    BY <1>1, <2>1
  <2>3. Carries(stream, d, position[d])'
    BY <2>2 DEF Carries
  <2>4. ~ Mentions(pending, d)'
    BY <1>1 DEF Mentions
  <2> QED BY <2>3, <2>4 DEF Brought, Carried
<1> QED BY <1>3, <1>4, <1>5, <1>6 DEF Accounted

\* An update leaves or is deferred behind what was published or deferred before it.
LEMMA Leaves_NothingIsLost ==
  ASSUME NothingIsLost, AnnouncesTruly, Types, Locks, TurnIsHeld, LoneWriter,
         NEW t \in Thread, Defer(t) \/ PublishNow(t)
  PROVE  NothingIsLost'
<1> USE WorldAssumption
<1>1. /\ UNCHANGED <<position, previous, update, contexts, blocks, failures>>
      /\ stage[t] \in {"deferring", "publishing"} /\ Goes(t, "remembering")
  BY DEF Defer, PublishNow, managerVars, worldVars
<1>2. /\ stage \in [Thread -> Stages] /\ stream \in Seq(Update) /\ pending \in Seq(Update)
      /\ update[t] \in Update /\ t \in Writers
  BY <1>1 DEF Types, Locks, LockTypes, AnnouncesTruly
<1> SUFFICES ASSUME failures = {}, contexts = 0, AllMayLeave, NEW d \in Written
             PROVE  Accounted(d)'
  BY <1>1 DEF NothingIsLost, AllMayLeave, Written
<1>3. Accounted(d)
  BY DEF NothingIsLost
<1>4. Claiming' = Claiming /\ Flushing' = Flushing
  BY <1>1, NobodyElseHeads DEF Locks
<1>5. d \in DOMAIN update[t].positions => update[t].positions[d] = position[d]
  BY <1>1 DEF AnnouncesTruly
<1>6. CASE Defer(t)
  <2>1. stage[t] = "deferring" /\ pending' = Append(pending, update[t]) /\ stream' = stream
    BY <1>6 DEF Defer
  <2>2. ~ Owes(d)
    BY <1>2, <2>1 DEF Owes, LoneWriter
  <2>3. /\ \/ d \in DOMAIN update[t].positions \/ Carries(pending, d, position[d])
           => Carries(Append(pending, update[t]), d, position[d])
        /\ Mentions(Append(pending, update[t]), d)
             => d \in DOMAIN update[t].positions \/ Mentions(pending, d)
    BY <1>2, <1>5, CarriesOnAppended
  <2>4. Carried(d) => Carried(d)'
    <3>1. /\ Carries(pending, d, position[d])' <=> Carries(pending', d, position[d])
          /\ Mentions(pending, d)' <=> Mentions(pending', d)
          /\ Carries(stream, d, position[d])' <=> Carries(stream, d, position[d])
      BY <1>1, <2>1 DEF Carries, Mentions
    <3> QED BY <2>1, <2>3, <3>1 DEF Carried
  <2>5. Carries(stream, d, position[d]) => Carries(stream, d, position[d])'
    BY <1>1, <2>1 DEF Carries
  <2> QED BY <1>3, <1>4, <2>2, <2>4, <2>5 DEF Accounted, Brought
<1>7. CASE PublishNow(t)
  <2>1. /\ stage[t] = "publishing" /\ order = NoThread
        /\ stream' = Append(stream, update[t]) /\ pending' = pending
    BY <1>7 DEF PublishNow
  <2>2. Flushing = {}
    BY <2>1 DEF Flushing, TurnIsHeld
  <2>3. d \in DOMAIN update[t].positions \/ Carries(stream, d, position[d])
          => Carries(Append(stream, update[t]), d, position[d])
    BY <1>2, <1>5, CarriesOnAppended
  <2>4. Carries(stream, d, position[d])' <=> Carries(stream', d, position[d])
    BY <1>1 DEF Carries
  <2>5. /\ Carries(pending, d, position[d])' <=> Carries(pending, d, position[d])
        /\ Mentions(pending, d)' <=> Mentions(pending, d)
    BY <1>1, <2>1 DEF Carries, Mentions
  <2>6. Owes(d) => d \in DOMAIN update[t].positions
    BY <1>2, <2>1 DEF Owes, LoneWriter
  <2>7. CASE Claiming = {}
    BY <1>3, <1>4, <2>1, <2>2, <2>3, <2>4, <2>6, <2>7 DEF Accounted, Brought
  <2>8. CASE Claiming # {}
    BY <1>3, <1>4, <2>1, <2>3, <2>4, <2>5, <2>8 DEF Accounted, Brought, Carried
  <2> QED BY <2>7, <2>8
<1> QED BY <1>6, <1>7

\* A modification that may leave defers every position with its block.
LEMMA Commit_NothingIsLost ==
  ASSUME Types, Locks, NEW t \in Thread, Commit(t), Goes(t, "claiming")
  PROVE  NothingIsLost'
<1> USE WorldAssumption
<1>1. /\ UNCHANGED <<position, stream>>
      /\ pending' = pending \o Deferred(willBePublished)
      /\ blocks' = Append(blocks, [dofs |-> block, publish |-> willBePublished])
      /\ stage' = [stage EXCEPT ![t] = "claiming"] /\ contexts > 0
  BY DEF Commit, Goes, Locks, LockTypes
<1>2. stage \in [Thread -> Stages] /\ pending \in Seq(Update)
  BY DEF Types, Locks, LockTypes
<1> SUFFICES ASSUME AllMayLeave', NEW d \in Written'
             PROVE  Accounted(d)'
  BY DEF NothingIsLost
<1>3. willBePublished = "yes"
  <2>1. /\ Len(blocks) + 1 \in DOMAIN blocks'
        /\ blocks'[Len(blocks) + 1].publish = willBePublished
    BY <1>1, AppendProperties, LenProperties DEF Types
  <2> QED BY <2>1 DEF AllMayLeave
<1>4. d \in DOMAIN position
  BY <1>1 DEF Written
<1>5. position # NoPositions
  BY <1>4 DEF NoPositions
<1> DEFINE n == Len(blocks) + 1
           model == <<ModelUpdate(n)>>
           state == <<StateUpdate(position, n)>>
<1>6. Deferred(willBePublished) = model \o state
  BY <1>3, <1>5 DEF Deferred
<1>7. model \in Seq(Update) /\ state \in Seq(Update)
  BY <1>1, DeferredAreUpdates
<1>8. Carries(state, d, position[d])
  <2>1. DOMAIN state = {1} /\ state[1].positions = position
    BY DEF StateUpdate
  <2> QED BY <1>4, <2>1 DEF Carries
<1> HIDE DEF model, state
<1>9. Carries(model \o state, d, position[d]) /\ model \o state \in Seq(Update)
  BY <1>7, <1>8, CarriesOfBoth, ConcatProperties
<1>10. Carries(pending \o (model \o state), d, position[d])
  BY <1>2, <1>9, CarriesOfBoth
<1>11. Carries(pending', d, position[d])
  BY <1>1, <1>6, <1>10
<1>12. Carries(pending, d, position[d])'
  BY <1>1, <1>11 DEF Carries
<1>13. t \in Claiming'
  BY <1>1, <1>2 DEF Claiming
<1> QED BY <1>12, <1>13 DEF Accounted, Brought, Carried

LEMMA Next_NothingIsLost ==
  ASSUME NothingIsLost, AnnouncesTruly, FlowingUnlessFailed, Types, Locks, LoneWriter, [Next]_vars
  PROVE  NothingIsLost'
<1>1. TurnIsHeld
  BY DEF FlowingUnlessFailed
<1> SUFFICES ASSUME failures' = {} PROVE NothingIsLost'
  BY DEF NothingIsLost
<1>2. /\ failures = {}
      /\ \A t \in Thread : ~ RaiseInBody(t)
      /\ \A t \in Thread, publish \in Publish : ~ EnterMismatching(t, publish)
      /\ \A t \in Thread : Commit(t) => Goes(t, "claiming")
  BY FailuresStay DEF Locks
<1>3. ASSUME NEW t \in Thread, Commit(t) PROVE NothingIsLost'
  BY <1>2, <1>3, Commit_NothingIsLost
<1>4. ASSUME NEW t \in Thread, NEW d \in Dof, WriteState(t, d) PROVE NothingIsLost'
  BY <1>4, WriteState_NothingIsLost
<1>5. ASSUME NEW t \in Thread,
             \/ Announce(t) \/ PublishOrDefer(t) \/ RememberState(t) \/ Release(t)
             \/ ClaimTurn(t)
      PROVE  NothingIsLost'
  BY <1>5, Quiet_NothingIsLost
<1>6. ASSUME NEW t \in Thread, Flush(t) PROVE NothingIsLost'
  BY <1>1, <1>6, Flush_NothingIsLost
<1>7. ASSUME NEW t \in Thread, Defer(t) \/ PublishNow(t) PROVE NothingIsLost'
  BY <1>1, <1>7, Leaves_NothingIsLost
<1>8. ASSUME NEW t \in Thread,
             \/ \E publish \in Publish : Enter(t, publish)
             \/ \E d \in Dof : AddDof(t, d)
             \/ ExitNested(t)
      PROVE  NothingIsLost'
  <2>1. contexts' > 0
    <3>1. contexts \in Nat
      BY WorldAssumption DEF Locks, LockTypes
    <3>2. ASSUME NEW publish \in Publish, Enter(t, publish) PROVE contexts' > 0
      BY <3>1, <3>2 DEF Enter
    <3>3. ASSUME NEW d \in Dof, AddDof(t, d) PROVE contexts' > 0
      BY <3>3 DEF AddDof, Inside, managerVars
    <3>4. ASSUME ExitNested(t) PROVE contexts' > 0
      BY <3>1, <3>4 DEF ExitNested
    <3> QED BY <1>8, <3>2, <3>3, <3>4
  <2> QED BY <2>1 DEF NothingIsLost
<1>9. CASE UNCHANGED vars
  BY <1>9
     DEF NothingIsLost, AllMayLeave, Written, Accounted, Brought, Carried, Carries, Mentions,
         Owes, Changes, Claiming, Flushing, vars, managerVars, worldVars, threadVars
<1> QED
  BY <1>2, <1>3, <1>4, <1>5, <1>6, <1>7, <1>8, <1>9 DEF Next, Act, Leave, Continue

\* Whoever follows the stream ends up with the positions of the world, however many
\* threads modify it, if one thread writes positions (on_state_change publishes what
\* changed since the last announcement, on_model_change everything).
THEOREM StreamsCarryTheState ==
  ASSUME LoneWriter
  PROVE  Spec => []StreamCarriesState
<1> DEFINE Inv == /\ Locks /\ Types /\ FlowingUnlessFailed
                  /\ AnnouncesTruly /\ NothingIsLost
<1>1. Init => AnnouncesTruly /\ NothingIsLost
  BY Init_AnnouncesTruly, Init_NothingIsLost
<1>2. /\ Locks /\ Types /\ FlowingUnlessFailed
      /\ AnnouncesTruly /\ NothingIsLost
      /\ [Next]_vars
      => AnnouncesTruly' /\ NothingIsLost'
  BY Next_AnnouncesTruly, Next_NothingIsLost
<1>3. Inv => StreamCarriesState
  <2> SUFFICES ASSUME Inv, AtRest, failures = {}, AllMayLeave, NEW d \in Written
               PROVE  CarriesLast(d)
    BY DEF StreamCarriesState, AllMayLeave, Written
  <2>1. contexts = 0 /\ \A t \in Thread : stage[t] = "ready"
    BY DEF AtRest, Ready
  <2>2. ~ Owes(d) /\ Claiming = {} /\ Flushing = {}
    BY <2>1, WorldAssumption DEF Owes, Claiming, Flushing
  <2>3. Accounted(d)
    BY <2>1 DEF NothingIsLost
  <2>4. Carries(stream, d, position[d])
    BY <2>2, <2>3 DEF Accounted, Brought
  <2> QED BY <2>4 DEF Carries, CarriesLast
<1> QED BY <1>1, <1>2, <1>3, Spec_Types, Spec_Flowing, PTL DEF Spec
=============================================================================
