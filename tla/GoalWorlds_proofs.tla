------------------------- MODULE GoalWorlds_proofs --------------------------
(***************************************************************************)
(* What holds of the worlds around a goal for every number of worlds,      *)
(* entities and messages.  The system uses the synchronization as it is    *)
(* (every step of it is one of the synchronization or leaves it alone), so *)
(* what WorldSynchronization_proofs shows holds here, too.                 *)
(***************************************************************************)
EXTENDS GoalWorlds, WorldSynchronization_proofs, WellFoundedInduction

\* The client has one goal at a time, and the world of Giskard publishes on the thread
\* that executes it.
Serving ==
  /\ phase \in {"awaiting", "moving", "finishing"} => clientPhase = "served"
  /\ clientPhase = "answered" =>
       reported = (IF Len(stream[Giskard]) = before THEN 0 ELSE Len(stream[Giskard]))
  /\ before <= Len(stream[Giskard])

\* What is drained during a motion carries no modification of the model.
DrainsStates ==
  phase = "moving" => \A i \in DOMAIN batch[Giskard] : ~ ChangesModel(batch[Giskard][i])

GoalInv == TypeOK /\ SyncInv /\ Serving /\ DrainsStates
-----------------------------------------------------------------------------
\* There is a first message that carries a modification, or none does.
LEMMA LeadingStates ==
  ASSUME SyncTypeOK, NEW w \in World
  PROVE  /\ LeadingStateOnly(w) \in 0..Len(missed[w])
         /\ \A i \in 1..LeadingStateOnly(w) : ~ ChangesModel(missed[w][i])
<1> DEFINE s == missed[w]
           T == {k \in Nat : k = Len(s) \/ (k < Len(s) /\ ChangesModel(s[k + 1]))}
<1>1. Len(s) \in Nat
  BY DEF SyncTypeOK
<1>2. T \subseteq Nat /\ Len(s) \in T
  BY <1>1
<1> HIDE DEF T
<1>3. PICK k \in T : \A j \in T : ~ (<<j, k>> \in OpToRel(<, Nat))
  BY <1>2, NatLessThanWellFounded, WFMin
<1>4. \A j \in T : ~ (j < k)
  BY <1>2, <1>3 DEF OpToRel
<1>5. /\ k \in 0..Len(s)
      /\ \A i \in 1..k : ~ ChangesModel(s[i])
      /\ k < Len(s) => ChangesModel(s[k + 1])
  <2>1. k \in Nat /\ k <= Len(s) /\ (k < Len(s) => ChangesModel(s[k + 1]))
    BY <1>1, <1>2 DEF T
  <2>2. ASSUME NEW i \in 1..k PROVE ~ ChangesModel(s[i])
    <3>1. i - 1 \in Nat /\ i - 1 < k /\ i - 1 < Len(s) /\ (i - 1) + 1 = i
      BY <1>1, <2>1
    <3>2. i - 1 \notin T
      BY <1>4, <3>1
    <3> QED
      BY <3>1, <3>2 DEF T
  <2> QED
    BY <1>1, <2>1, <2>2
<1> QED
  BY <1>5 DEF LeadingStateOnly

LEMMA TheWorlds == Giskard \in World /\ Client \in World /\ Giskard # Client /\ Giskard \in Deferring
BY GoalWorldsAssumption, SynchronizationAssumption

\* Every step is one of the synchronization, or none of its business.
LEMMA StepsOfSynchronization == Next => [SyncNext]_syncVars
<1> SUFFICES ASSUME Next PROVE SyncNext \/ UNCHANGED syncVars
  OBVIOUS
<1> USE TheWorlds
<1>1. CASE \E w \in World : Ros(w)
  BY <1>1 DEF Ros, SyncNext
<1>2. CASE Others
  BY <1>2 DEF Others, SyncNext
<1>3. CASE ApplyAll
  <2>1. Len(missed[Giskard]) \in 1..Len(missed[Giskard]) /\ TakeLeading(Giskard, Len(missed[Giskard]))
    BY <1>3 DEF ApplyAll, TakeLeading
  <2> QED
    BY <2>1 DEF SyncNext
<1>4. CASE ApplyStateUpdates
  <2>1. /\ LeadingStateOnly(Giskard) \in 1..Len(missed[Giskard])
        /\ TakeLeading(Giskard, LeadingStateOnly(Giskard))
    BY <1>4 DEF ApplyStateUpdates, TakeLeading
  <2> QED
    BY <2>1 DEF SyncNext
<1>5. CASE ApplyOrFail
  BY <1>5 DEF ApplyOrFail, SyncNext
<1>6. ASSUME MoveRobot PROVE SyncNext \/ UNCHANGED syncVars
  <2>1. \A e \in Entity : [kind |-> "state", entity |-> e, branch |-> FALSE] \in Message
    BY DEF Message
  <2> QED
    BY <1>6, <2>1 DEF MoveRobot, SyncNext
<1>7. CASE RunCycle \/ FinishGoal
  BY <1>6, <1>7 DEF RunCycle, FinishGoal
<1>8. CASE StartGoal \/ CompileGoal \/ AwaitTimesOut \/ EndForModelChange
  BY <1>8 DEF StartGoal, CompileGoal, AwaitTimesOut, EndForModelChange
<1>9. CASE ReceiveGoal \/ SendGoal \/ CatchUp \/ CutOff
  BY <1>9 DEF ReceiveGoal, SendGoal, CatchUp, CutOff
<1> QED
  BY <1>1, <1>2, <1>3, <1>4, <1>5, <1>7, <1>8, <1>9 DEF Next, Serve

\* What a step of the synchronization leaves alone of Giskard's world.
LEMMA GiskardPublishesItself ==
  ASSUME TypeOK, NEW w \in World, w # Giskard,
         \/ \E m \in Message : ChangeWorld(w, m)
         \/ \E p \in World : SubscriptionCallback(w, p) \/ FetchWorld(w, p)
         \/ SpinningEnds(w) \/ Subscribe(w)
  PROVE  /\ stream'[Giskard] = stream[Giskard] /\ batch'[Giskard] = batch[Giskard]
         /\ model'[Giskard] = model[Giskard]
<1>0. SyncTypeOK /\ Giskard \in World
  BY TheWorlds DEF TypeOK
<1>1. CASE \E m \in Message : ChangeWorld(w, m)
  BY <1>0, <1>1 DEF ChangeWorld, Publish, SyncTypeOK
<1>2. CASE \E p \in World : SubscriptionCallback(w, p)
  <2>1. PICK p \in World : SubscriptionCallback(w, p)
    BY <1>2
  <2>2. stream' = stream /\ batch' = batch
    BY <2>1 DEF SubscriptionCallback
  <2>3. \/ model' = model
        \/ model' = [model EXCEPT ![w] =
                       After(MessageAt(<<p, Head(inbox[w][p])>>), model[w])]
    BY <2>1 DEF SubscriptionCallback, Buffer, ReceiveAndApply, ApplyMessage
  <2> QED
    BY <1>0, <2>2, <2>3 DEF SyncTypeOK
<1>3. CASE \E p \in World : FetchWorld(w, p)
  BY <1>0, <1>3 DEF FetchWorld, SyncTypeOK
<1>4. CASE SpinningEnds(w) \/ Subscribe(w)
  BY <1>4 DEF SpinningEnds, Subscribe
<1> QED
  BY <1>1, <1>2, <1>3, <1>4

\* The ros thread of Giskard buffers what it receives.
LEMMA GiskardBuffers ==
  ASSUME \/ \E p \in World : SubscriptionCallback(Giskard, p)
         \/ SpinningEnds(Giskard)
  PROVE  stream' = stream /\ batch' = batch /\ model' = model
<1>1. CASE \E p \in World : SubscriptionCallback(Giskard, p)
  BY <1>1, TheWorlds DEF SubscriptionCallback, Buffer
<1>2. CASE SpinningEnds(Giskard)
  BY <1>2 DEF SpinningEnds
<1> QED
  BY <1>1, <1>2

\* Whatever else happens, only its own thread changes Giskard's world and its batch.
LEMMA OthersLeaveGiskardAlone ==
  ASSUME TypeOK, Others \/ \E w \in World : Ros(w)
  PROVE  /\ UNCHANGED goalVars
         /\ stream'[Giskard] = stream[Giskard] /\ batch'[Giskard] = batch[Giskard]
         /\ model'[Giskard] = model[Giskard]
<1>1. CASE Others
  <2>1. PICK w \in World \ Deferring :
          \/ \E m \in Message : ChangeWorld(w, m)
          \/ \E p \in World : FetchWorld(w, p)
          \/ Subscribe(w)
    BY <1>1 DEF Others
  <2> QED
    BY <1>1, <2>1, TheWorlds, GiskardPublishesItself DEF Others
<1>2. ASSUME NEW w \in World, Ros(w)
      PROVE  /\ UNCHANGED goalVars
             /\ stream'[Giskard] = stream[Giskard] /\ batch'[Giskard] = batch[Giskard]
             /\ model'[Giskard] = model[Giskard]
  <2>1. CASE w = Giskard
    BY <1>2, <2>1, GiskardBuffers DEF Ros
  <2>2. CASE w # Giskard
    BY <1>2, <2>2, GiskardPublishesItself DEF Ros
  <2> QED
    BY <2>1, <2>2
<1> QED
  BY <1>1, <1>2

\* A cycle may publish a state.
LEMMA MovesRobot ==
  ASSUME TypeOK, MoveRobot
  PROVE  /\ model'[Giskard] = model[Giskard] /\ batch' = batch
         /\ Len(stream[Giskard]) <= Len(stream'[Giskard]) /\ Len(stream'[Giskard]) \in Nat
<1>1. SyncTypeOK /\ Giskard \in World /\ Len(stream[Giskard]) \in Nat
  BY TheWorlds DEF TypeOK, SyncTypeOK
<1>2. CASE UNCHANGED syncVars
  BY <1>1, <1>2 DEF syncVars
<1>3. CASE \E e \in Entity : ChangeWorld(Giskard, [kind |-> "state", entity |-> e, branch |-> FALSE])
  <2>1. PICK e \in Entity : ChangeWorld(Giskard, [kind |-> "state", entity |-> e, branch |-> FALSE])
    BY <1>3
  <2>2. /\ model' = [model EXCEPT ![Giskard] = @] /\ batch' = batch
        /\ stream' = [stream EXCEPT ![Giskard] = Append(@, [kind |-> "state", entity |-> e, branch |-> FALSE])]
    BY <2>1 DEF ChangeWorld, Publish, After
  <2>3. stream[Giskard] \in Seq(Message) /\ [kind |-> "state", entity |-> e, branch |-> FALSE] \in Message
    BY <1>1 DEF SyncTypeOK, Message
  <2>4. stream'[Giskard] = Append(stream[Giskard], [kind |-> "state", entity |-> e, branch |-> FALSE])
    BY <1>1, <2>2 DEF SyncTypeOK
  <2> QED
    BY <1>1, <2>2, <2>3, <2>4 DEF SyncTypeOK
<1> QED
  BY <1>2, <1>3 DEF MoveRobot

\* Applying what was drained during a motion leaves the model of the world alone.
LEMMA AppliesStates ==
  ASSUME TypeOK, DrainsStates, phase = "moving", ApplyNext(Giskard)
  PROVE  /\ model'[Giskard] = model[Giskard]
         /\ \A i \in DOMAIN batch'[Giskard] : ~ ChangesModel(batch[Giskard][i])'
<1>0. SyncTypeOK /\ Giskard \in World
  BY TheWorlds DEF TypeOK
<1>1. /\ batch[Giskard] \in Seq(Position) /\ batch[Giskard] # <<>>
      /\ Head(batch[Giskard]) = batch[Giskard][1] /\ 1 \in DOMAIN batch[Giskard]
      /\ Head(batch[Giskard]) \in Position
      /\ DOMAIN Tail(batch[Giskard]) = 1..(Len(batch[Giskard]) - 1) /\ DOMAIN batch[Giskard] = 1..Len(batch[Giskard])
      /\ \A i \in 1..(Len(batch[Giskard]) - 1) : Tail(batch[Giskard])[i] = batch[Giskard][i + 1]
  <2>1. batch[Giskard] \in Seq(Position) /\ batch[Giskard] # <<>>
    BY <1>0 DEF ApplyNext, SyncTypeOK
  <2>2. Len(batch[Giskard]) \in Nat /\ Len(batch[Giskard]) >= 1
    BY <2>1, EmptySeq
  <2> QED
    BY <2>1, <2>2
<1>2. LET q == Head(batch[Giskard]) IN
        /\ q = <<q[1], q[2]>> /\ MessageAt(q).kind = "state"
        /\ model' = [model EXCEPT ![Giskard] = After(MessageAt(<<q[1], q[2]>>), @)]
  BY <1>1 DEF ApplyNext, ApplyMessage, DrainsStates, ChangesModel, Position
<1>3. model'[Giskard] = model[Giskard]
  BY <1>0, <1>2 DEF After, SyncTypeOK
<1>4. /\ stream' = stream
      /\ batch'[Giskard] = Tail(batch[Giskard]) \/ batch'[Giskard] = <<>>
  BY <1>0 DEF ApplyNext, SyncTypeOK
<1>5. \A i \in DOMAIN batch'[Giskard] :
        \E j \in DOMAIN batch[Giskard] : batch'[Giskard][i] = batch[Giskard][j]
  <2>1. \A i \in DOMAIN Tail(batch[Giskard]) :
          i + 1 \in DOMAIN batch[Giskard] /\ Tail(batch[Giskard])[i] = batch[Giskard][i + 1]
    BY <1>1
  <2>2. CASE batch'[Giskard] = Tail(batch[Giskard])
    BY <2>1, <2>2
  <2>3. CASE batch'[Giskard] = <<>>
    BY <2>3
  <2> QED
    BY <1>4, <2>2, <2>3
<1>6. \A i \in DOMAIN batch'[Giskard] : ~ ChangesModel(batch[Giskard][i])'
  BY <1>4, <1>5 DEF DrainsStates, ChangesModel, MessageAt
<1> QED
  BY <1>3, <1>6
-----------------------------------------------------------------------------
\* The invariant.

LEMMA Init_GoalInv == Init => GoalInv
<1> SUFFICES ASSUME Init PROVE GoalInv
  OBVIOUS
<1>1. SyncInv
  BY Init_SyncInv DEF Init
<1>2. TypeOK
  BY <1>1 DEF Init, TypeOK, SyncInv, Ordered
<1>3. Serving
  BY TheWorlds DEF Init, SyncInit, Serving
<1> QED
  BY <1>1, <1>2, <1>3 DEF GoalInv, DrainsStates, Init

LEMMA Next_Types ==
  ASSUME GoalInv, [Next]_vars
  PROVE  TypeOK' /\ SyncInv'
<1>1. SyncInv'
  BY StepsOfSynchronization, Next_SyncInv DEF GoalInv, vars
<1>2. SyncTypeOK' /\ TypeOK /\ \A w \in World : Len(stream[w]) \in Nat /\ Len(stream'[w]) \in Nat
  BY <1>1 DEF GoalInv, TypeOK, SyncInv, Ordered, SyncTypeOK
<1> SUFFICES TypeOK'
  BY <1>1
<1>3. CASE UNCHANGED goalVars
  BY <1>2, <1>3 DEF TypeOK, goalVars
<1>4. CASE Next
  <2> USE <1>2, TheWorlds DEF TypeOK
  <2>1. CASE Others \/ \E w \in World : Ros(w)
    BY <1>3, <2>1 DEF Others, Ros
  <2>2. CASE ApplyAll \/ ApplyStateUpdates
    BY <1>3, <2>2 DEF ApplyAll, ApplyStateUpdates
  <2>3. CASE ApplyOrFail
    BY <2>3 DEF ApplyOrFail
  <2>4. CASE StartGoal \/ CompileGoal \/ AwaitTimesOut \/ EndForModelChange
    BY <2>4 DEF StartGoal, CompileGoal, AwaitTimesOut, EndForModelChange
  <2>5. CASE RunCycle
    BY <2>5 DEF RunCycle
  <2>6. CASE FinishGoal
    BY <2>6 DEF FinishGoal, PublishedPositionOfGoal
  <2>7. CASE ReceiveGoal \/ SendGoal \/ CatchUp \/ CutOff
    BY <2>7 DEF ReceiveGoal, SendGoal, CatchUp, CutOff
  <2> QED
    BY <1>4, <2>1, <2>2, <2>3, <2>4, <2>5, <2>6, <2>7 DEF Next, Serve
<1> QED
  BY <1>3, <1>4 DEF vars

LEMMA Next_Serving ==
  ASSUME GoalInv, [Next]_vars
  PROVE  Serving'
<1>1. /\ TypeOK /\ TypeOK' /\ Serving /\ DrainsStates /\ before \in Nat
      /\ Len(stream[Giskard]) \in Nat /\ Len(stream'[Giskard]) \in Nat
  <2>1. TypeOK /\ TypeOK' /\ Serving /\ DrainsStates
    BY Next_Types DEF GoalInv
  <2>2. stream[Giskard] \in Seq(Message) /\ stream'[Giskard] \in Seq(Message) /\ before \in Nat
    BY <2>1, TheWorlds DEF TypeOK, SyncTypeOK
  <2> QED
    BY <2>1, <2>2
<1>2. CASE UNCHANGED goalVars /\ stream'[Giskard] = stream[Giskard]
  BY <1>1, <1>2 DEF Serving, goalVars
<1>3. CASE UNCHANGED vars
  BY <1>2, <1>3 DEF vars, syncVars
<1>4. CASE Others \/ \E w \in World : Ros(w)
  BY <1>1, <1>2, <1>4, OthersLeaveGiskardAlone
<1>5. CASE ApplyAll \/ ApplyStateUpdates
  BY <1>2, <1>5 DEF ApplyAll, ApplyStateUpdates, TakeLeading
<1>6. CASE ApplyOrFail
  BY <1>1, <1>6 DEF ApplyOrFail, ApplyNext, Serving
<1>7. CASE StartGoal \/ CompileGoal \/ AwaitTimesOut \/ EndForModelChange
  BY <1>1, <1>7 DEF StartGoal, CompileGoal, AwaitTimesOut, EndForModelChange, Serving, syncVars
<1>8. CASE RunCycle
  BY <1>1, <1>8, MovesRobot DEF RunCycle, Serving
<1>9. CASE FinishGoal
  BY <1>1, <1>9, MovesRobot DEF FinishGoal, PublishedPositionOfGoal, Serving
<1>10. CASE ReceiveGoal \/ SendGoal \/ CatchUp \/ CutOff
  BY <1>1, <1>10 DEF ReceiveGoal, SendGoal, CatchUp, CutOff, Serving, syncVars
<1> QED
  BY <1>3, <1>4, <1>5, <1>6, <1>7, <1>8, <1>9, <1>10 DEF Next, Serve

LEMMA Next_DrainsStates ==
  ASSUME GoalInv, [Next]_vars
  PROVE  DrainsStates'
<1>1. /\ TypeOK /\ SyncTypeOK /\ Giskard \in World /\ Serving /\ DrainsStates
      /\ SyncTypeOK' /\ SyncInv
  BY Next_Types, TheWorlds DEF GoalInv, TypeOK
<1>2. /\ batch[Giskard] \in Seq(Position) /\ missed[Giskard] \in Seq(Position)
      /\ batch'[Giskard] \in Seq(Position)
  BY <1>1 DEF SyncTypeOK
<1>3. \A i \in DOMAIN batch[Giskard] :
        batch[Giskard][i] \in Position /\ batch[Giskard][i][2] \in 1..Len(stream[batch[Giskard][i][1]])
  <2>1. \A i \in DOMAIN Buffered(Giskard) :
          Buffered(Giskard)[i][2] \in 1..Len(stream[Buffered(Giskard)[i][1]])
    BY <1>1 DEF SyncInv, Ordered, PositionsPublished, PositionsOf
  <2>2. \A i \in DOMAIN batch[Giskard] :
          i \in DOMAIN Buffered(Giskard) /\ Buffered(Giskard)[i] = batch[Giskard][i]
    BY <1>2, Behind DEF Buffered
  <2>3. \A i \in DOMAIN batch[Giskard] : batch[Giskard][i] \in Position
    BY <1>2
  <2> QED
    BY <2>1, <2>2, <2>3
<1>4. [SyncNext]_syncVars
  BY StepsOfSynchronization DEF vars
<1>5. CASE phase = "moving" /\ batch'[Giskard] = batch[Giskard]
  <2>1. \A i \in DOMAIN batch[Giskard] : MessageAt(batch[Giskard][i])' = MessageAt(batch[Giskard][i])
    <3> TAKE i \in DOMAIN batch[Giskard]
    <3>1. PICK q : q = batch[Giskard][i]
      OBVIOUS
    <3>2. q \in Published
      BY <1>1, <1>3, <3>1, PublishedPositions DEF Position
    <3>3. MessageAt(q)' = MessageAt(q)
      BY <1>1, <1>4, <3>2, MessagesStay
    <3>4. batch'[Giskard][i] = q
      BY <1>5, <3>1
    <3> QED
      BY <3>1, <3>3, <3>4 DEF MessageAt
  <2> QED
    BY <1>1, <1>5, <2>1 DEF DrainsStates, ChangesModel
<1>6. CASE phase' = "moving" /\ batch'[Giskard] = <<>>
  BY <1>6 DEF DrainsStates
<1>7. CASE ApplyStateUpdates
  <2>1. /\ LeadingStateOnly(Giskard) \in 1..Len(missed[Giskard]) /\ stream' = stream
        /\ batch'[Giskard] = SubSeq(missed[Giskard], 1, LeadingStateOnly(Giskard))
    BY <1>1, <1>7 DEF ApplyStateUpdates, TakeLeading, SyncTypeOK
  <2>2. /\ DOMAIN batch'[Giskard] = 1..LeadingStateOnly(Giskard)
        /\ \A i \in 1..LeadingStateOnly(Giskard) : batch'[Giskard][i] = missed[Giskard][i]
    BY <1>2, <2>1
  <2> QED
    BY <1>1, <2>1, <2>2, LeadingStates DEF DrainsStates, ChangesModel, MessageAt
<1>8. CASE ApplyOrFail /\ phase = "moving"
  BY <1>1, <1>8, AppliesStates DEF ApplyOrFail, DrainsStates
<1>9. CASE Others \/ \E w \in World : Ros(w)
  <2>1. phase' = phase /\ batch'[Giskard] = batch[Giskard]
    BY <1>1, <1>9, OthersLeaveGiskardAlone DEF goalVars
  <2> QED
    BY <1>5, <2>1 DEF DrainsStates
<1>10. CASE RunCycle
  <2>1. phase = "moving" /\ batch' = batch
    BY <1>1, <1>10, MovesRobot DEF RunCycle
  <2> QED
    BY <1>5, <2>1
<1>11. CASE CompileGoal
  BY <1>6, <1>11 DEF CompileGoal, syncVars
<1>12. CASE \/ ApplyAll \/ (ApplyOrFail /\ phase # "moving") \/ StartGoal \/ AwaitTimesOut
            \/ EndForModelChange \/ FinishGoal
  BY <1>12 DEF ApplyAll, ApplyOrFail, StartGoal, AwaitTimesOut, EndForModelChange, FinishGoal,
               goalVars, DrainsStates
<1>13. CASE ReceiveGoal \/ SendGoal \/ CatchUp \/ CutOff
  <2>1. phase' = phase /\ batch' = batch
    BY <1>13 DEF ReceiveGoal, SendGoal, CatchUp, CutOff, syncVars
  <2> QED
    BY <1>5, <2>1 DEF DrainsStates
<1>14. CASE UNCHANGED vars
  BY <1>5, <1>14 DEF vars, goalVars, syncVars, DrainsStates
<1> QED
  BY <1>7, <1>8, <1>9, <1>10, <1>11, <1>12, <1>13, <1>14 DEF Next, Serve

LEMMA Next_GoalInv == GoalInv /\ [Next]_vars => GoalInv'
BY Next_Types, Next_Serving, Next_DrainsStates DEF GoalInv
-----------------------------------------------------------------------------
\* What the invariant means for the steps.

LEMMA CompiledOnItsWorld ==
  ASSUME GoalInv, [Next]_vars, phase = "awaiting", phase' = "moving"
  PROVE  Up(Client, required) \subseteq contains[Giskard] \union gone[Giskard]
<1>1. /\ TypeOK /\ SyncInv /\ Giskard \in World /\ Client \in World /\ Client # Giskard
      /\ required \in Nat /\ applied[Giskard][Client] \in Nat
  BY TheWorlds DEF GoalInv, TypeOK, SyncTypeOK
<1>2. required = 0 \/ HasApplied(Giskard, Client, required)
  <2>1. CompileGoal
    BY OthersLeaveGiskardAlone, <1>1
       DEF Next, Serve, vars, goalVars, ApplyAll, ApplyStateUpdates, ApplyOrFail, StartGoal,
           AwaitTimesOut, EndForModelChange, RunCycle, FinishGoal, ReceiveGoal, SendGoal, CatchUp,
           CutOff
  <2> QED
    BY <2>1 DEF CompileGoal
<1>3. CASE required = 0
  BY <1>3 DEF Up
<1>4. CASE required # 0
  <2>1. required <= applied[Giskard][Client] /\ applied[Giskard][Client] # 0
    BY <1>1, <1>2, <1>4 DEF HasApplied
  <2>2. Listening(Giskard)
    BY <1>1, <2>1 DEF SyncInv, Ordered, PositionsPublished, PositionsOf
  <2>3. \A n \in 1..required : <<Client, n>> \in contains[Giskard] \union gone[Giskard]
    BY <1>1, <2>1, <2>2, AppliedPositions DEF HasAppliedMeansContainedOrGone
  <2> QED
    BY <2>3 DEF Up
<1> QED
  BY <1>3, <1>4

LEMMA ModelIsKept ==
  ASSUME GoalInv, [Next]_vars, phase = "moving"
  PROVE  model'[Giskard] = model[Giskard]
<1>1. TypeOK /\ DrainsStates
  BY DEF GoalInv
<1>2. CASE Others \/ \E w \in World : Ros(w)
  BY <1>1, <1>2, OthersLeaveGiskardAlone
<1>3. CASE ApplyStateUpdates
  BY <1>3 DEF ApplyStateUpdates, TakeLeading
<1>4. CASE ApplyOrFail
  BY <1>1, <1>4, AppliesStates DEF ApplyOrFail
<1>5. CASE RunCycle
  BY <1>1, <1>5, MovesRobot DEF RunCycle
<1>6. CASE ApplyAll \/ StartGoal \/ CompileGoal \/ AwaitTimesOut \/ FinishGoal
  BY <1>6 DEF ApplyAll, StartGoal, CompileGoal, AwaitTimesOut, FinishGoal
<1>7. CASE EndForModelChange \/ ReceiveGoal \/ SendGoal \/ CatchUp \/ CutOff \/ UNCHANGED vars
  BY <1>7 DEF EndForModelChange, ReceiveGoal, SendGoal, CatchUp, CutOff, vars, syncVars
<1> QED
  BY <1>2, <1>3, <1>4, <1>5, <1>6, <1>7 DEF Next, Serve

LEMMA ClientCatchesUp ==
  ASSUME GoalInv, [Next]_vars, clientPhase = "answered", clientPhase' = "caughtUp",
         NEW n \in (before + 1)..Len(stream[Giskard])
  PROVE  <<Giskard, n>> \in contains[Client] \union gone[Client]
<1>1. /\ TypeOK /\ SyncInv /\ Giskard \in World /\ Client \in World /\ Client # Giskard
      /\ before \in Nat /\ Len(stream[Giskard]) \in Nat /\ applied[Client][Giskard] \in Nat
      /\ reported = (IF Len(stream[Giskard]) = before THEN 0 ELSE Len(stream[Giskard]))
  BY TheWorlds DEF GoalInv, TypeOK, SyncTypeOK, Serving
<1>2. reported = 0 \/ HasApplied(Client, Giskard, reported)
  <2>1. CatchUp
    BY OthersLeaveGiskardAlone, <1>1
       DEF Next, Serve, vars, goalVars, ApplyAll, ApplyStateUpdates, ApplyOrFail, StartGoal,
           CompileGoal, AwaitTimesOut, EndForModelChange, RunCycle, FinishGoal, ReceiveGoal,
           SendGoal, CutOff
  <2> QED
    BY <2>1 DEF CatchUp
<1>3. /\ Len(stream[Giskard]) # before /\ Len(stream[Giskard]) # 0
      /\ n \in Nat \ {0} /\ n <= Len(stream[Giskard])
  BY <1>1
<1>4. Len(stream[Giskard]) <= applied[Client][Giskard]
  BY <1>1, <1>2, <1>3 DEF HasApplied
<1>5. Listening(Client)
  <2>1. applied[Client][Giskard] # 0
    BY <1>1, <1>3, <1>4
  <2> QED
    BY <1>1, <2>1 DEF SyncInv, Ordered, PositionsPublished, PositionsOf
<1> QED
  BY <1>1, <1>3, <1>4, <1>5, AppliedPositions DEF HasAppliedMeansContainedOrGone
-----------------------------------------------------------------------------
\* The system around a goal implements the synchronization of its worlds: whatever the
\* motion server and the client do with a world is a step of the synchronizer.
THEOREM GoalWorldsSynchronize == Spec => UsesSynchronization
<1>1. Init => SyncInit
  BY DEF Init
<1>2. [Next]_vars => [SyncNext]_syncVars
  BY StepsOfSynchronization DEF vars
<1> QED
  BY <1>1, <1>2, PTL DEF Spec, UsesSynchronization

\* Each variable keeps its type.
THEOREM GoalWorldsTyped == Spec => []TypeOK
<1>1. GoalInv => TypeOK
  BY DEF GoalInv
<1> QED
  BY Init_GoalInv, Next_GoalInv, <1>1, PTL DEF Spec

\* A goal is compiled against a world that holds whatever its client published before it
\* sent the goal, and did not get lost (wait_for_required_world_updates).
THEOREM GoalsAreBuiltOnTheirWorld == Spec => GoalIsBuiltOnItsWorld
<1>1. GoalInv /\ [Next]_vars
        => [phase = "awaiting" /\ phase' = "moving"
              => Up(Client, required) \subseteq contains[Giskard] \union gone[Giskard]]_vars
  BY CompiledOnItsWorld
<1> QED
  BY Init_GoalInv, Next_GoalInv, <1>1, PTL DEF Spec, GoalIsBuiltOnItsWorld

\* The model of Giskard's world stays as it is while a motion runs, although the ros
\* thread receives and the control loop drains (apply_state_updates).
THEOREM MotionsKeepTheirModel == Spec => MotionKeepsItsModel
<1>1. GoalInv /\ [Next]_vars
        => [phase = "moving" => model'[Giskard] = model[Giskard]]_vars
  BY ModelIsKept
<1> QED
  BY Init_GoalInv, Next_GoalInv, <1>1, PTL DEF Spec, MotionKeepsItsModel

\* A client that took over a result reads a world with all that Giskard published during
\* the goal and did not get lost (published_position_of_goal).
THEOREM ClientsReadTheEnd == Spec => ClientReadsTheEnd
<1>1. GoalInv /\ [Next]_vars
        => [clientPhase = "answered" /\ clientPhase' = "caughtUp"
              => \A n \in (before + 1)..Len(stream[Giskard]) :
                   <<Giskard, n>> \in contains[Client] \union gone[Client]]_vars
  BY ClientCatchesUp
<1> QED
  BY Init_GoalInv, Next_GoalInv, <1>1, PTL DEF Spec, ClientReadsTheEnd

\* From its compilation to its end, a motion runs on the world its client meant.
THEOREM GoalsRunOnTheirWorld == Spec => GoalRunsOnItsWorld
BY GoalsAreBuiltOnTheirWorld, MotionsKeepTheirModel, PTL DEF GoalRunsOnItsWorld

\* Hence what is shown of the synchronization holds while goals are executed: every message
\* is accounted for, a world is its messages, and what cannot be read lacks for a reason.
THEOREM GoalWorldsStaySynchronized ==
  Spec => []MessagesAreAccountedFor /\ []WorldIsItsMessages /\ UnreadableForAReason
<1>1. UsesSynchronization <=> SyncSpec
  BY DEF UsesSynchronization, SyncSpec
<1> QED
  BY <1>1, GoalWorldsSynchronize, EveryMessageIsAccountedFor, WorldsAreTheirMessages,
     UnreadableMessagesHaveAReason, PTL
=============================================================================
