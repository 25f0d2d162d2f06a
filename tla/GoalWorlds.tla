----------------------------- MODULE GoalWorlds -----------------------------
(***************************************************************************)
(* The worlds of Giskard and of a client around a goal (giskardpy          *)
(* middleware/ros2/world_updates.py, and its use in motion_server.py,      *)
(* control_loop.py and giskard_client_executor.py).  The thread of the     *)
(* motion server owns Giskard's world: it applies what the ros thread      *)
(* buffered, everything while it is idle or waits for the world a goal was *)
(* built on, and only states while a motion is compiled against the world. *)
(***************************************************************************)
EXTENDS WorldSynchronization

CONSTANTS Giskard, Client

ASSUME GoalWorldsAssumption ==
  /\ Giskard \in Deferring
  /\ Client \in World \ Deferring

VARIABLES
  phase,        \* where the thread of the motion server is
  error,        \* whether the goal failed
  before,       \* _published_sequence_number_before_goal
  required,     \* the position of the client's stream the goal requires, 0 for None
  clientPhase,  \* where the thread of the client is
  reported      \* the position of Giskard's stream in the result, 0 for None

goalVars == <<phase, error, before, required, clientPhase, reported>>
vars == <<syncVars, goalVars>>

Init ==
  /\ SyncInit
  /\ phase = "idle" /\ error = FALSE /\ before = 0
  /\ required = 0 /\ clientPhase = "free" /\ reported = 0
-----------------------------------------------------------------------------
\* The world updates of Giskard.

\* apply_all, in the idle loop and while the required change is awaited.
ApplyAll ==
  /\ phase \in {"idle", "awaiting"}
  /\ TakeLeading(Giskard, Len(missed[Giskard]))
  /\ UNCHANGED goalVars

\* apply_state_updates, at the start of every cycle of the control loop.
ApplyStateUpdates ==
  /\ phase = "moving"
  /\ TakeLeading(Giskard, LeadingStateOnly(Giskard))
  /\ UNCHANGED goalVars

\* An update that fails ends the server if it is idle, and the goal otherwise.
ApplyOrFail ==
  /\ phase \in {"idle", "awaiting", "moving"}
  /\ ApplyNext(Giskard)
  /\ IF Applicable(MessageAt(Head(batch[Giskard])), model[Giskard])
     THEN UNCHANGED <<phase, error>>
     ELSE IF phase = "idle" THEN phase' = "down" /\ UNCHANGED error
     ELSE phase' = "finishing" /\ error' = TRUE
  /\ UNCHANGED <<before, required, clientPhase, reported>>

HasPendingModelChange == HasBufferedModelModification(Giskard)
-----------------------------------------------------------------------------
\* Executing a goal.

\* The action server takes the goal on the ros thread.
ReceiveGoal ==
  /\ clientPhase = "sent" /\ connection[Giskard] \in {"connected", "raised"}
  /\ clientPhase' = "queued"
  /\ UNCHANGED <<syncVars, phase, error, before, required, reported>>

\* execute_goal, with OutgoingWorldUpdates.start_goal.
StartGoal ==
  /\ phase = "idle" /\ batch[Giskard] = <<>> /\ clientPhase = "queued"
  /\ phase' = "awaiting" /\ error' = FALSE
  /\ before' = Len(stream[Giskard])
  /\ clientPhase' = "served"
  /\ UNCHANGED <<syncVars, required, reported>>

\* Mutant: the goal is compiled without a look at the required position.
CompileGoalAtOnce ==
  /\ phase = "awaiting" /\ batch[Giskard] = <<>>
  /\ phase' = "moving"
  /\ UNCHANGED <<syncVars, error, before, required, clientPhase, reported>>

\* wait_for_required_world_updates returns, and the goal is compiled.
CompileGoal ==
  /\ phase = "awaiting" /\ batch[Giskard] = <<>>
  /\ required = 0 \/ HasApplied(Giskard, Client, required)
  /\ phase' = "moving"
  /\ UNCHANGED <<syncVars, error, before, required, clientPhase, reported>>

\* RequiredWorldUpdateNotReceivedError
AwaitTimesOut ==
  /\ phase = "awaiting" /\ batch[Giskard] = <<>>
  /\ required # 0 /\ ~ HasApplied(Giskard, Client, required)
  /\ phase' = "finishing" /\ error' = TRUE
  /\ UNCHANGED <<syncVars, before, required, clientPhase, reported>>

\* WorldModelModifiedDuringMotionError
EndForModelChange ==
  /\ phase = "moving" /\ batch[Giskard] = <<>>
  /\ HasPendingModelChange
  /\ phase' = "finishing" /\ error' = TRUE
  /\ UNCHANGED <<syncVars, before, required, clientPhase, reported>>

\* The robot of the world moves, or not; either is published as it happens.
MoveRobot ==
  \/ UNCHANGED syncVars
  \/ \E e \in Entity : ChangeWorld(Giskard, [kind |-> "state", entity |-> e, branch |-> FALSE])

\* A cycle ticks the statechart, which may have ended with it.
RunCycle ==
  /\ phase = "moving" /\ batch[Giskard] = <<>>
  /\ ~ HasPendingModelChange
  /\ MoveRobot
  /\ phase' \in {"moving", "finishing"}
  /\ UNCHANGED <<error, before, required, clientPhase, reported>>

\* published_position_of_goal
PublishedPositionOfGoal(published) == IF published = before THEN 0 ELSE published

\* Mutant: the position is taken before the robot is stopped.
FinishGoalReportingFirst ==
  /\ phase = "finishing"
  /\ MoveRobot
  /\ reported' = PublishedPositionOfGoal(Len(stream[Giskard]))
  /\ phase' = "idle"
  /\ clientPhase' = IF error THEN "free" ELSE "answered"
  /\ UNCHANGED <<error, before, required>>

\* finish_goal stops the robot, then answers; _take_over_result waits for no world if
\* the goal was aborted.
FinishGoal ==
  /\ phase = "finishing"
  /\ MoveRobot
  /\ reported' = PublishedPositionOfGoal(Len(stream'[Giskard]))
  /\ phase' = "idle"
  /\ clientPhase' = IF error THEN "free" ELSE "answered"
  /\ UNCHANGED <<error, before, required>>
-----------------------------------------------------------------------------
\* The client.

SendGoal ==
  /\ Listening(Client)
  /\ clientPhase \in {"free", "caughtUp", "cutOff"}
  /\ clientPhase' = "sent"
  /\ required' = Len(stream[Client])
  /\ UNCHANGED <<syncVars, phase, error, before, reported>>

\* wait_for_the_changes_of_a_goal returns, ...
CatchUp ==
  /\ clientPhase = "answered"
  /\ reported = 0 \/ HasApplied(Client, Giskard, reported)
  /\ clientPhase' = "caughtUp"
  /\ UNCHANGED <<syncVars, phase, error, before, required, reported>>

\* ... or raises GiskardWorldUpdateNotReceivedError.
CutOff ==
  /\ clientPhase = "answered"
  /\ reported # 0 /\ ~ HasApplied(Client, Giskard, reported)
  /\ clientPhase' = "cutOff"
  /\ UNCHANGED <<syncVars, phase, error, before, required, reported>>

Ros(w) ==
  /\ (\E p \in World : SubscriptionCallback(w, p)) \/ SpinningEnds(w)
  /\ UNCHANGED goalVars

Others ==
  /\ \E w \in World \ Deferring :
       \/ \E m \in Message : ChangeWorld(w, m)
       \/ \E p \in World : FetchWorld(w, p)
       \/ Subscribe(w)
  /\ UNCHANGED goalVars

Serve ==
  \/ ApplyAll \/ ApplyStateUpdates \/ ApplyOrFail \/ StartGoal \/ CompileGoal
  \/ AwaitTimesOut \/ EndForModelChange \/ RunCycle \/ FinishGoal

Next ==
  \/ \E w \in World : Ros(w)
  \/ Others \/ Serve \/ ReceiveGoal \/ SendGoal \/ CatchUp \/ CutOff

\* The threads keep running; that a timeout passes or a motion ends is not certain.
Fairness ==
  /\ \A w \in World : WF_vars((\E p \in World : SubscriptionCallback(w, p)) /\ UNCHANGED goalVars)
  /\ WF_vars(ApplyAll \/ ApplyStateUpdates \/ ApplyOrFail \/ StartGoal \/ CompileGoal
               \/ EndForModelChange \/ FinishGoal)
  /\ WF_vars(CatchUp)

Spec == Init /\ [][Next]_vars /\ Fairness
-----------------------------------------------------------------------------
TypeOK ==
  /\ SyncTypeOK
  /\ phase \in {"idle", "awaiting", "moving", "finishing", "down"}
  /\ error \in BOOLEAN
  /\ before \in Nat /\ required \in Nat /\ reported \in Nat
  /\ clientPhase \in {"free", "sent", "queued", "served", "answered", "caughtUp", "cutOff"}

Up(p, n) == {p} \X (1..n)

\* "A goal is built against a world the client may just have changed": when it is
\* compiled, the world holds every change the client made before it sent the goal,
\* but for those that got lost.
GoalIsBuiltOnItsWorld ==
  [][phase = "awaiting" /\ phase' = "moving"
       => Up(Client, required) \subseteq contains[Giskard] \union gone[Giskard]]_vars

\* Nothing changes the structure of the world under a compiled motion, neither the
\* ros thread nor the drain of the states (ControlLoop.world_updates: "a model change
\* would invalidate the compiled motion statechart").
MotionKeepsItsModel ==
  [][phase = "moving" => model'[Giskard] = model[Giskard]]_vars

\* A motion runs on the world its client meant, from the compilation of the goal to its
\* end (MotionServer.live, ControlLoop.world_updates).
GoalRunsOnItsWorld == GoalIsBuiltOnItsWorld /\ MotionKeepsItsModel


\* A client that was not told otherwise reads its world after every change that
\* Giskard made until the goal was answered, the halt of the robot included.
\* (OutgoingWorldUpdates: "A client reading its world while or after Giskard runs its
\* goal first has to catch up with them").
ClientReadsTheEnd ==
  [][clientPhase = "answered" /\ clientPhase' = "caughtUp"
       => \A n \in (before + 1)..Len(stream[Giskard]) :
            <<Giskard, n>> \in contains[Client] \union gone[Client]]_vars

\* A goal never waits in vain for a change that Giskard can receive.
RequiredChangeArrives ==
  phase = "awaiting"
    ~> (phase # "awaiting" \/ gone[Giskard] # {} \/ connection[Giskard] # "connected")

\* A client never waits in vain for a change that it can receive.
ReportedChangeArrives ==
  clientPhase = "answered"
    ~> (clientPhase # "answered" \/ gone[Client] # {} \/ connection[Client] # "connected")

\* Neither side of a goal waits in vain for the changes of the other one.
AwaitedChangesArrive == RequiredChangeArrives /\ ReportedChangeArrives


UsesSynchronization == SyncInit /\ [][SyncNext]_syncVars
=============================================================================
