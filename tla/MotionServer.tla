---------------------------- MODULE MotionServer ----------------------------
(***************************************************************************)
(* Giskard's motion server (giskardpy middleware/ros2/motion_server.py,    *)
(* control_loop.py and client_presence.py): the one thread that takes a    *)
(* goal from the handler, executes it, brings the robot to a halt and      *)
(* answers, while heartbeats of the clients arrive on a thread of their    *)
(* own.                                                                    *)
(*                                                                         *)
(* What a goal does is left open: parsing, compiling and every tick may    *)
(* fail, and a motion may end at any tick or never.  Breaks says what else *)
(* raises in a run: an idle cycle or the clean up after a goal.  Every     *)
(* signal to shut down raises a KeyboardInterrupt wherever the thread is.  *)
(***************************************************************************)
EXTENDS ActionServerHandler

CONSTANTS
  Client,
  NoClient,
  ClientOf,   \* the client each goal names
  Breaks,     \* SUBSET {"idle", "cleanup"}: what else raises
  Signals     \* the most signals to shut down the process receives

ASSUME ServerAssumption ==
  /\ NoClient \notin Client
  /\ ClientOf \in [Goal -> Client]
  /\ Breaks \subseteq {"idle", "cleanup"}
  /\ Signals \in Nat

VARIABLES
  phase,          \* where the motion server's thread is
  error,          \* what the current goal failed with, "None" if nothing
  leaving,        \* what finish_goal will raise once it answered, "None" if nothing
  moving,         \* whether the robot follows a commanded velocity
  heartbeat,      \* what has_recent_heartbeat knows of each client
  watchedClient,  \* HeartbeatPresence.watched_client
  ended,          \* the goals whose motion reached its end
  signals         \* how many signals to shut down arrived

Phases == {"idle", "parsing", "awaiting", "compiling", "controlling",
           "finishing", "answering", "sending", "halting", "down"}
Errors == {"None", "ExecutionCanceled", "ClientDisconnected", "Other"}

goalVars == <<error, leaving, moving, watchedClient, ended>>
surroundings == <<heartbeat, signals>>
vars == <<handlerVars, phase, goalVars, surroundings>>

Init ==
  /\ HandlerInit
  /\ phase = "idle"
  /\ error = "None" /\ leaving = "None"
  /\ moving = FALSE
  /\ heartbeat = [c \in Client |-> "never"]
  /\ watchedClient = NoClient
  /\ ended = {}
  /\ signals = 0
-----------------------------------------------------------------------------
\* The clients and the threads that listen to them.

HeartbeatArrives(c) ==
  /\ heartbeat' = [heartbeat EXCEPT ![c] = "recent"]
  /\ UNCHANGED <<handlerVars, phase, goalVars, signals>>

\* The timeout passes without a heartbeat of the client.
HeartbeatTimesOut(c) ==
  /\ heartbeat[c] = "recent"
  /\ heartbeat' = [heartbeat EXCEPT ![c] = "stale"]
  /\ UNCHANGED <<handlerVars, phase, goalVars, signals>>

Rclpy ==
  /\ \E g \in Goal : RclpyStep(g)
  /\ UNCHANGED <<phase, goalVars, surroundings>>
-----------------------------------------------------------------------------
\* Watching the client of the goal.

\* start_watching recognizes a client only by a recent heartbeat.
StartWatching ==
  IF heartbeat[ClientOf[goalHandle]] = "recent" THEN ClientOf[goalHandle]
  ELSE watchedClient

\* is_client_gone looks for a client again that was not recognized so far, ...
Recognized == IF watchedClient = NoClient THEN StartWatching ELSE watchedClient

\* ... and a client that was never recognized is never gone.
IsClientGone == Recognized # NoClient /\ heartbeat[Recognized] # "recent"
-----------------------------------------------------------------------------
\* Executing a goal.

\* Mutant: the error of the previous goal is not reset.
TakeGoalKeepingError ==
  /\ phase = "idle"
  /\ AcceptGoal
  /\ phase' = "parsing"
  /\ UNCHANGED <<goalVars, surroundings>>

TakeGoal ==
  /\ phase = "idle"
  /\ AcceptGoal
  /\ phase' = "parsing"
  /\ error' = "None"
  /\ UNCHANGED <<leaving, moving, watchedClient, ended, surroundings>>

\* The goal raises: execute_goal remembers the error and finishes the goal.
FailWith(failure) ==
  /\ error' = failure
  /\ phase' = "finishing"

ParseGoal ==
  /\ phase = "parsing"
  /\ phase' = "awaiting"
  /\ watchedClient' = StartWatching
  /\ UNCHANGED <<handlerVars, error, leaving, moving, ended, surroundings>>

\* Parsing, the wait for the client's world (which times out), compiling or a
\* change of the world model while the motion runs make the goal fail.
GoalFails ==
  /\ phase \in {"parsing", "awaiting", "compiling", "controlling"}
  /\ FailWith("Other")
  /\ UNCHANGED <<handlerVars, leaving, moving, watchedClient, ended, surroundings>>

WorldCaughtUp ==
  /\ phase = "awaiting"
  /\ phase' = "compiling"
  /\ UNCHANGED <<handlerVars, goalVars, surroundings>>

AwaitWorld ==
  /\ phase = "awaiting"
  /\ watchedClient' = Recognized
  /\ IF IsClientGone THEN FailWith("ClientDisconnected")
     ELSE UNCHANGED <<phase, error>>
  /\ UNCHANGED <<handlerVars, leaving, moving, ended, surroundings>>

CompileGoal ==
  /\ phase = "compiling"
  /\ phase' = "controlling"
  /\ UNCHANGED <<handlerVars, goalVars, surroundings>>

\* Mutant: the cycle does not ask whether the client is gone.
RunCycleUnwatched ==
  /\ phase = "controlling"
  /\ IF IsCancelRequested
     THEN /\ FailWith("ExecutionCanceled")
          /\ UNCHANGED <<moving, ended>>
     ELSE /\ moving' = TRUE
          /\ \/ phase' = "finishing" /\ ended' = ended \union {goalHandle}
             \/ UNCHANGED <<phase, ended>>
          /\ UNCHANGED error
  /\ UNCHANGED <<handlerVars, leaving, watchedClient, surroundings>>

\* One cycle of the control loop: a canceled goal or one whose client is gone
\* stops here, any other is ticked, commands the robot and may have ended.
RunCycle ==
  /\ phase = "controlling"
  /\ watchedClient' = IF IsCancelRequested THEN watchedClient ELSE Recognized
  /\ \/ /\ IsCancelRequested
        /\ FailWith("ExecutionCanceled")
        /\ UNCHANGED <<moving, ended>>
     \/ /\ ~ IsCancelRequested /\ IsClientGone
        /\ FailWith("ClientDisconnected")
        /\ UNCHANGED <<moving, ended>>
     \/ /\ ~ IsCancelRequested /\ ~ IsClientGone
        /\ moving' = TRUE
        /\ \/ phase' = "finishing" /\ ended' = ended \union {goalHandle}
           \/ UNCHANGED <<phase, ended>>
        /\ UNCHANGED error
  /\ UNCHANGED <<handlerVars, leaving, surroundings>>
-----------------------------------------------------------------------------
\* Finishing a goal.

\* Mutant: the client of the previous goal is still watched.
FinishGoalStillWatching ==
  /\ phase = "finishing"
  /\ moving' = FALSE
  /\ phase' = "answering"
  /\ UNCHANGED <<handlerVars, error, leaving, watchedClient, ended, surroundings>>

\* Mutant: the robot is stopped only if the goal failed.
FinishGoalStoppingOnError ==
  /\ phase = "finishing"
  /\ watchedClient' = NoClient
  /\ moving' = (moving /\ error = "None")
  /\ phase' = "answering"
  /\ UNCHANGED <<handlerVars, error, leaving, ended, surroundings>>

\* finish_goal: the robot is stopped, then cleaning up the statechart and telling
\* the client may raise, but the answer is still given.
FinishGoal ==
  /\ phase = "finishing"
  /\ watchedClient' = NoClient
  /\ moving' = FALSE
  /\ phase' = "answering"
  /\ \/ UNCHANGED leaving
     \/ "cleanup" \in Breaks /\ leaving' = "Exception"
  /\ UNCHANGED <<handlerVars, error, ended, surroundings>>

\* Only an ExecutionCanceledException counts as canceled.
OutcomeOf(failure) ==
  CASE failure = "ExecutionCanceled" -> "CANCELED"
    [] failure = "None" -> "SUCCEEDED"
    [] OTHER -> "ABORTED"

CreateResult ==
  /\ phase = "answering"
  /\ SetOutcome(OutcomeOf(error))
  /\ phase' = "sending"
  /\ UNCHANGED <<goalVars, surroundings>>

\* Mutant: an exception of the clean up leaves `live' before the answer.
AnswerUnlessBreaking ==
  /\ phase = "sending"
  /\ leaving = "None"
  /\ SendResult
  /\ phase' = IF sending' = NoAnswer THEN "idle" ELSE "sending"
  /\ UNCHANGED <<goalVars, surroundings>>

Answer ==
  /\ phase = "sending"
  /\ SendResult
  /\ phase' = IF sending' # NoAnswer THEN "sending"
              ELSE CASE leaving = "None" -> "idle"
                     [] leaving = "Exception" -> "down"
                     [] leaving = "Interrupt" -> "halting"
  /\ UNCHANGED <<goalVars, surroundings>>
-----------------------------------------------------------------------------
\* What ends the thread.

\* Applying a world update of another process raises out of the idle loop.
IdleCycleRaises ==
  /\ "idle" \in Breaks
  /\ phase = "idle"
  /\ phase' = "down"
  /\ UNCHANGED <<handlerVars, goalVars, surroundings>>

\* A KeyboardInterrupt is no Exception: execute_goal catches no error and finishes
\* the goal, ...
InterruptGoal ==
  /\ phase \in {"parsing", "awaiting", "compiling", "controlling"}
  /\ phase' = "finishing"
  /\ UNCHANGED <<moving, watchedClient>>

\* ... finish_goal answers, whatever it got done before, ...
InterruptFinishing ==
  /\ phase = "finishing"
  /\ phase' = "answering"
  /\ \/ UNCHANGED <<moving, watchedClient>>
     \/ watchedClient' = NoClient /\ moving' \in {moving, FALSE}

\* ... and `live' stops the robot before it lets go of the interrupt, ...
InterruptLoop ==
  /\ phase \in {"idle", "answering", "sending"}
  /\ phase' = "halting"
  /\ UNCHANGED <<moving, watchedClient>>

\* ... unless another one interrupts that.
InterruptHalting ==
  /\ phase = "halting"
  /\ phase' = "down"
  /\ UNCHANGED <<moving, watchedClient>>

Interrupt ==
  /\ signals < Signals
  /\ signals' = signals + 1
  /\ leaving' = "Interrupt"
  /\ InterruptGoal \/ InterruptFinishing \/ InterruptLoop \/ InterruptHalting
  /\ UNCHANGED <<handlerVars, error, ended, heartbeat>>

Halt ==
  /\ phase = "halting"
  /\ phase' = "down" /\ moving' = FALSE
  /\ UNCHANGED <<handlerVars, error, leaving, watchedClient, ended, surroundings>>

Serve ==
  \/ TakeGoal \/ ParseGoal \/ GoalFails \/ WorldCaughtUp \/ AwaitWorld
  \/ CompileGoal \/ RunCycle \/ FinishGoal \/ CreateResult \/ Answer \/ Halt

Next ==
  \/ Rclpy
  \/ \E c \in Client : HeartbeatArrives(c) \/ HeartbeatTimesOut(c)
  \/ Serve \/ IdleCycleRaises \/ Interrupt

\* What the thread is certain to do: it takes a goal that waits, leaves the wait
\* for the world, by its timeout at the latest, and polls for a reason to stop in
\* every cycle.  Nothing makes a motion end or fail.
ServeSurely ==
  \/ TakeGoal \/ ParseGoal \/ WorldCaughtUp \/ AwaitWorld \/ CompileGoal
  \/ RunCycle /\ error' # "None"
  \/ FinishGoal \/ CreateResult \/ Answer \/ Halt

Fairness ==
  /\ WF_vars(ServeSurely)
  /\ \A g \in Goal :
       WF_vars((CancelCurrentGoal(g) \/ StartExecuteCallback(g) \/ StopPolling(g)
                  \/ PutGoal(g) \/ GetAnswer(g)) /\ UNCHANGED <<phase, goalVars, surroundings>>)

Spec == Init /\ [][Next]_vars /\ Fairness
-----------------------------------------------------------------------------
TypeOK ==
  /\ HandlerTypeOK
  /\ phase \in Phases /\ error \in Errors
  /\ leaving \in {"None", "Exception", "Interrupt"} /\ moving \in BOOLEAN
  /\ heartbeat \in [Client -> {"never", "recent", "stale"}]
  /\ watchedClient \in Client \union {NoClient}
  /\ ended \in SUBSET Goal
  /\ signals \in 0..Signals

\* Whoever is told the outcome of a goal finds the robot at rest, and so does the
\* next goal: unless a signal interrupts it, the robot only moves while a goal is
\* current, and never once its answer is on the way or the server is down.
RobotMovesOnlyForAGoal ==
  moving /\ leaving # "Interrupt"
    => goalHandle # NoGoal /\ phase \in {"controlling", "finishing"}

\* "Either way the robot is stopped before the interrupt is allowed to propagate
\* further" (live): a single signal, wherever it hits the server, leaves the robot at
\* rest.
StoppedByOneSignal == phase = "down" /\ signals < 2 => ~ moving

\* The robot is at rest whenever nobody is served, however the goal ended and whether
\* or not a signal came between (live, finish_goal).
RobotRestsWhenUnserved == RobotMovesOnlyForAGoal /\ StoppedByOneSignal


\* A goal is stopped for a gone client only if its own client announced itself and
\* fell silent: neither the client of an earlier goal nor one that was never heard
\* of stops it (watch: "an unknown client can never make Giskard stop a goal").
DisconnectOnlyIfSilent ==
  [][error' = "ClientDisconnected" /\ error # error'
       => heartbeat[ClientOf[goalHandle]] = "stale"]_vars

\* Unless a signal interrupts the server, a client is told that its motion succeeded
\* just if the motion reached its end, whatever happened to the goals before
\* (GoalOutcome).
OutcomeTellsTheEnd ==
  \A a \in {answer[g] : g \in Goal} \ {NoAnswer} :
    signals = 0 => ((a.outcome = "SUCCEEDED") <=> (a.goal \in ended))

\* A goal that is canceled or superseded makes room, even if its motion would run
\* forever, unless a signal interrupts the server.
CanceledGoalEnds ==
  \A g \in Goal :
    (goalHandle = g /\ IsCancelRequested) ~> (goalHandle # g \/ signals > 0)

\* A motion whose client died does not run on: a recognized client cannot stay
\* silent forever while its goal stays current.
SilentClientStopsMotion ==
  \A g \in Goal :
    ~ <>[](/\ goalHandle = g /\ watchedClient = ClientOf[g]
           /\ heartbeat[ClientOf[g]] = "stale" /\ signals = 0)

\* A motion nobody wants any more ends, be it canceled, superseded or left behind by
\* its client, although nothing makes it reach its own end (ControlLoop.run).
UnwantedMotionEnds == CanceledGoalEnds /\ SilentClientStopsMotion


\* "The client is answered even if cleaning up or plotting fails": an exception of
\* finish_goal ends the server, but not before somebody takes the answer.
FinishedGoalAnswered ==
  \A g \in Goal :
    (goalHandle = g /\ phase = "finishing")
      ~> ((\E h \in Goal : answer[h].goal = g) \/ signals > 0)

\* The server is one of those the handover was checked for: it calls the handler
\* in the order accept, set the outcome, send the result, and cancels no goal that
\* nobody asked to cancel.
UsesHandler == HandlerInit /\ [][HandlerNext]_handlerVars
=============================================================================
