------------------------ MODULE ActionServerHandler -------------------------
(***************************************************************************)
(* The handover of goals between the threads of rclpy and the thread of    *)
(* Giskard's motion server (giskardpy middleware/ros2/action_server.py).   *)
(*                                                                         *)
(* Every goal has a thread of rclpy's executor that runs execute_callback: *)
(* it polls until no goal is current, hands its goal over through a queue  *)
(* of one place and takes an answer from another.  The goal and cancel     *)
(* callbacks share a mutually exclusive callback group, so one of them     *)
(* runs at a time, but next to the execute callbacks and the motion        *)
(* server.  Each of the steps below is what a thread does between two      *)
(* accesses to what it shares with the others.                             *)
(*                                                                         *)
(* Of the motion server only the calls into the handler are modelled here: *)
(* MotionServer adds what happens between them.                            *)
(***************************************************************************)
EXTENDS Naturals, Sequences, FiniteSets

CONSTANTS
  Goal,
  NoGoal,
  Threads    \* how many threads rclpy's executor has

ASSUME HandlerAssumption == NoGoal \notin Goal /\ Threads \in Nat \ {0}

VARIABLES
  stage,            \* where the callbacks of each goal are
  cancelAsked,      \* the goals whose client asked rclpy to cancel them
  superseded,       \* the goals a newer one was requested during
  goalHandle,       \* the currently accepted goal, or NoGoal
  cancelRequested,
  outcome,
  goalQueue,
  resultQueue,
  sending,          \* the answer send_result has built and not released, if any
  answer            \* what the callback of each goal took from the result queue

Outcomes == {"SUCCEEDED", "ABORTED", "CANCELED"}
NoOutcome == "NONE"
GoalAnswer == [goal : Goal, outcome : Outcomes]
NoAnswer == [goal |-> NoGoal, outcome |-> NoOutcome]

request == <<cancelAsked, superseded, cancelRequested>>
execution == <<goalHandle, outcome, sending>>
handlerVars == <<stage, request, execution, goalQueue, resultQueue, answer>>

HandlerInit ==
  /\ stage = [g \in Goal |-> "unsent"]
  /\ cancelAsked = {} /\ superseded = {}
  /\ goalHandle = NoGoal /\ cancelRequested = FALSE /\ outcome = NoOutcome
  /\ goalQueue = <<>> /\ resultQueue = <<>>
  /\ sending = NoAnswer
  /\ answer = [g \in Goal |-> NoAnswer]
-----------------------------------------------------------------------------
\* The threads of rclpy's executor.

Blocked == {"superseding", "polling", "putting", "getting"}
FreeThread == Cardinality({g \in Goal : stage[g] \in Blocked}) < Threads
CallbackGroupFree == \A g \in Goal : stage[g] # "superseding"

Goes(g, next) == stage' = [stage EXCEPT ![g] = next]

\* default_goal_callback finds out whether a goal is current, ...
RequestGoal(g) ==
  /\ stage[g] = "unsent"
  /\ FreeThread /\ CallbackGroupFree
  /\ IF goalHandle = NoGoal
     THEN Goes(g, "accepted") /\ UNCHANGED superseded
     ELSE Goes(g, "superseding") /\ superseded' = superseded \union {goalHandle}
  /\ UNCHANGED <<cancelAsked, cancelRequested, execution, goalQueue, resultQueue,
                 answer>>

\* ... and then cancels whichever goal is current by now.
CancelCurrentGoal(g) ==
  /\ stage[g] = "superseding"
  /\ Goes(g, "accepted")
  /\ cancelRequested' = TRUE
  /\ UNCHANGED <<cancelAsked, superseded, execution, goalQueue, resultQueue, answer>>

\* cancel_callback accepts every cancel request, and rclpy notes it.
AskToCancel(g) ==
  /\ stage[g] \in {"accepted"} \union Blocked
  /\ FreeThread /\ CallbackGroupFree
  /\ cancelAsked' = cancelAsked \union {g}
  /\ UNCHANGED <<stage, superseded, cancelRequested, execution, goalQueue,
                 resultQueue, answer>>

StartExecuteCallback(g) ==
  /\ stage[g] = "accepted"
  /\ FreeThread
  /\ Goes(g, "polling")
  /\ UNCHANGED <<request, execution, goalQueue, resultQueue, answer>>

StopPolling(g) ==
  /\ stage[g] = "polling"
  /\ goalHandle = NoGoal
  /\ Goes(g, "putting")
  /\ UNCHANGED <<request, execution, goalQueue, resultQueue, answer>>

\* Mutant: a goal that finds the queue occupied takes the place in it.
PutGoalAnyway(g) ==
  /\ stage[g] = "putting"
  /\ goalQueue' = <<g>>
  /\ Goes(g, "getting")
  /\ UNCHANGED <<request, execution, resultQueue, answer>>

PutGoal(g) ==
  /\ stage[g] = "putting"
  /\ goalQueue = <<>>
  /\ goalQueue' = <<g>>
  /\ Goes(g, "getting")
  /\ UNCHANGED <<request, execution, resultQueue, answer>>

\* Queue.get wakes no particular waiter: whoever gets the lock takes the answer.
GetAnswer(g) ==
  /\ stage[g] = "getting"
  /\ resultQueue # <<>>
  /\ answer' = [answer EXCEPT ![g] = Head(resultQueue)]
  /\ resultQueue' = Tail(resultQueue)
  /\ Goes(g, "answered")
  /\ UNCHANGED <<request, execution, goalQueue>>

RclpyStep(g) ==
  \/ RequestGoal(g) \/ CancelCurrentGoal(g) \/ AskToCancel(g)
  \/ StartExecuteCallback(g) \/ StopPolling(g) \/ PutGoal(g) \/ GetAnswer(g)
-----------------------------------------------------------------------------
\* What the motion server calls.

HasGoal == goalQueue # <<>>

IsCancelRequested == cancelRequested \/ goalHandle \in cancelAsked

AcceptGoal ==
  /\ goalHandle = NoGoal /\ sending = NoAnswer
  /\ HasGoal
  /\ goalHandle' = Head(goalQueue)
  /\ goalQueue' = Tail(goalQueue)
  /\ UNCHANGED <<stage, request, outcome, sending, resultQueue, answer>>

SetOutcome(result) ==
  /\ goalHandle # NoGoal
  /\ outcome = NoOutcome
  /\ outcome' = result
  /\ UNCHANGED <<stage, request, goalHandle, sending, goalQueue, resultQueue, answer>>

\* send_result: builds the answer and forgets the goal, ...
ForgetGoal ==
  /\ outcome # NoOutcome /\ sending = NoAnswer
  /\ sending' = [goal |-> goalHandle, outcome |-> outcome]
  /\ goalHandle' = NoGoal
  /\ UNCHANGED <<stage, request, outcome, goalQueue, resultQueue, answer>>

\* ... resets the request to cancel it and its outcome, ...
ResetHandler ==
  /\ sending # NoAnswer /\ outcome # NoOutcome
  /\ cancelRequested' = FALSE
  /\ outcome' = NoOutcome
  /\ UNCHANGED <<stage, cancelAsked, superseded, goalHandle, sending, goalQueue,
                 resultQueue, answer>>

\* Mutant: an answer nobody took yet is dropped for the next one.
ReleaseAnswerAnyway ==
  /\ sending # NoAnswer /\ outcome = NoOutcome
  /\ resultQueue' = <<sending>>
  /\ sending' = NoAnswer
  /\ UNCHANGED <<stage, request, goalHandle, outcome, goalQueue, answer>>

\* ... and releases the answer, once there is room for it.
ReleaseAnswer ==
  /\ sending # NoAnswer /\ outcome = NoOutcome
  /\ resultQueue = <<>>
  /\ resultQueue' = <<sending>>
  /\ sending' = NoAnswer
  /\ UNCHANGED <<stage, request, goalHandle, outcome, goalQueue, answer>>

SendResult == ForgetGoal \/ ResetHandler \/ ReleaseAnswer

\* A motion server that ends every goal somehow, and as canceled only if asked.
EndGoal ==
  \E result \in Outcomes :
    /\ result = "CANCELED" => IsCancelRequested
    /\ SetOutcome(result)

HandlerNext ==
  \/ \E g \in Goal : RclpyStep(g)
  \/ AcceptGoal \/ EndGoal \/ SendResult

\* The threads run, and the motion server ends every goal.  Nothing makes a
\* client send a goal or cancel one.
HandlerFairness ==
  /\ \A g \in Goal :
       WF_handlerVars(CancelCurrentGoal(g) \/ StartExecuteCallback(g) \/ StopPolling(g)
                        \/ PutGoal(g) \/ GetAnswer(g))
  /\ WF_handlerVars(AcceptGoal \/ EndGoal \/ SendResult)

HandlerSpec == HandlerInit /\ [][HandlerNext]_handlerVars /\ HandlerFairness
-----------------------------------------------------------------------------
HandlerTypeOK ==
  /\ stage \in [Goal -> {"unsent", "accepted", "answered"} \union Blocked]
  /\ cancelAsked \in SUBSET Goal /\ superseded \in SUBSET Goal
  /\ goalHandle \in Goal \union {NoGoal}
  /\ cancelRequested \in BOOLEAN
  /\ outcome \in Outcomes \union {NoOutcome}
  /\ goalQueue \in {<<>>} \union {<<g>> : g \in Goal}
  /\ resultQueue \in {<<>>} \union {<<a>> : a \in GoalAnswer}
  /\ sending \in GoalAnswer \union {NoAnswer}
  /\ answer \in [Goal -> GoalAnswer \union {NoAnswer}]

\* The goals handed over and those of them whose answer is still to come.
HandedOver == {g \in Goal : stage[g] \in {"getting", "answered"}}
Awaited ==
  {g \in Goal : \/ goalQueue = <<g>>
                \/ goalHandle = g
                \/ sending.goal = g
                \/ \E result \in Outcomes :
                     resultQueue = <<[goal |-> g, outcome |-> result]>>}
Answered == {answer[g].goal : g \in {h \in Goal : stage[h] = "answered"}}

\* Every callback that waits has an answer coming, and no answer comes twice:
\* the goals handed over are those still to be answered and those answered, and
\* as many callbacks wait as answers are to come.  No client waits for an answer
\* nobody is going to give, and send_result never waits for a client that left.
EveryWaiterIsOwedOneAnswer ==
  /\ HandedOver = Awaited \union Answered
  /\ Awaited \intersect Answered = {}
  /\ \A g, h \in Goal :
       stage[g] = "answered" /\ stage[h] = "answered" /\ g # h
         => answer[g].goal # answer[h].goal

\* Every goal that rclpy accepted is answered in the end, in whatever order the
\* threads get hold of the queues and however few threads the executor has.
EveryGoalAnswered ==
  \A g \in Goal : (stage[g] = "accepted") ~> (stage[g] = "answered")

Progress(g) ==
  IF g \notin HandedOver THEN "new"
  ELSE IF goalQueue = <<g>> THEN "queued"
  ELSE IF goalHandle = g THEN "executing"
  ELSE "ended"

\* One goal at a time, one answer for every goal.
Service == INSTANCE GoalService
             WITH progress <- [g \in Goal |-> Progress(g)],
                  takenBy <- [g \in Goal |-> answer[g].goal]
ImplementsGoalService == Service!Spec
=============================================================================
