------------------------- MODULE MotionServer_proofs -------------------------
(***************************************************************************)
(* What holds of the handover and of the motion server for every set of    *)
(* goals and clients, every number of threads and of signals, and whatever *)
(* breaks.                                                                 *)
(*                                                                         *)
(* The handover comes first, as a specification of its own                 *)
(* (HandlerSpec).  A goal that was handed over is in exactly one place on  *)
(* its way through the handler: in the goal queue, current, in an answer   *)
(* being sent, in the result queue, or answered.  That is the inductive    *)
(* invariant; every step moves at most one goal from one place to the next.*)
(*                                                                         *)
(* Every step of the server is a step of the handler or leaves it alone,   *)
(* so what holds of the handover holds of the server as well.  That needs  *)
(* an invariant of the server's own: a goal fails as canceled only if it   *)
(* was asked to, and is still asked to when it is answered.                *)
(***************************************************************************)
EXTENDS MotionServer, TLAPS

QueuedGoals == {g \in Goal : goalQueue = <<g>>}
CurrentGoals == {g \in Goal : goalHandle = g}
SentGoals == {g \in Goal : sending.goal = g}
ReleasedGoals ==
  {g \in Goal : \E result \in Outcomes :
                  resultQueue = <<[goal |-> g, outcome |-> result]>>}

OnePlace ==
  /\ QueuedGoals \intersect CurrentGoals = {}
  /\ QueuedGoals \intersect SentGoals = {}
  /\ QueuedGoals \intersect ReleasedGoals = {}
  /\ SentGoals \intersect ReleasedGoals = {}
  /\ CurrentGoals \intersect ReleasedGoals = {}

Handing ==
  /\ \A g \in Goal : stage[g] = "answered" <=> answer[g] # NoAnswer
  /\ outcome # NoOutcome /\ sending = NoAnswer => goalHandle # NoGoal
  /\ sending # NoAnswer => goalHandle = NoGoal

Sound ==
  /\ HandlerTypeOK
  /\ Handing
  /\ OnePlace
  /\ EveryWaiterIsOwedOneAnswer
-----------------------------------------------------------------------------
LEMMA Values ==
  /\ NoGoal \notin Goal /\ NoOutcome \notin Outcomes
  /\ \A a \in GoalAnswer : a.goal \in Goal /\ a.outcome \in Outcomes /\ a # NoAnswer
                           /\ a.goal # NoGoal
                           /\ a = [goal |-> a.goal, outcome |-> a.outcome]
  /\ NoAnswer.goal = NoGoal /\ NoAnswer.outcome = NoOutcome
  /\ NoAnswer \notin GoalAnswer
BY HandlerAssumption DEF GoalAnswer, Outcomes, NoOutcome, NoAnswer

LEMMA Init_Sound == HandlerInit => Sound
<1> SUFFICES ASSUME HandlerInit PROVE Sound
  OBVIOUS
<1> USE Values, HandlerAssumption DEF HandlerInit
<1>1. HandlerTypeOK
  BY DEF HandlerTypeOK, Blocked
<1>2. Handing
  BY DEF Handing
<1>3. QueuedGoals = {} /\ CurrentGoals = {} /\ SentGoals = {} /\ ReleasedGoals = {}
  BY DEF QueuedGoals, CurrentGoals, SentGoals, ReleasedGoals
<1>4. EveryWaiterIsOwedOneAnswer
  BY DEF EveryWaiterIsOwedOneAnswer, HandedOver, Awaited, Answered
<1>5. QED
  BY <1>1, <1>2, <1>3, <1>4 DEF Sound, OnePlace

-----------------------------------------------------------------------------
\* Steps that touch neither the queues nor the current goal.

Untouched == UNCHANGED <<goalHandle, sending, goalQueue, resultQueue, answer>>

LEMMA UntouchedPlaces ==
  ASSUME Untouched
  PROVE /\ UNCHANGED <<QueuedGoals, CurrentGoals, SentGoals, ReleasedGoals>>
        /\ UNCHANGED Awaited
BY DEF Untouched, QueuedGoals, CurrentGoals, SentGoals, ReleasedGoals, Awaited

LEMMA AwaitedPlaces ==
  /\ Awaited = QueuedGoals \union CurrentGoals \union SentGoals \union ReleasedGoals
  /\ Awaited' = QueuedGoals' \union CurrentGoals' \union SentGoals' \union ReleasedGoals'
BY DEF QueuedGoals, CurrentGoals, SentGoals, ReleasedGoals, Awaited

\* What the callbacks do before a goal is handed over leaves everything in place.
LEMMA Calling ==
  ASSUME Sound, NEW g \in Goal,
         \/ RequestGoal(g) \/ CancelCurrentGoal(g) \/ AskToCancel(g)
         \/ StartExecuteCallback(g) \/ StopPolling(g)
  PROVE Sound'
<1> USE Values DEF Sound
<1>1. Untouched /\ UNCHANGED outcome
  BY DEF Untouched, RequestGoal, CancelCurrentGoal, AskToCancel,
         StartExecuteCallback, StopPolling, execution, request
<1>2. HandlerTypeOK'
  BY ZenonT(60) DEF HandlerTypeOK, RequestGoal, CancelCurrentGoal, AskToCancel, Goes,
         StartExecuteCallback, StopPolling, execution, request, Blocked
<1>3. \A h \in Goal : /\ stage'[h] = "answered" <=> stage[h] = "answered"
                      /\ stage'[h] = "getting" <=> stage[h] = "getting"
  BY DEF HandlerTypeOK, RequestGoal, CancelCurrentGoal, AskToCancel, Goes,
         StartExecuteCallback, StopPolling, Blocked
<1>4. Handing'
  BY <1>1, <1>3 DEF Handing, Untouched
<1>5. OnePlace'
  BY <1>1, UntouchedPlaces DEF OnePlace
<1>6. HandedOver' = HandedOver /\ Answered' = Answered
  BY <1>1, <1>3 DEF HandedOver, Answered, Untouched
<1>7. EveryWaiterIsOwedOneAnswer'
  BY <1>1, <1>3, <1>6, UntouchedPlaces DEF EveryWaiterIsOwedOneAnswer, Untouched
<1>8. QED
  BY <1>2, <1>4, <1>5, <1>7
-----------------------------------------------------------------------------
\* Steps that move a goal to its next place.

LEMMA PutGoal_Sound ==
  ASSUME Sound, NEW g \in Goal, PutGoal(g)
  PROVE Sound'
<1> USE Values DEF Sound, PutGoal, Goes, request, execution
<1>1. HandlerTypeOK'
  BY DEF HandlerTypeOK, Blocked
<1>2. Handing'
  BY DEF Handing, HandlerTypeOK
<1>3. /\ QueuedGoals = {} /\ QueuedGoals' = {g}
      /\ UNCHANGED <<CurrentGoals, SentGoals, ReleasedGoals>>
  BY DEF QueuedGoals, CurrentGoals, SentGoals, ReleasedGoals
<1>4. g \notin HandedOver /\ HandedOver' = HandedOver \union {g}
  BY DEF HandedOver, HandlerTypeOK
<1>5. Answered' = Answered
  BY DEF Answered, HandlerTypeOK
<1>6. g \notin Awaited /\ g \notin Answered
  BY <1>4 DEF EveryWaiterIsOwedOneAnswer
<1>7. OnePlace'
  BY <1>3, <1>6, AwaitedPlaces DEF OnePlace
<1>8. Awaited' = Awaited \union {g}
  BY <1>3, AwaitedPlaces
<1>9. \A h \in Goal : stage'[h] = "answered" <=> stage[h] = "answered"
  BY DEF HandlerTypeOK
<1>10. EveryWaiterIsOwedOneAnswer'
  BY <1>4, <1>5, <1>6, <1>8, <1>9 DEF EveryWaiterIsOwedOneAnswer
<1>11. QED
  BY <1>1, <1>2, <1>7, <1>10

\* Neither the callbacks nor the answers given change: what remains to be shown of
\* the steps of the motion server is that they keep the goals in one place.
LEMMA Serving ==
  ASSUME Sound, UNCHANGED <<stage, answer>>, HandlerTypeOK', Handing', OnePlace',
         Awaited' = Awaited
  PROVE Sound'
BY DEF Sound, EveryWaiterIsOwedOneAnswer, HandedOver, Answered

LEMMA AcceptGoal_Sound ==
  ASSUME Sound, AcceptGoal
  PROVE Sound'
<1> USE Values DEF Sound, AcceptGoal, HasGoal, request
<1>1. PICK g \in Goal : goalQueue = <<g>>
  BY DEF HandlerTypeOK
<1>2. goalHandle' = g /\ goalQueue' = <<>>
  BY <1>1
<1>3. HandlerTypeOK'
  BY <1>2 DEF HandlerTypeOK
<1>4. Handing'
  BY DEF Handing
<1>5. /\ QueuedGoals = {g} /\ QueuedGoals' = {}
      /\ CurrentGoals = {} /\ CurrentGoals' = {g}
      /\ UNCHANGED <<SentGoals, ReleasedGoals>> /\ SentGoals = {}
  BY <1>1, <1>2 DEF QueuedGoals, CurrentGoals, SentGoals, ReleasedGoals
<1>6. OnePlace' /\ Awaited' = Awaited
  BY <1>5, AwaitedPlaces DEF OnePlace
<1>7. QED
  BY <1>3, <1>4, <1>6, Serving

LEMMA SetOutcome_Sound ==
  ASSUME Sound, NEW result \in Outcomes, SetOutcome(result)
  PROVE Sound'
<1> USE Values DEF Sound, SetOutcome, request
<1>1. HandlerTypeOK' /\ Handing'
  BY DEF HandlerTypeOK, Handing
<1>2. Untouched
  BY DEF Untouched
<1>3. QED
  BY <1>1, <1>2, UntouchedPlaces, Serving DEF OnePlace

LEMMA ForgetGoal_Sound ==
  ASSUME Sound, ForgetGoal
  PROVE Sound'
<1> USE Values DEF Sound, ForgetGoal, request
<1> DEFINE g == goalHandle
<1>1. g \in Goal /\ outcome \in Outcomes
  BY DEF HandlerTypeOK, Handing
<1>2. sending' \in GoalAnswer /\ sending'.goal = g
  BY <1>1 DEF GoalAnswer
<1>3. HandlerTypeOK' /\ Handing'
  BY <1>2 DEF HandlerTypeOK, Handing
<1>4. /\ CurrentGoals = {g} /\ CurrentGoals' = {}
      /\ SentGoals = {} /\ SentGoals' = {g}
      /\ UNCHANGED <<QueuedGoals, ReleasedGoals>>
  BY <1>1, <1>2 DEF QueuedGoals, CurrentGoals, SentGoals, ReleasedGoals
<1>5. OnePlace' /\ Awaited' = Awaited
  BY <1>4, AwaitedPlaces DEF OnePlace
<1>6. QED
  BY <1>3, <1>5, Serving

LEMMA ResetHandler_Sound ==
  ASSUME Sound, ResetHandler
  PROVE Sound'
<1> USE Values DEF Sound, ResetHandler
<1>1. HandlerTypeOK' /\ Handing'
  BY DEF HandlerTypeOK, Handing
<1>2. Untouched
  BY DEF Untouched
<1>3. QED
  BY <1>1, <1>2, UntouchedPlaces, Serving DEF OnePlace

LEMMA ReleaseAnswer_Sound ==
  ASSUME Sound, ReleaseAnswer
  PROVE Sound'
<1> USE Values DEF Sound, ReleaseAnswer, request
<1>1. sending \in GoalAnswer /\ sending.goal \in Goal
  BY DEF HandlerTypeOK
<1>2. HandlerTypeOK' /\ Handing'
  BY <1>1 DEF HandlerTypeOK, Handing
<1> DEFINE g == sending.goal
<1>3. \A h \in Goal, result \in Outcomes :
        <<sending>> = <<[goal |-> h, outcome |-> result]>>
          <=> h = g /\ result = sending.outcome
  BY <1>1
<1>4. /\ SentGoals = {g} /\ SentGoals' = {}
      /\ ReleasedGoals = {} /\ ReleasedGoals' = {g}
      /\ UNCHANGED <<QueuedGoals, CurrentGoals>> /\ CurrentGoals = {}
  BY <1>1, <1>3 DEF QueuedGoals, CurrentGoals, SentGoals, ReleasedGoals, Handing
<1>5. OnePlace' /\ Awaited' = Awaited
  BY <1>4, AwaitedPlaces DEF OnePlace
<1>6. QED
  BY <1>2, <1>5, Serving

\* Whoever takes the answer, it is the one answer of its goal.
LEMMA GetAnswer_Sound ==
  ASSUME Sound, NEW g \in Goal, GetAnswer(g)
  PROVE /\ Sound'
        /\ Answered' = Answered \union ReleasedGoals
        /\ ReleasedGoals = {Head(resultQueue).goal}
<1> USE Values DEF Sound, GetAnswer, Goes, request, execution
<1>1. PICK a \in GoalAnswer : resultQueue = <<a>>
  BY DEF HandlerTypeOK
<1>2. Head(resultQueue) = a /\ resultQueue' = <<>> /\ answer' = [answer EXCEPT ![g] = a]
  BY <1>1
<1>3. HandlerTypeOK' /\ Handing'
  BY <1>2 DEF HandlerTypeOK, Handing, Blocked
<1>4. \A h \in Goal, result \in Outcomes :
        <<a>> = <<[goal |-> h, outcome |-> result]>> <=> h = a.goal /\ result = a.outcome
  OBVIOUS
<1>5. /\ ReleasedGoals = {a.goal} /\ ReleasedGoals' = {}
      /\ UNCHANGED <<QueuedGoals, CurrentGoals, SentGoals>>
  BY <1>1, <1>2, <1>4 DEF QueuedGoals, CurrentGoals, SentGoals, ReleasedGoals
<1>6. OnePlace' /\ Awaited' = Awaited \ {a.goal} /\ a.goal \in Awaited
  BY <1>5, AwaitedPlaces DEF OnePlace
<1>7. /\ \A h \in Goal : stage'[h] = "answered" <=> stage[h] = "answered" \/ h = g
      /\ \A h \in Goal \ {g} : answer'[h] = answer[h]
      /\ answer'[g] = a
      /\ stage[g] = "getting"
  BY <1>2 DEF HandlerTypeOK
<1>8. HandedOver' = HandedOver
  BY <1>7 DEF HandedOver, HandlerTypeOK
<1>9. Answered' = Answered \union {a.goal}
  BY <1>7 DEF Answered
<1>10. a.goal \notin Answered
  BY <1>6 DEF EveryWaiterIsOwedOneAnswer
<1>11. HandedOver' = Awaited' \union Answered' /\ Awaited' \intersect Answered' = {}
  BY <1>6, <1>8, <1>9, <1>10 DEF EveryWaiterIsOwedOneAnswer
<1>12. ASSUME NEW h \in Goal, NEW i \in Goal,
              stage'[h] = "answered", stage'[i] = "answered", h # i
       PROVE answer'[h].goal # answer'[i].goal
  BY <1>7, <1>10, <1>12 DEF EveryWaiterIsOwedOneAnswer, Answered
<1>13. EveryWaiterIsOwedOneAnswer'
  BY <1>11, <1>12 DEF EveryWaiterIsOwedOneAnswer
<1>14. QED
  BY <1>2, <1>3, <1>5, <1>6, <1>9, <1>13

LEMMA Next_Sound ==
  ASSUME Sound, [HandlerNext]_handlerVars
  PROVE Sound'
<1>1. CASE UNCHANGED handlerVars
  BY <1>1 DEF handlerVars, request, execution, Sound, HandlerTypeOK, Handing, OnePlace,
              QueuedGoals, CurrentGoals, SentGoals, ReleasedGoals,
              EveryWaiterIsOwedOneAnswer, HandedOver, Awaited, Answered
<1>2. ASSUME NEW g \in Goal, RclpyStep(g)
      PROVE Sound'
  BY <1>2, Calling, PutGoal_Sound, GetAnswer_Sound DEF RclpyStep
<1>3. CASE EndGoal
  BY <1>3, SetOutcome_Sound DEF EndGoal
<1>4. CASE AcceptGoal \/ SendResult
  BY <1>4, AcceptGoal_Sound, ForgetGoal_Sound, ResetHandler_Sound, ReleaseAnswer_Sound
     DEF SendResult
<1>5. QED
  BY <1>1, <1>2, <1>3, <1>4 DEF HandlerNext
-----------------------------------------------------------------------------
\* The handover, whoever uses it and however its threads are scheduled.
HandlerSafety == HandlerInit /\ [][HandlerNext]_handlerVars

THEOREM HandlerSound == HandlerSafety => []Sound
BY Init_Sound, Next_Sound, PTL DEF HandlerSafety

\* The fields of the handler, its queues and the answers keep their types.
THEOREM HandlerTypeCorrect == HandlerSpec => []HandlerTypeOK
<1>1. Sound => HandlerTypeOK
  BY DEF Sound
<1>2. QED
  BY <1>1, HandlerSound, PTL DEF HandlerSpec, HandlerSafety

\* However many goals there are, every callback that waits in result_queue.get is
\* owed exactly one answer, and no goal is answered twice.
THEOREM WaitersAreOwedAnswers == HandlerSpec => []EveryWaiterIsOwedOneAnswer
<1>1. Sound => EveryWaiterIsOwedOneAnswer
  BY DEF Sound
<1>2. QED
  BY <1>1, HandlerSound, PTL DEF HandlerSpec, HandlerSafety
-----------------------------------------------------------------------------
\* The handover implements GoalService.

LEMMA ProgressOf ==
  ASSUME Sound, NEW g \in Goal
  PROVE /\ Progress(g) = "new" <=> g \notin HandedOver
        /\ Progress(g) = "queued" <=> g \in QueuedGoals
        /\ Progress(g) = "executing" <=> g \in CurrentGoals
        /\ Progress(g) \in {"new", "queued", "executing", "ended"}
BY AwaitedPlaces DEF Progress, Sound, OnePlace, EveryWaiterIsOwedOneAnswer, QueuedGoals,
                     CurrentGoals

LEMMA ProgressNext ==
  ASSUME Sound', NEW g \in Goal
  PROVE /\ Progress(g)' = "new" <=> g \notin HandedOver'
        /\ Progress(g)' = "queued" <=> g \in QueuedGoals'
        /\ Progress(g)' = "executing" <=> g \in CurrentGoals'
        /\ Progress(g)' \in {"new", "queued", "executing", "ended"}
BY AwaitedPlaces DEF Progress, Sound, OnePlace, EveryWaiterIsOwedOneAnswer, QueuedGoals,
                     CurrentGoals

\* Steps that leave these sets alone leave the progress of every goal alone.
LEMMA SameProgress ==
  ASSUME Sound, Sound', UNCHANGED <<HandedOver, QueuedGoals, CurrentGoals>>
  PROVE UNCHANGED [g \in Goal |-> Progress(g)]
<1>1. \A g \in Goal : Progress(g)' = Progress(g)
  BY ProgressOf, ProgressNext
<1>2. QED
  BY <1>1

\* Steps that only move `g' change its progress only.
LEMMA OtherProgress ==
  ASSUME Sound, Sound', NEW g \in Goal,
         HandedOver' \ {g} = HandedOver \ {g},
         QueuedGoals' \ {g} = QueuedGoals \ {g},
         CurrentGoals' \ {g} = CurrentGoals \ {g}
  PROVE [h \in Goal |-> Progress(h)]'
          = [[h \in Goal |-> Progress(h)] EXCEPT ![g] = Progress(g)']
<1>1. \A h \in Goal \ {g} : Progress(h)' = Progress(h)
  BY ProgressOf, ProgressNext
<1>2. QED
  BY <1>1

LEMMA Init_Service == HandlerInit => Service!Init
<1> SUFFICES ASSUME HandlerInit PROVE Service!Init
  OBVIOUS
<1>1. \A g \in Goal : g \notin HandedOver
  BY DEF HandlerInit, HandedOver
<1>2. \A g \in Goal : Progress(g) = "new"
  BY <1>1, Init_Sound, ProgressOf
<1>3. QED
  BY <1>2, Values DEF Service!Init, HandlerInit

LEMMA Next_Service ==
  ASSUME Sound, [HandlerNext]_handlerVars
  PROVE [Service!Next]_(Service!vars)
<1> USE Values, Next_Sound DEF Service!vars
<1> DEFINE progress == [g \in Goal |-> Progress(g)]
           takenBy == [g \in Goal |-> answer[g].goal]
<1>1. ASSUME UNCHANGED <<HandedOver, QueuedGoals, CurrentGoals, answer>>
      PROVE UNCHANGED Service!vars
  BY <1>1, SameProgress
<1>2. CASE UNCHANGED handlerVars
  BY <1>1, <1>2 DEF handlerVars, request, execution, HandedOver, QueuedGoals, CurrentGoals
<1>3. ASSUME NEW g \in Goal,
             \/ RequestGoal(g) \/ CancelCurrentGoal(g) \/ AskToCancel(g)
             \/ StartExecuteCallback(g) \/ StopPolling(g)
      PROVE UNCHANGED Service!vars
  <2>1. Untouched
    BY <1>3 DEF Untouched, RequestGoal, CancelCurrentGoal, AskToCancel,
                StartExecuteCallback, StopPolling, execution, request
  <2>2. UNCHANGED HandedOver
    BY <1>3 DEF HandedOver, Sound, HandlerTypeOK, RequestGoal, CancelCurrentGoal,
                AskToCancel, Goes, StartExecuteCallback, StopPolling, Blocked
  <2>3. QED
    BY <1>1, <2>1, <2>2, UntouchedPlaces DEF Untouched
<1>4. ASSUME NEW g \in Goal, PutGoal(g)
      PROVE Service!Queue(g)
  <2> USE <1>4 DEF PutGoal, Goes, execution
  <2>1. g \notin HandedOver /\ HandedOver' = HandedOver \union {g}
    BY DEF HandedOver, HandlerTypeOK, Sound
  <2>2. QueuedGoals = {} /\ QueuedGoals' = {g} /\ UNCHANGED CurrentGoals
    BY DEF QueuedGoals, CurrentGoals
  <2>3. progress' = [progress EXCEPT ![g] = Progress(g)']
    BY <2>1, <2>2, OtherProgress
  <2>4. Progress(g) = "new" /\ Progress(g)' = "queued"
    BY <2>1, <2>2, ProgressOf, ProgressNext
  <2>5. \A h \in Goal : Progress(h) # "queued"
    BY <2>2, ProgressOf
  <2>6. QED
    BY <2>3, <2>4, <2>5 DEF Service!Queue
<1>5. CASE AcceptGoal
  <2> USE <1>5 DEF AcceptGoal, HasGoal
  <2>1. PICK g \in Goal : goalQueue = <<g>>
    BY DEF HandlerTypeOK, Sound
  <2>2. goalHandle' = g /\ goalQueue' = <<>>
    BY <2>1
  <2>3. /\ QueuedGoals = {g} /\ QueuedGoals' = {}
        /\ CurrentGoals = {} /\ CurrentGoals' = {g}
        /\ UNCHANGED HandedOver
    BY <2>1, <2>2 DEF QueuedGoals, CurrentGoals, HandedOver
  <2>4. progress' = [progress EXCEPT ![g] = Progress(g)']
    BY <2>3, OtherProgress
  <2>5. Progress(g) = "queued" /\ Progress(g)' = "executing"
    BY <2>3, ProgressOf, ProgressNext
  <2>6. \A h \in Goal : Progress(h) # "executing"
    BY <2>3, ProgressOf
  <2>7. Service!Execute(g)
    BY <2>4, <2>5, <2>6 DEF Service!Execute
  <2>8. QED
    BY <2>7 DEF Service!Next
<1>6. CASE ForgetGoal
  <2> USE <1>6 DEF ForgetGoal
  <2>1. PICK g \in Goal : goalHandle = g
    BY DEF Sound, HandlerTypeOK, Handing
  <2>2. /\ CurrentGoals = {g} /\ CurrentGoals' = {}
        /\ UNCHANGED <<QueuedGoals, HandedOver>>
    BY <2>1 DEF QueuedGoals, CurrentGoals, HandedOver
  <2>3. progress' = [progress EXCEPT ![g] = Progress(g)']
    BY <2>1, <2>2, OtherProgress
  <2>4. Progress(g) = "executing"
    BY <2>1, <2>2, ProgressOf
  <2>5. Progress(g)' = "ended"
    BY <2>1, <2>2, <2>4, ProgressOf, ProgressNext
  <2>6. Service!End(g)
    BY <2>1, <2>3, <2>4, <2>5 DEF Service!End
  <2>7. QED
    BY <2>1, <2>6 DEF Service!Next
<1>7. CASE EndGoal \/ ResetHandler \/ ReleaseAnswer
  <2>1. UNCHANGED <<HandedOver, QueuedGoals, CurrentGoals, answer>>
    BY <1>7 DEF EndGoal, SetOutcome, ResetHandler, ReleaseAnswer, HandedOver,
                QueuedGoals, CurrentGoals
  <2>2. QED
    BY <1>1, <2>1
<1>8. ASSUME NEW g \in Goal, GetAnswer(g)
      PROVE \E b \in Goal : Service!Take(g, b)
  <2> USE <1>8 DEF GetAnswer, Goes, execution
  <2>1. PICK a \in GoalAnswer : resultQueue = <<a>>
    BY DEF HandlerTypeOK, Sound
  <2>2. answer' = [answer EXCEPT ![g] = a]
    BY <2>1
  <2>3. takenBy' = [takenBy EXCEPT ![g] = a.goal]
    BY <2>2 DEF Sound, HandlerTypeOK
  <2>4. UNCHANGED <<HandedOver, QueuedGoals, CurrentGoals>>
    BY DEF HandedOver, QueuedGoals, CurrentGoals, Sound, HandlerTypeOK
  <2>5. UNCHANGED progress
    BY <2>4, SameProgress
  <2>6. a.goal \in ReleasedGoals
    BY <2>1 DEF ReleasedGoals
  <2>7. Progress(a.goal) = "ended"
    BY <2>6, AwaitedPlaces, ProgressOf DEF Sound, OnePlace, EveryWaiterIsOwedOneAnswer
  <2>8. Progress(g) # "new"
    BY ProgressOf DEF HandedOver
  <2>9. a.goal \notin Answered
    BY <2>6, AwaitedPlaces DEF Sound, EveryWaiterIsOwedOneAnswer
  <2>10. \A h \in Goal : answer[h].goal # a.goal
    BY <2>9 DEF Answered, Sound, Handing, HandlerTypeOK
  <2>11. answer[g].goal = NoGoal
    BY DEF Sound, Handing, HandlerTypeOK
  <2>12. Service!Take(g, a.goal)
    BY <2>3, <2>5, <2>7, <2>8, <2>10, <2>11 DEF Service!Take
  <2>13. QED
    BY <2>12
<1>9. QED
  BY <1>2, <1>3, <1>4, <1>5, <1>6, <1>7, <1>8
     DEF HandlerNext, RclpyStep, SendResult, Service!Next

\* Giskard executes one goal at a time and answers every executed goal once, for
\* any number of goals and threads.
THEOREM HandlerImplementsGoalService == HandlerSpec => ImplementsGoalService
<1>1. HandlerSafety => Service!Init /\ [][Service!Next]_(Service!vars)
  BY Init_Service, Next_Service, HandlerSound, PTL DEF HandlerSafety
<1>2. QED
  BY <1>1, PTL DEF HandlerSpec, HandlerSafety, ImplementsGoalService, Service!Spec
-----------------------------------------------------------------------------
\* The motion server.

Executing == {"parsing", "awaiting", "compiling", "controlling"}

GoalIsCurrent == phase \in Executing \union {"finishing", "answering"} => goalHandle \in Goal

ErrorIsOfGoal ==
  /\ phase \in Executing => error = "None"
  /\ phase \in {"finishing", "answering"} /\ error = "ExecutionCanceled"
       => IsCancelRequested

\* Whether the server goes on after the current goal.
WillServe ==
  \/ phase \in {"idle", "parsing"}
  \/ phase \in {"answering", "sending"} /\ leaving # "Interrupt"

WatchIsOfGoal ==
  /\ WillServe => watchedClient = NoClient
  /\ phase \in Executing /\ watchedClient # NoClient => watchedClient = ClientOf[goalHandle]
  /\ watchedClient # NoClient => heartbeat[watchedClient] # "never"

RobotIsWatched ==
  /\ moving => \/ phase \in {"controlling", "finishing"}
               \/ phase \in {"answering", "sending", "halting"} /\ leaving = "Interrupt"
               \/ phase = "down" /\ leaving = "Interrupt" /\ signals >= 2
  /\ phase = "halting" \/ leaving = "Interrupt" => signals >= 1
  /\ phase \in {"idle"} \union Executing => leaving = "None"

ServerTypeOK ==
  /\ phase \in Phases /\ error \in Errors
  /\ leaving \in {"None", "Exception", "Interrupt"} /\ moving \in BOOLEAN
  /\ heartbeat \in [Client -> {"never", "recent", "stale"}]
  /\ watchedClient \in Client \union {NoClient}
  /\ ended \in SUBSET Goal
  /\ signals \in 0..Signals

ServerSound ==
  /\ Sound
  /\ ServerTypeOK
  /\ GoalIsCurrent
  /\ ErrorIsOfGoal
  /\ WatchIsOfGoal
  /\ RobotIsWatched
-----------------------------------------------------------------------------
LEMMA Init_ServerSound == Init => ServerSound
<1> SUFFICES ASSUME Init PROVE ServerSound
  OBVIOUS
<1> USE ServerAssumption DEF Init
<1>1. Sound
  BY Init_Sound
<1>2. ServerTypeOK
  <2>1. signals \in 0..Signals
    OBVIOUS
  <2>2. moving \in BOOLEAN
    OBVIOUS
  <2>3. heartbeat \in [Client -> {"never", "recent", "stale"}]
    OBVIOUS
  <2>4. QED
    BY <2>1, <2>2, <2>3, Zenon DEF ServerTypeOK, Phases, Errors
<1>3. GoalIsCurrent /\ ErrorIsOfGoal
  BY DEF GoalIsCurrent, ErrorIsOfGoal, Executing
<1>4. WatchIsOfGoal
  BY DEF WatchIsOfGoal, Executing, WillServe
<1>5. RobotIsWatched
  BY DEF RobotIsWatched, Executing
<1>6. QED
  BY <1>1, <1>2, <1>3, <1>4, <1>5 DEF ServerSound
-----------------------------------------------------------------------------
\* Every step of the server is one of the handler.

LEMMA Outside ==
  ASSUME \/ \E c \in Client : HeartbeatArrives(c) \/ HeartbeatTimesOut(c)
         \/ ParseGoal \/ GoalFails \/ WorldCaughtUp \/ AwaitWorld \/ CompileGoal
         \/ RunCycle \/ FinishGoal \/ Halt \/ IdleCycleRaises \/ Interrupt
  PROVE UNCHANGED handlerVars
BY DEF HeartbeatArrives, HeartbeatTimesOut, ParseGoal, GoalFails, WorldCaughtUp,
       AwaitWorld, CompileGoal, RunCycle, FinishGoal, Halt, IdleCycleRaises, Interrupt

LEMMA Next_Handler ==
  ASSUME ServerSound, [Next]_vars
  PROVE [HandlerNext]_handlerVars
<1>1. CASE UNCHANGED vars
  BY <1>1 DEF vars
<1>2. CASE Rclpy
  BY <1>2 DEF Rclpy, HandlerNext
<1>3. CASE TakeGoal
  BY <1>3 DEF TakeGoal, HandlerNext
<1>4. CASE CreateResult
  <2>1. OutcomeOf(error) \in Outcomes
    BY DEF OutcomeOf, Outcomes
  <2>2. OutcomeOf(error) = "CANCELED" => IsCancelRequested
    BY <1>4 DEF OutcomeOf, CreateResult, ServerSound, ErrorIsOfGoal
  <2>3. QED
    BY <1>4, <2>1, <2>2 DEF CreateResult, HandlerNext, EndGoal
<1>5. CASE Answer
  BY <1>5 DEF Answer, HandlerNext
<1>6. QED
  BY <1>1, <1>2, <1>3, <1>4, <1>5, Outside DEF Next, Serve
-----------------------------------------------------------------------------
\* Every step keeps the server's own invariant.

Own ==
  /\ ServerTypeOK
  /\ GoalIsCurrent
  /\ ErrorIsOfGoal
  /\ WatchIsOfGoal
  /\ RobotIsWatched

\* What the steps that leave the handler alone leave alone.
LEMMA HandlerAlone ==
  ASSUME UNCHANGED handlerVars
  PROVE goalHandle' = goalHandle /\ IsCancelRequested' = IsCancelRequested
BY DEF handlerVars, execution, request, IsCancelRequested

\* The callbacks of rclpy leave the goal current and take back no cancel request.
LEMMA RclpyKeepsGoal ==
  ASSUME NEW g \in Goal, RclpyStep(g)
  PROVE goalHandle' = goalHandle /\ (IsCancelRequested => IsCancelRequested')
BY DEF RclpyStep, RequestGoal, CancelCurrentGoal, AskToCancel, StartExecuteCallback,
       StopPolling, PutGoal, GetAnswer, execution, request, IsCancelRequested

LEMMA Rclpy_Own ==
  ASSUME Own, Rclpy
  PROVE Own'
<1>1. PICK g \in Goal : RclpyStep(g)
  BY DEF Rclpy
<1>2. goalHandle' = goalHandle /\ (IsCancelRequested => IsCancelRequested')
  BY <1>1, RclpyKeepsGoal
<1>3. UNCHANGED <<phase, error, leaving, moving, watchedClient, ended, heartbeat, signals>>
  BY DEF Rclpy, goalVars, surroundings
<1>4. ServerTypeOK' /\ RobotIsWatched'
  BY <1>3, Zenon DEF Own, ServerTypeOK, RobotIsWatched
<1>5. GoalIsCurrent' /\ ErrorIsOfGoal'
  BY <1>2, <1>3 DEF Own, GoalIsCurrent, ErrorIsOfGoal
<1>6. WatchIsOfGoal'
  BY <1>2, <1>3 DEF Own, WatchIsOfGoal, WillServe
<1>7. QED
  BY <1>4, <1>5, <1>6 DEF Own

LEMMA HeartbeatArrives_Own ==
  ASSUME Own, NEW c \in Client, HeartbeatArrives(c)
  PROVE Own'
<1> USE ServerAssumption DEF Own, HeartbeatArrives, goalVars, surroundings
<1>0. goalHandle' = goalHandle /\ IsCancelRequested' = IsCancelRequested
  BY HandlerAlone, Outside
<1>1. ServerTypeOK'
  BY <1>0 DEF ServerTypeOK, Phases, Errors, GoalIsCurrent, Executing
<1>2. GoalIsCurrent'
  BY <1>0 DEF GoalIsCurrent, Executing, ServerTypeOK, Phases
<1>3. ErrorIsOfGoal'
  BY <1>0 DEF ErrorIsOfGoal, Executing, ServerTypeOK, Phases
<1>4. WatchIsOfGoal'
  BY <1>0 DEF WatchIsOfGoal, WillServe, Executing, ServerTypeOK, Phases, RobotIsWatched
<1>5. RobotIsWatched'
  BY <1>0 DEF RobotIsWatched, Executing, ServerTypeOK, Phases
<1>6. QED
  BY <1>1, <1>2, <1>3, <1>4, <1>5

LEMMA HeartbeatTimesOut_Own ==
  ASSUME Own, NEW c \in Client, HeartbeatTimesOut(c)
  PROVE Own'
<1> USE ServerAssumption DEF Own, HeartbeatTimesOut, goalVars, surroundings
<1>0. goalHandle' = goalHandle /\ IsCancelRequested' = IsCancelRequested
  BY HandlerAlone, Outside
<1>1. ServerTypeOK'
  BY <1>0 DEF ServerTypeOK, Phases, Errors, GoalIsCurrent, Executing
<1>2. GoalIsCurrent'
  BY <1>0 DEF GoalIsCurrent, Executing, ServerTypeOK, Phases
<1>3. ErrorIsOfGoal'
  BY <1>0 DEF ErrorIsOfGoal, Executing, ServerTypeOK, Phases
<1>4. WatchIsOfGoal'
  BY <1>0 DEF WatchIsOfGoal, WillServe, Executing, ServerTypeOK, Phases, RobotIsWatched
<1>5. RobotIsWatched'
  BY <1>0 DEF RobotIsWatched, Executing, ServerTypeOK, Phases
<1>6. QED
  BY <1>1, <1>2, <1>3, <1>4, <1>5

LEMMA ParseGoal_Own ==
  ASSUME Own, ParseGoal
  PROVE Own'
<1> USE ServerAssumption DEF Own, ParseGoal, goalVars, surroundings, StartWatching
<1>0. goalHandle' = goalHandle /\ IsCancelRequested' = IsCancelRequested
  BY HandlerAlone, Outside
<1>1. ServerTypeOK'
  BY <1>0 DEF ServerTypeOK, Phases, Errors, GoalIsCurrent, Executing
<1>2. GoalIsCurrent'
  BY <1>0 DEF GoalIsCurrent, Executing, ServerTypeOK, Phases
<1>3. ErrorIsOfGoal'
  BY <1>0 DEF ErrorIsOfGoal, Executing, ServerTypeOK, Phases
<1>4. WatchIsOfGoal'
  BY <1>0 DEF WatchIsOfGoal, WillServe, Executing, ServerTypeOK, Phases, RobotIsWatched
<1>5. RobotIsWatched'
  BY <1>0 DEF RobotIsWatched, Executing, ServerTypeOK, Phases
<1>6. QED
  BY <1>1, <1>2, <1>3, <1>4, <1>5

LEMMA GoalFails_Own ==
  ASSUME Own, GoalFails
  PROVE Own'
<1> USE ServerAssumption DEF Own, GoalFails, goalVars, surroundings, FailWith
<1>0. goalHandle' = goalHandle /\ IsCancelRequested' = IsCancelRequested
  BY HandlerAlone, Outside
<1>1. ServerTypeOK'
  BY <1>0 DEF ServerTypeOK, Phases, Errors, GoalIsCurrent, Executing
<1>2. GoalIsCurrent'
  BY <1>0 DEF GoalIsCurrent, Executing, ServerTypeOK, Phases
<1>3. ErrorIsOfGoal'
  BY <1>0 DEF ErrorIsOfGoal, Executing, ServerTypeOK, Phases
<1>4. WatchIsOfGoal'
  BY <1>0 DEF WatchIsOfGoal, WillServe, Executing, ServerTypeOK, Phases, RobotIsWatched
<1>5. RobotIsWatched'
  BY <1>0 DEF RobotIsWatched, Executing, ServerTypeOK, Phases
<1>6. QED
  BY <1>1, <1>2, <1>3, <1>4, <1>5

LEMMA WorldCaughtUp_Own ==
  ASSUME Own, WorldCaughtUp
  PROVE Own'
<1> USE ServerAssumption DEF Own, WorldCaughtUp, goalVars, surroundings
<1>0. goalHandle' = goalHandle /\ IsCancelRequested' = IsCancelRequested
  BY HandlerAlone, Outside
<1>1. ServerTypeOK'
  BY <1>0 DEF ServerTypeOK, Phases, Errors, GoalIsCurrent, Executing
<1>2. GoalIsCurrent'
  BY <1>0 DEF GoalIsCurrent, Executing, ServerTypeOK, Phases
<1>3. ErrorIsOfGoal'
  BY <1>0 DEF ErrorIsOfGoal, Executing, ServerTypeOK, Phases
<1>4. WatchIsOfGoal'
  BY <1>0 DEF WatchIsOfGoal, WillServe, Executing, ServerTypeOK, Phases, RobotIsWatched
<1>5. RobotIsWatched'
  BY <1>0 DEF RobotIsWatched, Executing, ServerTypeOK, Phases
<1>6. QED
  BY <1>1, <1>2, <1>3, <1>4, <1>5

LEMMA AwaitWorld_Own ==
  ASSUME Own, AwaitWorld
  PROVE Own'
<1> USE ServerAssumption DEF Own, AwaitWorld, goalVars, surroundings, FailWith, Recognized, StartWatching
<1>0. goalHandle' = goalHandle /\ IsCancelRequested' = IsCancelRequested
  BY HandlerAlone, Outside
<1>1. ServerTypeOK'
  BY <1>0 DEF ServerTypeOK, Phases, Errors, GoalIsCurrent, Executing
<1>2. GoalIsCurrent'
  BY <1>0 DEF GoalIsCurrent, Executing, ServerTypeOK, Phases
<1>3. ErrorIsOfGoal'
  BY <1>0 DEF ErrorIsOfGoal, Executing, ServerTypeOK, Phases
<1>4. WatchIsOfGoal'
  BY <1>0 DEF WatchIsOfGoal, WillServe, Executing, ServerTypeOK, Phases, RobotIsWatched
<1>5. RobotIsWatched'
  BY <1>0 DEF RobotIsWatched, Executing, ServerTypeOK, Phases
<1>6. QED
  BY <1>1, <1>2, <1>3, <1>4, <1>5

LEMMA CompileGoal_Own ==
  ASSUME Own, CompileGoal
  PROVE Own'
<1> USE ServerAssumption DEF Own, CompileGoal, goalVars, surroundings
<1>0. goalHandle' = goalHandle /\ IsCancelRequested' = IsCancelRequested
  BY HandlerAlone, Outside
<1>1. ServerTypeOK'
  BY <1>0 DEF ServerTypeOK, Phases, Errors, GoalIsCurrent, Executing
<1>2. GoalIsCurrent'
  BY <1>0 DEF GoalIsCurrent, Executing, ServerTypeOK, Phases
<1>3. ErrorIsOfGoal'
  BY <1>0 DEF ErrorIsOfGoal, Executing, ServerTypeOK, Phases
<1>4. WatchIsOfGoal'
  BY <1>0 DEF WatchIsOfGoal, WillServe, Executing, ServerTypeOK, Phases, RobotIsWatched
<1>5. RobotIsWatched'
  BY <1>0 DEF RobotIsWatched, Executing, ServerTypeOK, Phases
<1>6. QED
  BY <1>1, <1>2, <1>3, <1>4, <1>5

LEMMA RunCycle_Own ==
  ASSUME Own, RunCycle
  PROVE Own'
<1> USE ServerAssumption DEF Own, RunCycle, goalVars, surroundings, FailWith, Recognized, StartWatching
<1>0. goalHandle' = goalHandle /\ IsCancelRequested' = IsCancelRequested
  BY HandlerAlone, Outside
<1>1. ServerTypeOK'
  BY <1>0 DEF ServerTypeOK, Phases, Errors, GoalIsCurrent, Executing
<1>2. GoalIsCurrent'
  BY <1>0 DEF GoalIsCurrent, Executing, ServerTypeOK, Phases
<1>3. ErrorIsOfGoal'
  BY <1>0 DEF ErrorIsOfGoal, Executing, ServerTypeOK, Phases
<1>4. WatchIsOfGoal'
  BY <1>0 DEF WatchIsOfGoal, WillServe, Executing, ServerTypeOK, Phases, RobotIsWatched
<1>5. RobotIsWatched'
  BY <1>0 DEF RobotIsWatched, Executing, ServerTypeOK, Phases
<1>6. QED
  BY <1>1, <1>2, <1>3, <1>4, <1>5

LEMMA FinishGoal_Own ==
  ASSUME Own, FinishGoal
  PROVE Own'
<1> USE ServerAssumption DEF Own, FinishGoal, goalVars, surroundings
<1>0. goalHandle' = goalHandle /\ IsCancelRequested' = IsCancelRequested
  BY HandlerAlone, Outside
<1>1. ServerTypeOK'
  BY <1>0 DEF ServerTypeOK, Phases, Errors, GoalIsCurrent, Executing
<1>2. GoalIsCurrent'
  BY <1>0 DEF GoalIsCurrent, Executing, ServerTypeOK, Phases
<1>3. ErrorIsOfGoal'
  BY <1>0 DEF ErrorIsOfGoal, Executing, ServerTypeOK, Phases
<1>4. WatchIsOfGoal'
  BY <1>0 DEF WatchIsOfGoal, WillServe, Executing, ServerTypeOK, Phases, RobotIsWatched
<1>5. RobotIsWatched'
  BY <1>0 DEF RobotIsWatched, Executing, ServerTypeOK, Phases
<1>6. QED
  BY <1>1, <1>2, <1>3, <1>4, <1>5

LEMMA Halt_Own ==
  ASSUME Own, Halt
  PROVE Own'
<1> USE ServerAssumption DEF Own, Halt, goalVars, surroundings
<1>0. goalHandle' = goalHandle /\ IsCancelRequested' = IsCancelRequested
  BY HandlerAlone, Outside
<1>1. ServerTypeOK'
  BY <1>0 DEF ServerTypeOK, Phases, Errors, GoalIsCurrent, Executing
<1>2. GoalIsCurrent'
  BY <1>0 DEF GoalIsCurrent, Executing, ServerTypeOK, Phases
<1>3. ErrorIsOfGoal'
  BY <1>0 DEF ErrorIsOfGoal, Executing, ServerTypeOK, Phases
<1>4. WatchIsOfGoal'
  BY <1>0 DEF WatchIsOfGoal, WillServe, Executing, ServerTypeOK, Phases, RobotIsWatched
<1>5. RobotIsWatched'
  BY <1>0 DEF RobotIsWatched, Executing, ServerTypeOK, Phases
<1>6. QED
  BY <1>1, <1>2, <1>3, <1>4, <1>5

LEMMA IdleCycleRaises_Own ==
  ASSUME Own, IdleCycleRaises
  PROVE Own'
<1> USE ServerAssumption DEF Own, IdleCycleRaises, goalVars, surroundings
<1>0. goalHandle' = goalHandle /\ IsCancelRequested' = IsCancelRequested
  BY HandlerAlone, Outside
<1>1. ServerTypeOK'
  BY <1>0 DEF ServerTypeOK, Phases, Errors, GoalIsCurrent, Executing
<1>2. GoalIsCurrent'
  BY <1>0 DEF GoalIsCurrent, Executing, ServerTypeOK, Phases
<1>3. ErrorIsOfGoal'
  BY <1>0 DEF ErrorIsOfGoal, Executing, ServerTypeOK, Phases
<1>4. WatchIsOfGoal'
  BY <1>0 DEF WatchIsOfGoal, WillServe, Executing, ServerTypeOK, Phases, RobotIsWatched
<1>5. RobotIsWatched'
  BY <1>0 DEF RobotIsWatched, Executing, ServerTypeOK, Phases
<1>6. QED
  BY <1>1, <1>2, <1>3, <1>4, <1>5

LEMMA Interrupt_Own ==
  ASSUME Own, Interrupt
  PROVE Own'
<1> USE ServerAssumption DEF Own, Interrupt
<1>1. goalHandle' = goalHandle /\ IsCancelRequested' = IsCancelRequested
  BY HandlerAlone, Outside
<1>2. signals \in Nat /\ signals' \in 0..Signals /\ signals' >= 1 /\ signals' = signals + 1
  BY DEF ServerTypeOK
<1>3. /\ \/ phase \in Executing /\ phase' = "finishing" /\ moving' = moving
         \/ /\ phase = "finishing" /\ phase' = "answering" /\ moving' \in {moving, FALSE}
         \/ /\ phase \in {"idle", "answering", "sending"} /\ phase' = "halting"
            /\ moving' = moving
         \/ phase = "halting" /\ phase' = "down" /\ moving' = moving
      /\ watchedClient' \in {watchedClient, NoClient}
      /\ leaving' = "Interrupt"
  BY DEF InterruptGoal, InterruptFinishing, InterruptLoop, InterruptHalting, Executing
<1>4. ServerTypeOK'
  <2>1. moving' \in BOOLEAN
    BY <1>3, Zenon DEF ServerTypeOK
  <2>2. phase' \in Phases
    BY <1>3 DEF Phases
  <2>3. QED
    BY <1>2, <1>3, <2>1, <2>2, Zenon DEF ServerTypeOK
<1>5. GoalIsCurrent'
  BY <1>1, <1>3 DEF GoalIsCurrent, Executing
<1>6. ErrorIsOfGoal'
  BY <1>1, <1>3 DEF ErrorIsOfGoal, Executing
<1>7. WatchIsOfGoal'
  BY <1>1, <1>3 DEF WatchIsOfGoal, WillServe, Executing
<1>8. RobotIsWatched'
  <2>1. CASE phase = "halting"
    <3>1. phase' = "down" /\ signals' >= 2
      BY <1>2, <1>3, <2>1 DEF RobotIsWatched, Executing
    <3>2. QED
      BY <1>2, <1>3, <3>1 DEF RobotIsWatched, Executing
  <2>2. CASE phase # "halting"
    BY <1>2, <1>3, <2>2 DEF RobotIsWatched, Executing
  <2>3. QED
    BY <2>1, <2>2
<1>9. QED
  BY <1>4, <1>5, <1>6, <1>7, <1>8

LEMMA TakeGoal_Own ==
  ASSUME ServerSound, TakeGoal
  PROVE Own'
<1> USE DEF TakeGoal, surroundings
<1>1. Own
  BY DEF ServerSound, Own
<1>2. goalHandle' \in Goal
  <2>1. PICK g \in Goal : goalQueue = <<g>>
    BY DEF AcceptGoal, HasGoal, ServerSound, Sound, HandlerTypeOK
  <2>2. QED
    BY <2>1 DEF AcceptGoal
<1>3. ServerTypeOK'
  <2>1. UNCHANGED <<leaving, moving, heartbeat, watchedClient, ended, signals>>
    OBVIOUS
  <2>2. phase' \in Phases /\ error' \in Errors
    BY DEF Phases, Errors
  <2>3. QED
    BY <1>1, <2>1, <2>2, Zenon DEF Own, ServerTypeOK
<1>4. GoalIsCurrent' /\ ErrorIsOfGoal'
  BY <1>2 DEF GoalIsCurrent, ErrorIsOfGoal, Executing
<1>5. WatchIsOfGoal'
  <2>1. watchedClient = NoClient /\ watchedClient' = NoClient
    BY <1>1 DEF Own, WatchIsOfGoal, WillServe
  <2>2. QED
    BY <2>1 DEF WatchIsOfGoal
<1>6. RobotIsWatched'
  BY <1>1 DEF Own, RobotIsWatched, Executing
<1>7. QED
  BY <1>3, <1>4, <1>5, <1>6 DEF Own

LEMMA CreateResult_Own ==
  ASSUME Own, CreateResult
  PROVE Own'
<1> USE DEF CreateResult, goalVars, surroundings
<1>1. ServerTypeOK'
  <2>1. phase' \in Phases
    BY DEF Phases
  <2>2. UNCHANGED <<error, leaving, moving, heartbeat, watchedClient, ended, signals>>
    OBVIOUS
  <2>3. QED
    BY <2>1, <2>2, Zenon DEF Own, ServerTypeOK
<1>2. GoalIsCurrent' /\ ErrorIsOfGoal'
  BY DEF GoalIsCurrent, ErrorIsOfGoal, Executing
<1>3. WatchIsOfGoal' /\ RobotIsWatched'
  BY DEF Own, WatchIsOfGoal, RobotIsWatched, WillServe, Executing
<1>4. QED
  BY <1>1, <1>2, <1>3 DEF Own

LEMMA Answer_Own ==
  ASSUME Own, Answer
  PROVE Own'
<1> USE DEF goalVars, surroundings
<1>1. /\ phase = "sending" /\ phase' \in {"sending", "idle", "down", "halting"}
      /\ phase' = "idle" => leaving = "None"
      /\ phase' = "down" => leaving = "Exception"
      /\ phase' = "halting" => leaving = "Interrupt"
      /\ UNCHANGED <<error, leaving, moving, heartbeat, watchedClient, ended, signals>>
  BY DEF Answer, Own, ServerTypeOK
<1>2. ServerTypeOK'
  <2>1. phase' \in Phases
    BY <1>1 DEF Phases
  <2>2. QED
    BY <1>1, <2>1, Zenon DEF Own, ServerTypeOK
<1>3. GoalIsCurrent' /\ ErrorIsOfGoal'
  BY <1>1 DEF GoalIsCurrent, ErrorIsOfGoal, Executing
<1>4. WatchIsOfGoal'
  BY <1>1 DEF Own, WatchIsOfGoal, WillServe, Executing
<1>5. RobotIsWatched'
  BY <1>1 DEF Own, RobotIsWatched, Executing
<1>6. QED
  BY <1>2, <1>3, <1>4, <1>5 DEF Own

LEMMA Next_ServerSound ==
  ASSUME ServerSound, [Next]_vars
  PROVE ServerSound'
<1>1. Sound'
  BY Next_Handler, Next_Sound DEF ServerSound
<1>2. Own
  BY DEF ServerSound, Own
<1>3. CASE UNCHANGED vars
  <2>1. Own'
    <3>1. UNCHANGED <<goalHandle, cancelRequested, cancelAsked, phase, error, leaving,
                      moving, watchedClient, ended, heartbeat, signals>>
      BY <1>3 DEF vars, goalVars, surroundings, handlerVars, execution, request
    <3>2. ServerTypeOK' /\ RobotIsWatched'
      BY <1>2, <3>1, Zenon DEF Own, ServerTypeOK, RobotIsWatched
    <3>3. QED
      BY <1>2, <3>1, <3>2
         DEF Own, GoalIsCurrent, ErrorIsOfGoal, WatchIsOfGoal, WillServe, IsCancelRequested
  <2>2. QED
    BY <1>1, <2>1 DEF ServerSound, Own
<1>4. CASE \E c \in Client : HeartbeatArrives(c) \/ HeartbeatTimesOut(c)
  BY <1>1, <1>2, <1>4, HeartbeatArrives_Own, HeartbeatTimesOut_Own DEF ServerSound, Own
<1>5. CASE Serve
  <2>1. Own'
    BY <1>2, <1>5, TakeGoal_Own, ParseGoal_Own, GoalFails_Own, WorldCaughtUp_Own,
       AwaitWorld_Own, CompileGoal_Own, RunCycle_Own, FinishGoal_Own, CreateResult_Own,
       Answer_Own, Halt_Own DEF Serve
  <2>2. QED
    BY <1>1, <2>1 DEF ServerSound, Own
<1>6. CASE Rclpy \/ IdleCycleRaises \/ Interrupt
  <2>1. Own'
    BY <1>2, <1>6, Rclpy_Own, IdleCycleRaises_Own, Interrupt_Own
  <2>2. QED
    BY <1>1, <2>1 DEF ServerSound, Own
<1>7. QED
  BY <1>3, <1>4, <1>5, <1>6 DEF Next
-----------------------------------------------------------------------------
THEOREM ServerIsSound == Spec => []ServerSound
BY Init_ServerSound, Next_ServerSound, PTL DEF Spec

\* The thread's phase, the outcome of its goal, what it knows of the clients and
\* the handler it shares with rclpy keep their types.
THEOREM ServerTypeCorrect == Spec => []TypeOK
<1>1. ServerSound => TypeOK
  BY Zenon DEF ServerSound, Sound, ServerTypeOK, TypeOK
<1>2. QED
  BY <1>1, ServerIsSound, PTL

\* The server calls the handler only as the handover was checked for, ...
THEOREM ServerUsesHandler == Spec => UsesHandler
<1>1. Init => HandlerInit
  BY DEF Init
<1>2. ServerSound /\ [Next]_vars => [HandlerNext]_handlerVars
  BY Next_Handler
<1>3. QED
  BY <1>1, <1>2, ServerIsSound, PTL DEF Spec, UsesHandler

\* ... so next to a motion server, too, Giskard executes one goal at a time and
\* answers every goal it executed once.
THEOREM ServerImplementsGoalService == Spec => ImplementsGoalService
<1>1. UsesHandler => Service!Init /\ [][Service!Next]_(Service!vars)
  BY Init_Service, Next_Service, HandlerSound, PTL DEF HandlerSafety, UsesHandler
<1>2. QED
  BY <1>1, ServerUsesHandler, PTL DEF ImplementsGoalService, Service!Spec

\* However many clients and goals there are and wherever signals arrive, the robot
\* moves only while a goal is current, unless a signal interrupts the server, ...
THEOREM RobotRests == Spec => []RobotMovesOnlyForAGoal
<1>1. ServerSound => RobotMovesOnlyForAGoal
  BY HandlerAssumption
     DEF ServerSound, RobotMovesOnlyForAGoal, RobotIsWatched, GoalIsCurrent, Executing
<1>2. QED
  BY <1>1, ServerIsSound, PTL

\* ... and one signal leaves it at rest.
THEOREM OneSignalStopsRobot == Spec => []StoppedByOneSignal
<1>1. ServerSound => StoppedByOneSignal
  BY DEF ServerSound, ServerTypeOK, StoppedByOneSignal, RobotIsWatched
<1>2. QED
  BY <1>1, ServerIsSound, PTL

\* No goal is stopped for the silence of another client than its own, nor for one
\* that never announced itself.
THEOREM OnlySilentClientsDisconnect == Spec => DisconnectOnlyIfSilent
<1> DEFINE A == error' = "ClientDisconnected" /\ error # error'
                  => heartbeat[ClientOf[goalHandle]] = "stale"
<1>1. ASSUME ServerSound, [Next]_vars
      PROVE [A]_vars
  <2> SUFFICES ASSUME error' = "ClientDisconnected", error # error'
               PROVE heartbeat[ClientOf[goalHandle]] = "stale"
    OBVIOUS
  <2>1. AwaitWorld \/ RunCycle
    BY <1>1 DEF Next, Rclpy, Serve, HeartbeatArrives, HeartbeatTimesOut, TakeGoal, ParseGoal,
           GoalFails, WorldCaughtUp, CompileGoal, FinishGoal, CreateResult, Answer, Halt,
           IdleCycleRaises, Interrupt, FailWith, goalVars, surroundings, vars
  <2>2. phase \in Executing /\ IsClientGone
    BY <2>1 DEF AwaitWorld, RunCycle, FailWith, Executing
  <2>3. goalHandle \in Goal /\ ClientOf[goalHandle] \in Client
    BY <1>1, <2>2, ServerAssumption DEF ServerSound, GoalIsCurrent
  <2>4. watchedClient # NoClient
    BY <2>2, <2>3 DEF IsClientGone, Recognized, StartWatching
  <2>5. watchedClient = ClientOf[goalHandle] /\ heartbeat[watchedClient] # "never"
    BY <1>1, <2>2, <2>4 DEF ServerSound, WatchIsOfGoal
  <2>6. heartbeat[watchedClient] # "recent"
    BY <2>2, <2>4 DEF IsClientGone, Recognized
  <2>7. heartbeat[watchedClient] \in {"never", "recent", "stale"}
    BY <1>1, <2>3, <2>5 DEF ServerSound, ServerTypeOK
  <2>8. QED
    BY <2>5, <2>6, <2>7
<1>2. QED
  BY <1>1, ServerIsSound, PTL DEF Spec, DisconnectOnlyIfSilent
-----------------------------------------------------------------------------
\* Clients are told how their motion ended.

Tells(a) == a.outcome = "SUCCEEDED" <=> a.goal \in ended

AnswersTell ==
  /\ \A g \in Goal : answer[g] # NoAnswer => Tells(answer[g])
  /\ sending # NoAnswer => Tells(sending)
  /\ \A a \in GoalAnswer : resultQueue = <<a>> => Tells(a)

\* A motion ends only while its goal is current: not before it is taken, ...
EndedWasCurrent ==
  /\ ended \subseteq HandedOver
  /\ \A g \in Goal : goalQueue = <<g>> => g \notin ended
  /\ phase \in Executing => goalHandle \notin ended

\* ... and then its error and its outcome say so.
GoalTells ==
  /\ phase \in Executing \union {"finishing", "answering"} => outcome = NoOutcome
  /\ phase \in {"finishing", "answering"} => (error = "None" <=> goalHandle \in ended)
  /\ outcome # NoOutcome /\ sending = NoAnswer
       => (outcome = "SUCCEEDED" <=> goalHandle \in ended)

Telling == AnswersTell /\ EndedWasCurrent /\ GoalTells
TellingUnlessInterrupted == signals = 0 => Telling

\* Steps that leave the handler alone and end no motion.
LEMMA QuietSteps_Telling ==
  ASSUME ServerSound, Telling,
         UNCHANGED <<handlerVars, ended>>,
         \/ phase' \in Executing \union {"finishing"} /\ phase \in Executing
         \/ phase' = "answering" /\ phase = "finishing"
         \/ phase' \in {phase, "down", "halting"},
         error' = error \/ (phase \in Executing /\ phase' = "finishing"),
         phase \in Executing /\ phase' = "finishing" => error' # "None"
  PROVE  Telling'
<1>1. /\ UNCHANGED <<goalHandle, outcome, sending, goalQueue, resultQueue, answer, stage, ended>>
      /\ HandedOver' = HandedOver
  BY DEF handlerVars, execution, HandedOver
<1>2. AnswersTell'
  BY <1>1 DEF Telling, AnswersTell, Tells
<1>3. EndedWasCurrent'
  BY <1>1 DEF Telling, EndedWasCurrent, Executing
<1>4. GoalTells'
  BY <1>1 DEF Telling, GoalTells, EndedWasCurrent, Executing, ServerSound, ErrorIsOfGoal
<1> QED BY <1>2, <1>3, <1>4 DEF Telling

\* The cycle in which a motion ends: no answer to its goal exists yet.
LEMMA MotionEnds_Telling ==
  ASSUME ServerSound, Telling, phase = "controlling", UNCHANGED <<handlerVars, error>>,
         phase' = "finishing", ended' = ended \union {goalHandle}
  PROVE  Telling'
<1>1. /\ UNCHANGED <<goalHandle, outcome, sending, goalQueue, resultQueue, answer, stage>>
      /\ HandedOver' = HandedOver
  BY DEF handlerVars, execution, HandedOver
<1>2. goalHandle \in Goal /\ error = "None"
  BY DEF ServerSound, GoalIsCurrent, ErrorIsOfGoal, Executing
<1>3. goalHandle \in Awaited /\ goalHandle \in HandedOver /\ goalHandle \notin Answered
  BY <1>2 DEF Awaited, ServerSound, Sound, EveryWaiterIsOwedOneAnswer
<1>4. sending = NoAnswer
  BY <1>2, HandlerAssumption DEF ServerSound, Sound, Handing
<1>5. ASSUME NEW g \in Goal, answer[g] # NoAnswer PROVE answer[g].goal # goalHandle
  BY <1>3, <1>5 DEF Answered, ServerSound, Sound, Handing
<1>6. ASSUME NEW a \in GoalAnswer, resultQueue = <<a>> PROVE a.goal # goalHandle
  <2> SUFFICES ASSUME a.goal = goalHandle PROVE FALSE
    OBVIOUS
  <2>1. a = [goal |-> a.goal, outcome |-> a.outcome] /\ a.outcome \in Outcomes
    BY DEF GoalAnswer
  <2>2. goalHandle \in ReleasedGoals /\ goalHandle \in CurrentGoals
    BY <1>2, <1>6, <2>1 DEF ReleasedGoals, CurrentGoals
  <2> QED BY <2>2 DEF ServerSound, Sound, OnePlace
<1>7. AnswersTell'
  BY <1>1, <1>4, <1>5, <1>6 DEF Telling, AnswersTell, Tells
<1>8. EndedWasCurrent'
  <2>1. \A g \in Goal : goalQueue = <<g>> => g # goalHandle
    BY <1>2 DEF ServerSound, Sound, OnePlace, QueuedGoals, CurrentGoals
  <2> QED BY <1>1, <1>3, <2>1 DEF Telling, EndedWasCurrent, Executing
<1>9. GoalTells'
  BY <1>1, <1>2 DEF Telling, GoalTells, Executing
<1> QED BY <1>7, <1>8, <1>9 DEF Telling

LEMMA Rclpy_Telling ==
  ASSUME ServerSound, Telling, Rclpy
  PROVE  Telling'
<1>1. UNCHANGED <<phase, error, ended, goalHandle, outcome, sending>>
  BY DEF Rclpy, goalVars, RclpyStep, RequestGoal, CancelCurrentGoal, AskToCancel,
         StartExecuteCallback, StopPolling, PutGoal, GetAnswer, execution
<1>2. PICK g \in Goal : RclpyStep(g)
  BY DEF Rclpy
<1>3. stage \in [Goal -> {"unsent", "accepted", "answered"} \union Blocked]
  BY DEF ServerSound, Sound, HandlerTypeOK
<1>4. /\ HandedOver \subseteq HandedOver'
      /\ goalQueue' = goalQueue \/ (goalQueue' = <<g>> /\ stage[g] = "putting")
      /\ \/ answer' = answer /\ resultQueue' = resultQueue
         \/ /\ resultQueue # <<>> /\ resultQueue' = Tail(resultQueue)
            /\ answer' = [answer EXCEPT ![g] = Head(resultQueue)]
  BY <1>2, <1>3
     DEF RclpyStep, RequestGoal, CancelCurrentGoal, AskToCancel, StartExecuteCallback,
         StopPolling, PutGoal, GetAnswer, HandedOver, Goes, Blocked
<1>5. EndedWasCurrent'
  <2>1. goalQueue' = <<g>> /\ stage[g] = "putting" => g \notin ended
    BY DEF Telling, EndedWasCurrent, HandedOver
  <2> QED BY <1>1, <1>4, <2>1 DEF Telling, EndedWasCurrent
<1>6. GoalTells'
  BY <1>1 DEF Telling, GoalTells
<1>7. AnswersTell'
  <2>1. CASE answer' = answer /\ resultQueue' = resultQueue
    BY <1>1, <2>1 DEF Telling, AnswersTell, Tells
  <2>2. CASE /\ resultQueue # <<>> /\ resultQueue' = Tail(resultQueue)
             /\ answer' = [answer EXCEPT ![g] = Head(resultQueue)]
    <3>1. PICK a \in GoalAnswer : resultQueue = <<a>>
      BY <2>2 DEF ServerSound, Sound, HandlerTypeOK
    <3>2. Head(resultQueue) = a /\ resultQueue' = <<>> /\ Tells(a)
      BY <2>2, <3>1 DEF Telling, AnswersTell
    <3>3. answer \in [Goal -> GoalAnswer \union {NoAnswer}]
      BY DEF ServerSound, Sound, HandlerTypeOK
    <3>4. answer' = [answer EXCEPT ![g] = a]
      BY <2>2, <3>2
    <3> QED BY <1>1, <3>2, <3>3, <3>4 DEF Telling, AnswersTell, Tells
  <2> QED BY <1>4, <2>1, <2>2
<1> QED BY <1>5, <1>6, <1>7 DEF Telling

LEMMA TakeGoal_Telling ==
  ASSUME ServerSound, Telling, TakeGoal
  PROVE  Telling'
<1>1. /\ goalHandle = NoGoal /\ sending = NoAnswer /\ phase' = "parsing" /\ error' = "None"
      /\ goalHandle' = Head(goalQueue) /\ goalQueue' = Tail(goalQueue) /\ goalQueue # <<>>
      /\ UNCHANGED <<stage, outcome, sending, resultQueue, answer, ended>>
  BY DEF TakeGoal, AcceptGoal, HasGoal
<1>2. PICK g \in Goal : goalQueue = <<g>>
  BY <1>1 DEF ServerSound, Sound, HandlerTypeOK
<1>3. goalHandle' = g /\ goalQueue' = <<>>
  BY <1>1, <1>2
<1>4. outcome = NoOutcome
  BY <1>1 DEF ServerSound, Sound, Handing
<1> QED BY <1>1, <1>2, <1>3, <1>4
        DEF Telling, AnswersTell, Tells, EndedWasCurrent, GoalTells, Executing, HandedOver

LEMMA CreateResult_Telling ==
  ASSUME ServerSound, Telling, CreateResult
  PROVE  Telling'
<1>1. /\ phase = "answering" /\ phase' = "sending" /\ outcome' = OutcomeOf(error)
      /\ UNCHANGED <<stage, goalHandle, sending, goalQueue, resultQueue, answer, error, ended>>
  BY DEF CreateResult, SetOutcome, goalVars
<1>2. OutcomeOf(error) = "SUCCEEDED" <=> error = "None"
  BY DEF OutcomeOf
<1> QED BY <1>1, <1>2
        DEF Telling, AnswersTell, Tells, EndedWasCurrent, GoalTells, Executing, HandedOver

LEMMA Answer_Telling ==
  ASSUME ServerSound, Telling, Answer
  PROVE  Telling'
<1>1. /\ phase = "sending" /\ phase' \notin Executing \union {"finishing", "answering"}
      /\ UNCHANGED <<stage, goalQueue, answer, ended>>
      /\ HandedOver' = HandedOver
  <2>1. phase' \in {"idle", "sending", "down", "halting"}
    BY DEF Answer, ServerSound, ServerTypeOK
  <2>2. /\ phase = "sending"
        /\ UNCHANGED <<stage, goalQueue, answer, ended>>
    BY DEF Answer, SendResult, ForgetGoal, ResetHandler, ReleaseAnswer, goalVars
  <2> QED BY <2>1, <2>2 DEF Executing, HandedOver
<1>2. EndedWasCurrent'
  BY <1>1 DEF Telling, EndedWasCurrent
<1>3. CASE ForgetGoal
  <2>1. /\ outcome # NoOutcome /\ sending = NoAnswer
        /\ sending' = [goal |-> goalHandle, outcome |-> outcome]
        /\ UNCHANGED <<outcome, resultQueue>>
    BY <1>3 DEF ForgetGoal
  <2>2. Tells(sending)' /\ sending' # NoAnswer
    BY <1>1, <2>1 DEF Telling, GoalTells, Tells, NoAnswer
  <2> QED BY <1>1, <1>2, <2>1, <2>2 DEF Telling, AnswersTell, Tells, GoalTells
<1>4. CASE ResetHandler
  BY <1>1, <1>2, <1>4 DEF ResetHandler, Telling, AnswersTell, Tells, GoalTells
<1>5. CASE ReleaseAnswer
  <2>1. /\ sending # NoAnswer /\ outcome = NoOutcome
        /\ resultQueue' = <<sending>> /\ sending' = NoAnswer /\ outcome' = outcome
    BY <1>5 DEF ReleaseAnswer
  <2> QED BY <1>1, <1>2, <2>1 DEF Telling, AnswersTell, Tells, GoalTells
<1> QED BY <1>3, <1>4, <1>5 DEF Answer, SendResult

\* Unless a signal interrupts the server, a client is told that its motion succeeded
\* just if it reached its end, whatever became of the goals before.
THEOREM OutcomesAreTold == Spec => []OutcomeTellsTheEnd
<1>1. Init => TellingUnlessInterrupted
  <2> SUFFICES ASSUME Init PROVE Telling
    BY DEF TellingUnlessInterrupted
  <2>1. /\ \A g \in Goal : answer[g] = NoAnswer
        /\ sending = NoAnswer /\ resultQueue = <<>> /\ goalQueue = <<>>
        /\ ended = {} /\ outcome = NoOutcome /\ phase = "idle"
    BY DEF Init, HandlerInit
  <2>2. AnswersTell
    BY <2>1 DEF AnswersTell
  <2>3. EndedWasCurrent /\ GoalTells
    BY <2>1 DEF EndedWasCurrent, GoalTells, Executing
  <2> QED BY <2>2, <2>3 DEF Telling
<1>2. ServerSound /\ TellingUnlessInterrupted /\ [Next]_vars => TellingUnlessInterrupted'
  <2> SUFFICES ASSUME ServerSound, TellingUnlessInterrupted, [Next]_vars, signals' = 0
               PROVE  Telling'
    BY DEF TellingUnlessInterrupted
  <2>1. CASE Interrupt
    BY <2>1 DEF Interrupt, ServerSound, ServerTypeOK
  <2>2. CASE /\ ~ Interrupt /\ signals = 0
    <3>0. Telling
      BY <2>2 DEF TellingUnlessInterrupted
    <3>1. CASE Rclpy
      BY <3>0, <3>1, Rclpy_Telling
    <3>2. CASE TakeGoal
      BY <3>0, <3>2, TakeGoal_Telling
    <3>3. CASE CreateResult
      BY <3>0, <3>3, CreateResult_Telling
    <3>4. CASE Answer
      BY <3>0, <3>4, Answer_Telling
    <3>5. CASE RunCycle
      <4>1. CASE ended' = ended
        <5>1. /\ UNCHANGED <<handlerVars, ended>> /\ phase \in Executing
              /\ \/ phase' = phase /\ error' = error
                 \/ phase' = "finishing" /\ error' # "None"
                 \/ phase' = "finishing" /\ error' = error /\ ended' = ended \union {goalHandle}
          BY <3>5, <4>1 DEF RunCycle, FailWith, Executing
        <5>2. goalHandle \notin ended
          BY <3>0, <5>1 DEF Telling, EndedWasCurrent
        <5> QED BY <3>0, <4>1, <5>1, <5>2, QuietSteps_Telling DEF Executing
      <4>2. CASE ended' # ended
        <5>1. /\ phase = "controlling" /\ UNCHANGED <<handlerVars, error>>
              /\ phase' = "finishing" /\ ended' = ended \union {goalHandle}
          BY <3>5, <4>2 DEF RunCycle
        <5> QED BY <3>0, <5>1, MotionEnds_Telling
      <4> QED BY <4>1, <4>2
    <3>6. CASE \/ \E c \in Client : HeartbeatArrives(c) \/ HeartbeatTimesOut(c)
               \/ ParseGoal \/ WorldCaughtUp \/ CompileGoal \/ GoalFails \/ AwaitWorld
               \/ FinishGoal \/ Halt \/ IdleCycleRaises \/ UNCHANGED vars
      <4>1. /\ UNCHANGED <<handlerVars, ended>>
            /\ \/ phase' \in Executing \union {"finishing"} /\ phase \in Executing
               \/ phase' = "answering" /\ phase = "finishing"
               \/ phase' \in {phase, "down", "halting"}
            /\ error' = error \/ (phase \in Executing /\ phase' = "finishing")
            /\ phase \in Executing /\ phase' = "finishing" => error' # "None"
        BY <3>6 DEF HeartbeatArrives, HeartbeatTimesOut, ParseGoal, WorldCaughtUp, CompileGoal,
             GoalFails, AwaitWorld, FailWith, FinishGoal, Halt, IdleCycleRaises, vars,
             goalVars, Executing
      <4> QED BY <3>0, <4>1, QuietSteps_Telling
    <3> QED BY <2>2, <3>1, <3>2, <3>3, <3>4, <3>5, <3>6 DEF Next, Serve
  <2>3. CASE ~ Interrupt /\ signals # 0
    <3>1. signals' = signals
      BY <2>3 DEF Next, vars, surroundings, Rclpy, Serve, HeartbeatArrives, HeartbeatTimesOut,
           TakeGoal, ParseGoal, GoalFails, WorldCaughtUp, AwaitWorld, CompileGoal, RunCycle,
           FinishGoal, CreateResult, Answer, Halt, IdleCycleRaises
    <3> QED BY <2>3, <3>1
  <2> QED BY <2>1, <2>2, <2>3
<1>3. ServerSound /\ TellingUnlessInterrupted => OutcomeTellsTheEnd
  <2> SUFFICES ASSUME TellingUnlessInterrupted, NEW g \in Goal, answer[g] # NoAnswer,
                      signals = 0
               PROVE  (answer[g].outcome = "SUCCEEDED") <=> (answer[g].goal \in ended)
    BY DEF OutcomeTellsTheEnd
  <2> QED BY DEF TellingUnlessInterrupted, Telling, AnswersTell, Tells
<1> QED BY <1>1, <1>2, <1>3, ServerIsSound, PTL DEF Spec

\* Both together: whenever nobody is served the robot is at rest.
THEOREM UnservedRobotRests == Spec => []RobotRestsWhenUnserved
BY RobotRests, OneSignalStopsRobot, PTL DEF RobotRestsWhenUnserved
=============================================================================
