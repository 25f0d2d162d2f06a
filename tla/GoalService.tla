---------------------------- MODULE GoalService -----------------------------
(***************************************************************************)
(* What Giskard promises the clients of its action, whatever the threads   *)
(* of the handover do: goals are executed one at a time, every goal that   *)
(* was executed yields one answer, and every client that waits takes at    *)
(* most one.  Which client takes which answer is left open, as the code    *)
(* leaves it open: two that wait at once share one queue of results.       *)
(***************************************************************************)
CONSTANTS Goal, NoGoal

VARIABLES
  progress,  \* how far the execution of each goal is
  takenBy    \* the goal whose answer the client of each goal took, or NoGoal

Init ==
  /\ progress = [g \in Goal |-> "new"]
  /\ takenBy = [g \in Goal |-> NoGoal]

Queue(g) ==
  /\ progress[g] = "new"
  /\ \A h \in Goal : progress[h] # "queued"
  /\ progress' = [progress EXCEPT ![g] = "queued"]
  /\ UNCHANGED takenBy

Execute(g) ==
  /\ progress[g] = "queued"
  /\ \A h \in Goal : progress[h] # "executing"
  /\ progress' = [progress EXCEPT ![g] = "executing"]
  /\ UNCHANGED takenBy

End(g) ==
  /\ progress[g] = "executing"
  /\ progress' = [progress EXCEPT ![g] = "ended"]
  /\ UNCHANGED takenBy

\* The client of `g', which waits, takes the answer to `ended'.
Take(g, ended) ==
  /\ progress[g] # "new" /\ takenBy[g] = NoGoal
  /\ progress[ended] = "ended" /\ \A h \in Goal : takenBy[h] # ended
  /\ takenBy' = [takenBy EXCEPT ![g] = ended]
  /\ UNCHANGED progress

Next ==
  \/ \E g \in Goal : Queue(g) \/ Execute(g) \/ End(g)
  \/ \E g, ended \in Goal : Take(g, ended)

vars == <<progress, takenBy>>
Spec == Init /\ [][Next]_vars
=============================================================================
