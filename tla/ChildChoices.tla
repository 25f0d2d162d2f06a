---------------------------- MODULE ChildChoices ----------------------------
(***************************************************************************)
(* The children of a running goal, chosen by its client                    *)
(* (giskardpy/middleware/ros2/child_choices.py and feedback_publisher.py,  *)
(* CompositeNodeChoosingItsChild of cramph/composites.py).  Giskard        *)
(* reports the nodes waiting for a child in its feedback; the client       *)
(* chooses on its copy of the statechart and sends the node it added;      *)
(* Giskard adds it to the running statechart.                              *)
(*                                                                         *)
(* One goal and its client are modelled; the client of a goal superseded   *)
(* before may still send what it was choosing.  Of the statechart there    *)
(* are the nodes choosing their child and the children in the order they   *)
(* joined; a child is the request it was chosen for.  What else a tick     *)
(* does to the life cycles is any move the life cycle allows.              *)
(***************************************************************************)
EXTENDS Integers, Sequences, FiniteSets, Functions

CONSTANTS
  Node,           \* the nodes choosing their child, by index
  Resettable,     \* the nodes that may be reset
  Pausable,       \* the nodes that may be paused
  LateNode,       \* bound: the nodes a choice for a superseded goal is for
  MaxChildren,    \* bound: how many children the chooser has for the goal
  MaxResets,      \* bound: how many ticks of the goal reset nodes
  FeedbackDepth   \* how many reports are kept for the client

ASSUME NodeAssumption ==
  /\ Node \subseteq Nat
  /\ IsFiniteSet(Node)
  /\ Resettable \subseteq Node
  /\ Pausable \subseteq Node
  /\ LateNode \subseteq Node
ASSUME FeedbackDepthAssumption == FeedbackDepth \in Nat \ {0}
ASSUME BoundsAssumption == MaxChildren \in Nat /\ MaxResets \in Nat

Goal == {"this", "superseded"}
ChildRequest == [node : Node, child_count : Nat]
Child == [goal : Goal, node : Node, child_count : Nat]
\* A choice: first_node_index counts children instead of nodes, and a choice
\* without a child says that none is left.
ChildChoiceMessage ==
  [goal_id : Goal, node_index : Node, child_count : Nat,
   first_node_index : Nat \ {0}, has_child : BOOLEAN]
Feedback == [node_count : Nat, waiting_for_child : SUBSET ChildRequest]
NoMessage == [goal_id |-> "none"]

ActiveStates == {"RUNNING", "PAUSED"}
\* The three ways to end are one.
LifeCycleValues == {"NOT_STARTED"} \union ActiveStates \union {"TERMINATED"}

VARIABLES
  goal,          \* "running" or "out_of_step"
  phase,         \* where the control cycle of the goal is
  life,          \* life_cycle_state of every choosing node
  children,      \* the children in the running statechart, as they joined
  latest,        \* whether a child was chosen since the latest reset
  childEnded,    \* whether that child ended without succeeding
  outOfChildren, \* _out_of_children
  resetting,     \* the nodes whose on_reset this tick still runs
  resets,        \* how many ticks of the goal reset nodes
  asking,        \* the waiting nodes still to ask the chooser in this tick
  taking,        \* the node has_choice_for just said yes to, or none
  received,      \* ChildSentByClient._received
  feedback,      \* the reports the client has not read yet
  copy,          \* the children in the copy of the client
  copyOut,       \* the nodes that are out of children in the copy
  answered,      \* ChildChoiceClient._answered
  following,     \* whether the client's receiving thread has not raised
  sent           \* the choices on their way to Giskard

chart == <<life, children, latest, childEnded, outOfChildren>>
tick == <<phase, resetting, resets, asking, taking>>
client == <<copy, copyOut, answered, following>>
vars == <<goal, chart, tick, received, feedback, client, sent>>
-----------------------------------------------------------------------------
ChildrenOf(n, joined) == {i \in DOMAIN joined : joined[i].node = n}
ChildCount(n) == Cardinality(ChildrenOf(n, children))

\* is_waiting_for_a_child.
IsWaiting(n) ==
  /\ goal = "running"
  /\ life[n] = "RUNNING"
  /\ ~ outOfChildren[n]
  /\ latest[n] => childEnded[n]

Request(n) == [node |-> n, child_count |-> ChildCount(n)]

\* _is_made_after_a_choice_still_to_take.
IsMadeAfterAChoiceStillToTake(message) ==
  \E n \in Node :
    LET earlier == received[n]
    IN  /\ earlier # NoMessage
        /\ earlier.goal_id = message.goal_id
        /\ earlier.first_node_index < message.first_node_index
        /\ life[n] \in ActiveStates

Init ==
  /\ goal = "running"
  /\ phase = "cycle"
  /\ life = [n \in Node |-> "NOT_STARTED"]
  /\ children = <<>>
  /\ latest = [n \in Node |-> FALSE]
  /\ childEnded = [n \in Node |-> FALSE]
  /\ outOfChildren = [n \in Node |-> FALSE]
  /\ resetting = {}
  /\ resets = 0
  /\ asking = {}
  /\ taking = {}
  /\ received = [n \in Node |-> NoMessage]
  /\ feedback = <<>>
  /\ copy = <<>>
  /\ copyOut = {}
  /\ answered = {}
  /\ following = TRUE
  /\ sent = <<>>
-----------------------------------------------------------------------------
\* The control cycles of the goal.

\* The goal is aborted: cleanup drops the choices received, and what its client
\* still does is for a superseded goal.
AbortGoal ==
  /\ goal' = "out_of_step"
  /\ received' = [n \in Node |-> NoMessage]
  /\ phase' = "cycle"
  /\ asking' = {}
  /\ taking' = {}
  /\ resetting' = {}
  /\ feedback' = <<>>
  /\ sent' = <<>>

\* Where one tick takes a node, if it is reset at the start of it or not.  A
\* running node that is out of children fails.
Moves(n, isReset) ==
  (IF isReset \/ life[n] = "NOT_STARTED" THEN LifeCycleValues
   ELSE IF life[n] = "TERMINATED" \/ outOfChildren[n] THEN {"TERMINATED"}
   ELSE ActiveStates \union {"TERMINATED"})
  \ (IF n \in Pausable THEN {} ELSE {"PAUSED"})

\* settle: any node may move, a child may end without succeeding, and any node
\* that started may be reset, and start again in the same tick.
Settle ==
  /\ goal = "running"
  /\ phase = "cycle"
  /\ \E reset \in SUBSET {n \in Resettable : life[n] # "NOT_STARTED"} :
       /\ reset # {} => resets < MaxResets
       /\ resets' = IF reset = {} THEN resets ELSE resets + 1
       /\ resetting' = reset
       /\ life' \in [Node -> LifeCycleValues]
       /\ \A n \in Node : life'[n] \in Moves(n, n \in reset)
       /\ childEnded' \in [Node -> BOOLEAN]
       /\ \A n \in Node :
            childEnded'[n] =>
              /\ n \notin reset
              /\ latest[n]
              /\ childEnded[n] \/ life[n] \in ActiveStates
       /\ \A n \in Node \ reset : childEnded[n] => childEnded'[n]
  /\ phase' = "choosing"
  /\ asking' = {n \in Node : /\ life'[n] = "RUNNING"
                             /\ ~ outOfChildren[n]
                             /\ latest[n] => childEnded'[n]}
  /\ UNCHANGED <<goal, children, latest, outOfChildren, taking,
                 received, feedback, client, sent>>
-----------------------------------------------------------------------------
\* The waiting nodes ask the chooser in the order of the statechart.

\* A callback that must be at rest for a choice is not: no node asks.
NotHeldStill ==
  /\ phase = "choosing"
  /\ taking = {}
  /\ asking # {}
  /\ asking' = {}
  /\ UNCHANGED <<goal, chart, phase, resetting, resets, taking, received,
                 feedback, client, sent>>

\* Mutant: choices are taken in the order the nodes ask.
MayBeTakenInAnyOrder(message) == message # NoMessage

MayBeTaken(message) ==
  message # NoMessage /\ ~ IsMadeAfterAChoiceStillToTake(message)

\* A choice for another goal is dropped.
HasChoiceFor(n) ==
  /\ phase = "choosing"
  /\ taking = {}
  /\ n \in asking
  /\ \A m \in asking : n <= m
  /\ asking' = asking \ {n}
  /\ received' = [received EXCEPT ![n] =
       IF @ # NoMessage /\ @.goal_id # "this" THEN NoMessage ELSE @]
  /\ taking' = IF MayBeTaken(received'[n]) THEN {n} ELSE {}
  /\ UNCHANGED <<goal, chart, phase, resetting, resets, feedback, client,
                 sent>>

GiveUp(n) ==
  /\ outOfChildren' = [outOfChildren EXCEPT ![n] = TRUE]
  /\ UNCHANGED <<children, latest, childEnded>>

AdoptChosenChild(n, message) ==
  /\ children' = Append(children,
       [goal |-> message.goal_id, node |-> n,
        child_count |-> message.child_count])
  /\ latest' = [latest EXCEPT ![n] = TRUE]
  /\ childEnded' = [childEnded EXCEPT ![n] = FALSE]
  /\ UNCHANGED outOfChildren

Fits(message) ==
  message.has_child => message.first_node_index = Len(children) + 1

\* The choice is looked up anew: the receiving thread may have replaced it.
ChooseChild(n) ==
  /\ taking = {n}
  /\ Fits(received[n])
  /\ IF received[n].has_child THEN AdoptChosenChild(n, received[n])
     ELSE GiveUp(n)
  /\ received' = [received EXCEPT ![n] = NoMessage]
  /\ taking' = {}
  /\ UNCHANGED <<goal, life, phase, resetting, resets, asking, feedback,
                 client, sent>>

\* StatechartOutOfStepError aborts the goal.
ChooseChildRaises(n) ==
  /\ taking = {n}
  /\ ~ Fits(received[n])
  /\ AbortGoal
  /\ UNCHANGED <<chart, resets, client>>

Report ==
  [node_count |-> Len(children),
   waiting_for_child |-> {Request(n) : n \in {m \in Node : IsWaiting(m)}}]

\* The end of the cycle.  on_reset puts a node back to choosing, whatever it
\* chose in this tick; then the feedback may be sent, the oldest report giving
\* way when the client does not keep up.
EndCycle(sends) ==
  /\ phase = "choosing"
  /\ asking = {}
  /\ taking = {}
  /\ latest' = [n \in Node |-> n \notin resetting /\ latest[n]]
  /\ childEnded' = [n \in Node |-> n \notin resetting /\ childEnded[n]]
  /\ outOfChildren' = [n \in Node |-> n \notin resetting /\ outOfChildren[n]]
  /\ UNCHANGED <<goal, life, children>>
  /\ resetting' = {}
  /\ phase' = "cycle"
  /\ feedback' =
       IF ~ sends THEN feedback
       ELSE Append(IF Len(feedback) < FeedbackDepth THEN feedback
                   ELSE Tail(feedback), Report')
  /\ UNCHANGED <<resets, asking, taking, received, client, sent>>

\* A node waits for a child, so the report is repeated once it is due.
EndCycleRepeatingRequests ==
  EndCycle(TRUE) /\ Report'.waiting_for_child # {}
-----------------------------------------------------------------------------
\* The thread receiving choices puts each at its node, over one not taken yet.

Receive ==
  /\ sent # <<>>
  /\ received' = [received EXCEPT ![Head(sent).node_index] = Head(sent)]
  /\ sent' = Tail(sent)
  /\ UNCHANGED <<goal, chart, tick, feedback, client>>

NoLateChoice ==
  \A n \in Node : received[n] # NoMessage => received[n].goal_id = "this"

\* The client of a superseded goal went on choosing its first child, and only
\* sends it now.  It shows only to a node that asks for its choice; bound: one
\* such choice is there at a time.
ReceiveLate(n) ==
  /\ n \in asking \union taking
  /\ NoLateChoice
  /\ received' = [received EXCEPT ![n] =
       [goal_id |-> "superseded", node_index |-> n, child_count |-> 0,
        first_node_index |-> 1, has_child |-> TRUE]]
  /\ UNCHANGED <<goal, chart, tick, feedback, client, sent>>
-----------------------------------------------------------------------------
\* The client, in the thread that receives its feedback.

\* Mutant: every report of a request is answered.
EveryRequest == Head(feedback).waiting_for_child

OpenRequests == Head(feedback).waiting_for_child \ answered

FirstNodeIndex(added) == Len(copy) + added + 1

\* The nodes of a set in the order of the statechart.
InOrder(order, nodes) ==
  /\ order \in Bijection(1..Cardinality(nodes), nodes)
  /\ \A i, j \in DOMAIN order : i < j => order[i] < order[j]

\* The client chooses for the nodes of `requests' in order; its chooser has a
\* child for those of `given'.  The copy is never reset: a node that was out of
\* children stays so.
Choose(requests, given) ==
  LET nodes == {r.node : r \in requests}
      countOf(n) == (CHOOSE r \in requests : r.node = n).child_count
      child(n) == [goal |-> "this", node |-> n, child_count |-> countOf(n)]
  IN  \E order \in [1..Cardinality(nodes) -> nodes],
         added \in [1..Cardinality(given) -> given] :
        /\ InOrder(order, nodes)
        /\ InOrder(added, given)
        /\ copyOut' = copyOut \union (nodes \ given)
        /\ copy' = copy \o [i \in DOMAIN added |-> child(added[i])]
        /\ sent' = sent \o [k \in DOMAIN order |->
             [goal_id |-> "this", node_index |-> order[k],
              child_count |-> countOf(order[k]),
              first_node_index |-> FirstNodeIndex(
                Cardinality({i \in DOMAIN added : added[i] < order[k]})),
              has_child |-> order[k] \notin copyOut']]

\* Mutant: a request whose choice is still pending counts as answered.
AnsweredThoughPending(ready) == answered \union Head(feedback).waiting_for_child

Answered(ready) == answered \union ready

\* The client follows the states of a report and answers the requests in
\* `ready': those its chooser has an answer for already, none while its world
\* lacks what Giskard published.
Answer(ready) ==
  /\ following
  /\ feedback # <<>>
  /\ Head(feedback).node_count <= Len(copy)
  /\ ready \subseteq OpenRequests
  /\ \E given \in SUBSET {r.node : r \in ready} :
       /\ Len(copy) + Cardinality(given) <= MaxChildren
       /\ Choose(ready, given)
  /\ answered' = Answered(ready)
  /\ feedback' = Tail(feedback)
  /\ UNCHANGED <<goal, chart, tick, received, following>>

\* StateUpdateAheadOfStatechartError ends the receiving thread of the client.
FollowRaises ==
  /\ following
  /\ feedback # <<>>
  /\ Head(feedback).node_count > Len(copy)
  /\ following' = FALSE
  /\ feedback' = Tail(feedback)
  /\ UNCHANGED <<goal, chart, tick, received, copy, copyOut, answered, sent>>

AnswerSome ==
  feedback # <<>> /\ \E ready \in SUBSET OpenRequests : Answer(ready)
AnswerAll == feedback # <<>> /\ Answer(OpenRequests)
-----------------------------------------------------------------------------
Tick ==
  \/ Settle
  \/ NotHeldStill
  \/ \E n \in Node : HasChoiceFor(n) \/ ChooseChild(n) \/ ChooseChildRaises(n)
  \/ EndCycle(TRUE)
  \/ EndCycle(FALSE)

Next ==
  \/ Tick
  \/ Receive
  \/ \E n \in LateNode : ReceiveLate(n)
  \/ AnswerSome
  \/ FollowRaises

\* The control loop goes on, holds still for every node some time, and repeats a
\* request; the client reads its reports and, asked often enough, has an answer.
Fairness ==
  /\ WF_vars(Tick)
  /\ \A n \in Node : SF_vars(HasChoiceFor(n))
  /\ SF_vars(EndCycleRepeatingRequests)
  /\ WF_vars(Receive)
  /\ WF_vars(AnswerSome \/ FollowRaises)
  /\ SF_vars(AnswerAll)

Spec == Init /\ [][Next]_vars /\ Fairness
-----------------------------------------------------------------------------
TypeOK ==
  /\ goal \in {"running", "out_of_step"}
  /\ phase \in {"cycle", "choosing"}
  /\ life \in [Node -> LifeCycleValues]
  /\ children \in Seq(Child)
  /\ latest \in [Node -> BOOLEAN]
  /\ childEnded \in [Node -> BOOLEAN]
  /\ outOfChildren \in [Node -> BOOLEAN]
  /\ resetting \subseteq Node
  /\ resets \in 0..MaxResets
  /\ asking \subseteq Node
  /\ taking \subseteq Node
  /\ received \in [Node -> ChildChoiceMessage \union {NoMessage}]
  /\ feedback \in Seq(Feedback)
  /\ copy \in Seq(Child)
  /\ copyOut \subseteq Node
  /\ answered \subseteq ChildRequest
  /\ following \in BOOLEAN
  /\ sent \in Seq(ChildChoiceMessage)

\* A child the client chose stands at the same place in the running statechart
\* as in the copy it was chosen on, so that every state a report carries is
\* written to the node it belongs to (StatechartStateUpdate.apply).
SamePlaceInChartAndCopy ==
  \A i \in DOMAIN children :
    children[i].goal = "this" =>
      /\ i <= Len(copy)
      /\ copy[i] = children[i]

\* The copy is at most one child of a node ahead of the running statechart,
\* however often its request is reported (ChildChoiceClient._answered).
OneChoiceAhead ==
  \A n \in Node : Cardinality(ChildrenOf(n, copy)) <= ChildCount(n) + 1

\* Copy and running statechart agree on the children they have in common, and the copy is
\* at most the choice that is on its way ahead (ChildChoiceClient, ChildSentByClient).
CopyKeepsUpWithChart == SamePlaceInChartAndCopy /\ OneChoiceAhead


\* A choice with a child of the goal that was made before `message' and whose
\* node can still take it.
StillToTake(earlier, message) ==
  /\ earlier # NoMessage
  /\ earlier.goal_id = "this"
  /\ earlier.has_child
  /\ earlier.first_node_index < message.first_node_index
  /\ life[earlier.node_index] \in ActiveStates

\* A goal is only aborted as out of step over a choice no other order of taking
\* could have saved: none the client made before it is still to be taken, be it
\* received or on its way (ChildSentByClient.has_choice_for).
OutOfStepOnlyOverLostChoices ==
  [][goal = "running" /\ goal' = "out_of_step" =>
       \A n \in taking :
         received[n].goal_id = "this" =>
           /\ \A m \in Node : ~ StillToTake(received[m], received[n])
           /\ \A i \in DOMAIN sent : ~ StillToTake(sent[i], received[n])]_vars

\* The choice made for `n' waits behind one whose node is paused.
WaitsForAPausedNode(n) ==
  /\ received[n] # NoMessage
  /\ \E m \in Node :
       /\ received[m] # NoMessage
       /\ received[m].first_node_index < received[n].first_node_index
       /\ life[m] = "PAUSED"

\* A request the client did not answer before gets its answer, unless a choice
\* for a superseded goal comes in between: the node goes on waiting only behind
\* one that is paused (ActionFeedbackPublisher.child_request_repeat_period).
NewRequestIsAnswered ==
  []NoLateChoice =>
    \A n \in Node :
      (IsWaiting(n) /\ Request(n) \notin answered)
        ~> (~ IsWaiting(n) \/ WaitsForAPausedNode(n))

\* What on_reset promises: a node that starts again after a reset asks the
\* chooser anew, so it does not wait for a child for ever.
WaitingEnds ==
  []NoLateChoice =>
    \A n \in Node : IsWaiting(n) ~> (~ IsWaiting(n) \/ WaitsForAPausedNode(n))
=============================================================================
