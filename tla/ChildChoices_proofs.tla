------------------------ MODULE ChildChoices_proofs -------------------------
(***************************************************************************)
(* What holds of the children a client chooses for every set of nodes and  *)
(* every number of children: the children of the running statechart stand  *)
(* where the client's copy has them.  A choice names the place its child   *)
(* has in the copy, which only grows, and Giskard adds it at that place or *)
(* not at all; it gives up over a choice only if one made before is lost.  *)
(***************************************************************************)
EXTENDS ChildChoices, FiniteSetTheorems, TLAPS

\* What a choice says of the copy it was made on.
PlacedIn(message, joined) ==
  message.goal_id = "this" /\ message.has_child =>
    /\ message.first_node_index \in 1..Len(joined)
    /\ joined[message.first_node_index] =
         [goal |-> "this", node |-> message.node_index,
          child_count |-> message.child_count]

ChoicesArePlaced ==
  /\ \A n \in Node : received[n] # NoMessage =>
                       received[n].node_index = n /\ PlacedIn(received[n], copy)
  /\ \A i \in DOMAIN sent : PlacedIn(sent[i], copy)

\* Only a choice that is there is taken; another may replace it, none removes it.
TakesWhatIsThere == \A n \in taking : received[n] # NoMessage

ChoiceInv ==
  TypeOK /\ SamePlaceInChartAndCopy /\ ChoicesArePlaced /\ TakesWhatIsThere
-----------------------------------------------------------------------------
LEMMA NoMessageIsNone ==
  NoMessage \notin ChildChoiceMessage
BY DEF NoMessage, ChildChoiceMessage, Goal

LEMMA CountIsNatural ==
  ASSUME TypeOK, NEW n \in Node
  PROVE  ChildCount(n) \in Nat
<1>1. DOMAIN children = 1..Len(children) /\ Len(children) \in Nat
  BY DEF TypeOK
<1>2. IsFiniteSet(1..Len(children))
  BY <1>1, FS_Interval
<1>3. IsFiniteSet(ChildrenOf(n, children))
  BY <1>1, <1>2, FS_Subset DEF ChildrenOf
<1> QED
  BY <1>3, FS_CardinalityType DEF ChildCount

LEMMA ReportIsFeedback ==
  ASSUME TypeOK
  PROVE  Report \in Feedback
<1>1. Len(children) \in Nat
  BY DEF TypeOK
<1>2. \A n \in Node : Request(n) \in ChildRequest
  BY CountIsNatural DEF Request, ChildRequest
<1> QED
  BY <1>1, <1>2 DEF Report, Feedback

\* The listing of some nodes in the order of the statechart: before the place of
\* a node stand the smaller ones.
LEMMA PlaceInOrder ==
  ASSUME NEW nodes \in SUBSET Nat, NEW size \in Nat,
         NEW order \in [1..size -> nodes],
         \A i, j \in DOMAIN order : i < j => order[i] < order[j],
         NEW p \in 1..size
  PROVE  Cardinality({i \in DOMAIN order : order[i] < order[p]}) = p - 1
<1>1. {i \in DOMAIN order : order[i] < order[p]} = 1..(p - 1)
  <2>1. ASSUME NEW i \in 1..size, order[i] < order[p] PROVE i \in 1..(p - 1)
    <3>1. CASE i = p
      <4>1. order[p] \in Nat
        OBVIOUS
      <4> QED
        BY <2>1, <3>1, <4>1
    <3>2. CASE p < i
      <4>1. order[p] < order[i]
        BY <3>2
      <4>2. order[p] \in Nat /\ order[i] \in Nat
        OBVIOUS
      <4> QED
        BY <2>1, <4>1, <4>2
    <3> QED
      BY <3>1, <3>2
  <2>2. ASSUME NEW i \in 1..(p - 1) PROVE i \in 1..size /\ order[i] < order[p]
    OBVIOUS
  <2> QED
    BY <2>1, <2>2
<1>2. p - 1 \in Int /\ 1 \in Int /\ p >= 1
  OBVIOUS
<1>3. Cardinality(1..(p - 1)) = IF 1 > p - 1 THEN 0 ELSE (p - 1) - 1 + 1
  BY <1>2, FS_Interval
<1>4. Cardinality(1..(p - 1)) = p - 1
  BY <1>2, <1>3
<1> QED
  BY <1>1, <1>4
-----------------------------------------------------------------------------
LEMMA ListingIsSequence ==
  ASSUME NEW S, NEW size \in Nat, NEW listing \in [1..size -> S]
  PROVE  listing \in Seq(S)
OBVIOUS

\* What an answer adds to the copy and sends.
LEMMA ChoicesMade ==
  ASSUME TypeOK, NEW requests \in SUBSET ChildRequest,
         NEW given \in SUBSET {r.node : r \in requests},
         Choose(requests, given)
  PROVE  /\ copyOut' \in SUBSET Node
         /\ \E added \in Seq(Child) : copy' = copy \o added
         /\ \E choices \in Seq(ChildChoiceMessage) :
              /\ sent' = sent \o choices
              /\ \A k \in DOMAIN choices : PlacedIn(choices[k], copy')
<1> DEFINE nodes == {r.node : r \in requests}
           countOf(n) == (CHOOSE r \in requests : r.node = n).child_count
           child(n) == [goal |-> "this", node |-> n, child_count |-> countOf(n)]
<1>1. nodes \subseteq Node /\ nodes \subseteq Nat /\ IsFiniteSet(nodes)
      /\ given \subseteq nodes /\ IsFiniteSet(given)
  <2>1. nodes \subseteq Node
    BY DEF ChildRequest
  <2> QED
    BY <2>1, NodeAssumption, FS_Subset
<1>2. \A n \in nodes : countOf(n) \in Nat
  BY DEF ChildRequest
<1>3. Cardinality(nodes) \in Nat /\ Cardinality(given) \in Nat
  BY <1>1, FS_CardinalityType
<1> DEFINE place(n, added) == FirstNodeIndex(Cardinality({i \in DOMAIN added : added[i] < n}))
           choice(n, added) ==
             [goal_id |-> "this", node_index |-> n, child_count |-> countOf(n),
              first_node_index |-> place(n, added), has_child |-> n \notin copyOut']
<1>4. PICK order \in [1..Cardinality(nodes) -> nodes],
           added \in [1..Cardinality(given) -> given] :
        /\ InOrder(added, given)
        /\ copyOut' = copyOut \union (nodes \ given)
        /\ copy' = copy \o [i \in DOMAIN added |-> child(added[i])]
        /\ sent' = sent \o [k \in DOMAIN order |-> choice(order[k], added)]
  BY DEF Choose
<1>5. copyOut' \in SUBSET Node
  BY <1>1, <1>4 DEF TypeOK
<1> DEFINE new == [i \in DOMAIN added |-> child(added[i])]
           choices == [k \in DOMAIN order |-> choice(order[k], added)]
<1>6. new \in Seq(Child)
  <2>1. \A i \in DOMAIN added : child(added[i]) \in Child
    BY <1>1, <1>2 DEF Child, Goal
  <2> HIDE DEF child
  <2> QED
    BY <1>3, <2>1
<1>7. Len(copy) \in Nat /\ Len(new) = Cardinality(given) /\ copy \in Seq(Child)
  <2> HIDE DEF child
  <2> QED
    BY <1>3 DEF TypeOK
<1>8. ASSUME NEW n \in nodes
      PROVE  place(n, added) \in Nat \ {0}
  <2>1. IsFiniteSet(1..Cardinality(given))
    BY <1>3, FS_Interval
  <2>2. IsFiniteSet({i \in DOMAIN added : added[i] < n})
    BY <2>1, FS_Subset
  <2>3. Cardinality({i \in DOMAIN added : added[i] < n}) \in Nat
    BY <2>2, FS_CardinalityType
  <2> QED
    BY <1>7, <2>3 DEF FirstNodeIndex
<1>9. ASSUME NEW n \in given
      PROVE  /\ place(n, added) \in 1..Len(copy')
             /\ copy'[place(n, added)] = child(n)
  <2>1. PICK p \in 1..Cardinality(given) : added[p] = n
    BY <1>4 DEF InOrder, Bijection, Surjection
  <2>2. \A i, j \in DOMAIN added : i < j => added[i] < added[j]
    BY <1>4 DEF InOrder
  <2>3. Cardinality({i \in DOMAIN added : added[i] < added[p]}) = p - 1
    <3>1. given \in SUBSET Nat
      BY <1>1
    <3> QED
      BY <1>3, <2>2, <3>1, PlaceInOrder
  <2>4. place(n, added) = Len(copy) + p
    BY <1>7, <2>1, <2>3 DEF FirstNodeIndex
  <2>5. new[p] = child(n)
    BY <2>1
  <2> HIDE DEF child, new
  <2> QED
    BY <1>4, <1>6, <1>7, <2>4, <2>5 DEF new
<1>10. ASSUME NEW k \in DOMAIN order
       PROVE  choices[k] \in ChildChoiceMessage /\ PlacedIn(choices[k], copy')
  <2>1. choices[k] = choice(order[k], added) /\ order[k] \in nodes
    OBVIOUS
  <2>2. choices[k] \in ChildChoiceMessage
    <3> HIDE DEF place, countOf
    <3> QED
      BY <1>1, <1>2, <1>8, <2>1 DEF ChildChoiceMessage, Goal
  <2>3. ASSUME choices[k].has_child PROVE order[k] \in given
    BY <1>4, <2>1, <2>3
  <2>4. ASSUME choices[k].has_child
        PROVE  /\ choices[k].first_node_index \in 1..Len(copy')
               /\ copy'[choices[k].first_node_index] =
                    [goal |-> "this", node |-> choices[k].node_index,
                     child_count |-> choices[k].child_count]
    <3>1. order[k] \in given
      BY <2>3, <2>4
    <3> HIDE DEF place, countOf
    <3> QED
      BY <1>9, <2>1, <3>1
  <2> QED
    BY <2>2, <2>4 DEF PlacedIn
<1>11. choices \in Seq(ChildChoiceMessage) /\ DOMAIN choices = DOMAIN order
  <2>1. DOMAIN choices = 1..Cardinality(nodes)
        /\ choices = [k \in 1..Cardinality(nodes) |-> choices[k]]
    <3> HIDE DEF choice
    <3> QED
      OBVIOUS
  <2>2. \A k \in 1..Cardinality(nodes) : choices[k] \in ChildChoiceMessage
    BY <1>10
  <2>3. DOMAIN order = 1..Cardinality(nodes)
    OBVIOUS
  <2> HIDE DEF choices
  <2>4. choices \in [1..Cardinality(nodes) -> ChildChoiceMessage]
    BY <2>1, <2>2
  <2>5. choices \in Seq(ChildChoiceMessage)
    BY <1>3, <2>4, ListingIsSequence
  <2> QED
    BY <2>1, <2>3, <2>5
<1> QED
  BY <1>4, <1>5, <1>6, <1>10, <1>11
-----------------------------------------------------------------------------
LEMMA ChoiceInvInit == Init => ChoiceInv
<1> SUFFICES ASSUME Init PROVE ChoiceInv
  OBVIOUS
<1>1. TypeOK
  BY BoundsAssumption DEF Init, TypeOK, LifeCycleValues
<1> QED
  BY <1>1 DEF Init, ChoiceInv, SamePlaceInChartAndCopy, ChoicesArePlaced,
              TakesWhatIsThere

\* Every step keeps the types: a choice taken is one that was received.
LEMMA ChoicesTyped ==
  ASSUME TypeOK, TakesWhatIsThere, [Next]_vars
  PROVE  TypeOK'
<1>1. CASE Settle
  <2>1. resets' \in 0..MaxResets
    BY <1>1, BoundsAssumption DEF Settle, TypeOK
  <2>2. /\ life' \in [Node -> LifeCycleValues] /\ childEnded' \in [Node -> BOOLEAN]
        /\ resetting' \subseteq Node /\ asking' \subseteq Node
    BY <1>1, NodeAssumption DEF Settle
  <2> QED
    BY <1>1, <2>1, <2>2 DEF Settle, TypeOK, client
<1>2. CASE NotHeldStill
  BY <1>2 DEF NotHeldStill, TypeOK, chart, client
<1>3. ASSUME NEW n \in Node, HasChoiceFor(n) PROVE TypeOK'
  <2>1. /\ received' \in [Node -> ChildChoiceMessage \union {NoMessage}]
        /\ taking' \subseteq Node /\ asking' \subseteq Node
    BY <1>3 DEF HasChoiceFor, TypeOK
  <2> QED
    BY <1>3, <2>1 DEF HasChoiceFor, TypeOK, chart, client
<1>4. ASSUME NEW n \in Node, ChooseChild(n) PROVE TypeOK'
  <2>1. received[n] \in ChildChoiceMessage
    BY <1>4 DEF ChooseChild, TakesWhatIsThere, TypeOK
  <2>2. CASE received[n].has_child
    <3>1. AdoptChosenChild(n, received[n])
      BY <1>4, <2>2 DEF ChooseChild
    <3>2. [goal |-> received[n].goal_id, node |-> n,
           child_count |-> received[n].child_count] \in Child
      BY <2>1 DEF ChildChoiceMessage, Child
    <3>3. /\ children' \in Seq(Child) /\ latest' \in [Node -> BOOLEAN]
          /\ childEnded' \in [Node -> BOOLEAN]
      BY <3>1, <3>2 DEF AdoptChosenChild, TypeOK
    <3> QED
      BY <1>4, <3>1, <3>3 DEF ChooseChild, AdoptChosenChild, TypeOK, client
  <2>3. CASE ~ received[n].has_child
    BY <1>4, <2>3 DEF ChooseChild, GiveUp, TypeOK, client
  <2> QED
    BY <2>2, <2>3
<1>5. ASSUME NEW n \in Node, ChooseChildRaises(n) PROVE TypeOK'
  BY <1>5 DEF ChooseChildRaises, AbortGoal, TypeOK, chart, client
<1>6. ASSUME NEW sends \in BOOLEAN, EndCycle(sends) PROVE TypeOK'
  <2>1. /\ latest' \in [Node -> BOOLEAN] /\ childEnded' \in [Node -> BOOLEAN]
        /\ outOfChildren' \in [Node -> BOOLEAN]
    BY <1>6 DEF EndCycle, TypeOK
  <2>2. Report' \in Feedback
    <3>1. children' \in Seq(Child)
      BY <1>6 DEF EndCycle, TypeOK
    <3>2. Len(children') \in Nat /\ DOMAIN children' = 1..Len(children')
      BY <3>1
    <3>3. ASSUME NEW n \in Node PROVE Cardinality(ChildrenOf(n, children')) \in Nat
      <4>1. IsFiniteSet(1..Len(children'))
        BY <3>2, FS_Interval
      <4>2. IsFiniteSet(ChildrenOf(n, children'))
        BY <3>2, <4>1, FS_Subset DEF ChildrenOf
      <4> QED
        BY <4>2, FS_CardinalityType
    <3> QED
      BY <3>2, <3>3 DEF Report, Feedback, Request, ChildRequest, ChildCount
  <2>3. feedback' \in Seq(Feedback)
    <3>1. CASE sends /\ Len(feedback) < FeedbackDepth
      BY <1>6, <2>2, <3>1 DEF EndCycle, TypeOK
    <3>2. CASE sends /\ ~ (Len(feedback) < FeedbackDepth)
      <4>1. feedback # <<>>
        BY <3>2, FeedbackDepthAssumption DEF TypeOK
      <4>2. Tail(feedback) \in Seq(Feedback)
        BY <4>1 DEF TypeOK
      <4> QED
        BY <1>6, <2>2, <3>2, <4>2 DEF EndCycle
    <3>3. CASE ~ sends
      BY <1>6, <3>3 DEF EndCycle, TypeOK
    <3> QED
      BY <3>1, <3>2, <3>3
  <2> QED
    BY <1>6, <2>1, <2>3 DEF EndCycle, TypeOK, client
<1>7. CASE Receive
  <2>1. Head(sent) \in ChildChoiceMessage /\ Tail(sent) \in Seq(ChildChoiceMessage)
    BY <1>7 DEF Receive, TypeOK
  <2> QED
    BY <1>7, <2>1 DEF Receive, TypeOK, chart, tick, client
<1>8. ASSUME NEW n \in Node, ReceiveLate(n) PROVE TypeOK'
  <2>1. [goal_id |-> "superseded", node_index |-> n, child_count |-> 0,
         first_node_index |-> 1, has_child |-> TRUE] \in ChildChoiceMessage
    BY DEF ChildChoiceMessage, Goal
  <2> QED
    BY <1>8, <2>1 DEF ReceiveLate, TypeOK, chart, tick, client
<1>9. CASE AnswerSome
  <2>1. PICK ready \in SUBSET OpenRequests : feedback # <<>> /\ Answer(ready)
    BY <1>9 DEF AnswerSome
  <2>2. Head(feedback) \in Feedback /\ Tail(feedback) \in Seq(Feedback)
    BY <2>1 DEF TypeOK
  <2>3. ready \in SUBSET ChildRequest
    BY <2>2 DEF OpenRequests, Feedback
  <2>4. PICK given \in SUBSET {r.node : r \in ready} : Choose(ready, given)
    BY <2>1 DEF Answer
  <2>5. /\ copyOut' \in SUBSET Node
        /\ \E added \in Seq(Child) : copy' = copy \o added
        /\ \E choices \in Seq(ChildChoiceMessage) : sent' = sent \o choices
    BY <2>3, <2>4, ChoicesMade
  <2>6. copy' \in Seq(Child) /\ sent' \in Seq(ChildChoiceMessage)
    BY <2>5 DEF TypeOK
  <2>7. answered' \subseteq ChildRequest /\ feedback' \in Seq(Feedback)
    BY <2>1, <2>2, <2>3 DEF Answer, Answered, TypeOK
  <2> QED
    BY <2>1, <2>5, <2>6, <2>7 DEF Answer, TypeOK, chart, tick
<1>10. CASE FollowRaises
  <2>1. feedback' \in Seq(Feedback)
    BY <1>10 DEF FollowRaises, TypeOK
  <2> QED
    BY <1>10, <2>1 DEF FollowRaises, TypeOK, chart, tick
<1>11. CASE UNCHANGED vars
  BY <1>11 DEF vars, chart, tick, client, TypeOK
<1> QED
  BY <1>1, <1>2, <1>3, <1>4, <1>5, <1>6, <1>7, <1>8, <1>9, <1>10, <1>11,
     NodeAssumption DEF Next, Tick
-----------------------------------------------------------------------------
\* The copy is only extended, so what was at a place stays there.
LEMMA CopyGrows ==
  ASSUME TypeOK, [Next]_vars
  PROVE  \E added \in Seq(Child) : copy' = copy \o added
<1>1. CASE AnswerSome
  <2>1. PICK ready \in SUBSET OpenRequests : feedback # <<>> /\ Answer(ready)
    BY <1>1 DEF AnswerSome
  <2>2. Head(feedback) \in Feedback
    BY <2>1 DEF TypeOK
  <2>3. ready \in SUBSET ChildRequest
    BY <2>2 DEF OpenRequests, Feedback
  <2>4. PICK given \in SUBSET {r.node : r \in ready} : Choose(ready, given)
    BY <2>1 DEF Answer
  <2> QED
    BY <2>3, <2>4, ChoicesMade
<1>2. CASE ~ AnswerSome
  <2>1. copy' = copy
    BY <1>2 DEF Next, Tick, vars, client, Settle, NotHeldStill, HasChoiceFor,
         ChooseChild, ChooseChildRaises, EndCycle, Receive, ReceiveLate, FollowRaises
  <2>2. copy' = copy \o <<>> /\ <<>> \in Seq(Child)
    BY <2>1 DEF TypeOK
  <2> QED
    BY <2>2
<1> QED
  BY <1>1, <1>2

LEMMA PlacesStay ==
  ASSUME NEW joined \in Seq(Child), NEW added \in Seq(Child),
         NEW message \in ChildChoiceMessage, PlacedIn(message, joined)
  PROVE  PlacedIn(message, joined \o added)
BY DEF PlacedIn, ChildChoiceMessage

\* Choices go on naming the place of their child in the copy.
LEMMA ChoicesStayPlaced ==
  ASSUME TypeOK, TakesWhatIsThere, ChoicesArePlaced, [Next]_vars
  PROVE  ChoicesArePlaced'
<1> PICK added \in Seq(Child) : copy' = copy \o added
  BY CopyGrows
<1>1. \A n \in Node : received[n] # NoMessage =>
        /\ received[n] \in ChildChoiceMessage
        /\ received[n].node_index = n
        /\ PlacedIn(received[n], copy')
  BY PlacesStay DEF ChoicesArePlaced, TypeOK
<1>2. \A i \in DOMAIN sent : PlacedIn(sent[i], copy')
  <2> TAKE i \in DOMAIN sent
  <2>1. sent[i] \in ChildChoiceMessage /\ copy \in Seq(Child)
    BY DEF TypeOK
  <2>2. PlacedIn(sent[i], copy)
    BY DEF ChoicesArePlaced
  <2> QED
    BY <2>1, <2>2, PlacesStay
<1>3. CASE AnswerSome
  <2>1. PICK ready \in SUBSET OpenRequests : feedback # <<>> /\ Answer(ready)
    BY <1>3 DEF AnswerSome
  <2>2. Head(feedback) \in Feedback
    BY <2>1 DEF TypeOK
  <2>3. ready \in SUBSET ChildRequest
    BY <2>2 DEF OpenRequests, Feedback
  <2>4. PICK given \in SUBSET {r.node : r \in ready} : Choose(ready, given)
    BY <2>1 DEF Answer
  <2>5. PICK choices \in Seq(ChildChoiceMessage) :
          /\ sent' = sent \o choices
          /\ \A k \in DOMAIN choices : PlacedIn(choices[k], copy')
    BY <2>3, <2>4, ChoicesMade
  <2>6. \A i \in DOMAIN sent' : PlacedIn(sent'[i], copy')
    <3> TAKE i \in DOMAIN sent'
    <3>1. sent \in Seq(ChildChoiceMessage)
      BY DEF TypeOK
    <3>2. CASE i <= Len(sent)
      BY <1>2, <2>5, <3>1, <3>2
    <3>3. CASE i > Len(sent)
      <4>1. i - Len(sent) \in DOMAIN choices /\ sent'[i] = choices[i - Len(sent)]
        BY <2>5, <3>1, <3>3
      <4> QED
        BY <2>5, <4>1
    <3> QED
      BY <2>5, <3>1, <3>2, <3>3
  <2>7. received' = received
    BY <2>1 DEF Answer
  <2> QED
    BY <1>1, <2>6, <2>7 DEF ChoicesArePlaced
<1>4. CASE Receive
  <2>1. /\ sent \in Seq(ChildChoiceMessage) /\ sent # <<>>
        /\ Head(sent) = sent[1] /\ 1 \in DOMAIN sent
    BY <1>4 DEF Receive, TypeOK
  <2>2. /\ received' = [received EXCEPT ![sent[1].node_index] = sent[1]]
        /\ sent' = Tail(sent)
    BY <1>4, <2>1 DEF Receive
  <2>3. sent[1].node_index \in Node
    <3>1. sent[1] \in ChildChoiceMessage
      BY <2>1
    <3> QED
      BY <3>1 DEF ChildChoiceMessage
  <2>4. \A i \in DOMAIN sent' : i + 1 \in DOMAIN sent /\ sent'[i] = sent[i + 1]
    BY <2>1, <2>2
  <2> QED
    BY <1>1, <1>2, <2>1, <2>2, <2>3, <2>4 DEF ChoicesArePlaced, TypeOK
<1>5. ASSUME NEW n \in Node, ReceiveLate(n) PROVE ChoicesArePlaced'
  <2>1. sent' = sent /\ \A m \in Node \ {n} : received'[m] = received[m]
    BY <1>5 DEF ReceiveLate, TypeOK
  <2>2. received'[n].node_index = n /\ received'[n].goal_id = "superseded"
    BY <1>5 DEF ReceiveLate, TypeOK
  <2> QED
    BY <1>1, <1>2, <2>1, <2>2 DEF ChoicesArePlaced, PlacedIn
<1>6. CASE /\ ~ AnswerSome
           /\ ~ Receive
           /\ \A n \in LateNode : ~ ReceiveLate(n)
  <2>1. /\ sent' = sent \/ sent' = <<>>
        /\ \A n \in Node : received'[n] = received[n] \/ received'[n] = NoMessage
    BY <1>6 DEF Next, Tick, vars, client, Settle, NotHeldStill, HasChoiceFor,
         ChooseChild, ChooseChildRaises, AbortGoal, EndCycle, FollowRaises, TypeOK
  <2> QED
    BY <1>1, <1>2, <2>1 DEF ChoicesArePlaced
<1> QED
  BY <1>3, <1>4, <1>5, <1>6, NodeAssumption

LEMMA TakenStaysThere ==
  ASSUME TypeOK, TakesWhatIsThere, [Next]_vars
  PROVE  TakesWhatIsThere'
<1>1. ASSUME NEW n \in Node, HasChoiceFor(n) PROVE TakesWhatIsThere'
  BY <1>1 DEF HasChoiceFor, MayBeTaken, TakesWhatIsThere
<1>2. CASE Receive
  <2>1. Head(sent) \in ChildChoiceMessage
    BY <1>2 DEF Receive, TypeOK
  <2> QED
    BY <1>2, <2>1, NoMessageIsNone DEF Receive, TakesWhatIsThere, TypeOK, tick
<1>3. ASSUME NEW n \in Node, ReceiveLate(n) PROVE TakesWhatIsThere'
  BY <1>3 DEF ReceiveLate, TakesWhatIsThere, TypeOK, tick, NoMessage
<1>4. CASE /\ \A n \in Node : ~ HasChoiceFor(n) /\ ~ ReceiveLate(n)
           /\ ~ Receive
  <2>1. taking' = {} \/ (taking' = taking /\ received' = received)
    BY <1>4, NodeAssumption DEF Next, Tick, vars, client, tick, Settle, NotHeldStill,
         ChooseChild, ChooseChildRaises, AbortGoal, EndCycle, FollowRaises,
         AnswerSome, Answer
  <2> QED
    BY <2>1 DEF TakesWhatIsThere
<1> QED
  BY <1>1, <1>2, <1>3, <1>4

\* A child is added at the place its choice names, or not at all.
LEMMA ChildrenStayInPlace ==
  ASSUME ChoiceInv, [Next]_vars
  PROVE  SamePlaceInChartAndCopy'
<1>1. PICK added \in Seq(Child) : copy' = copy \o added
  BY CopyGrows DEF ChoiceInv
<1>2. children \in Seq(Child) /\ copy \in Seq(Child)
  BY DEF ChoiceInv, TypeOK
<1>3. \A i \in DOMAIN children :
        children[i].goal = "this" => i <= Len(copy') /\ copy'[i] = children[i]
  BY <1>1, <1>2 DEF ChoiceInv, SamePlaceInChartAndCopy
<1>4. CASE children' = children
  BY <1>3, <1>4 DEF SamePlaceInChartAndCopy
<1>5. CASE children' # children
  <2>1. PICK n \in Node : ChooseChild(n)
    BY <1>5 DEF Next, Tick, vars, chart, Settle, NotHeldStill, HasChoiceFor,
         ChooseChildRaises, EndCycle, Receive, ReceiveLate, FollowRaises,
         AnswerSome, Answer
  <2>2. /\ received[n] # NoMessage
        /\ received[n] \in ChildChoiceMessage
        /\ received[n].node_index = n
        /\ PlacedIn(received[n], copy)
    BY <2>1 DEF ChooseChild, ChoiceInv, TakesWhatIsThere, ChoicesArePlaced, TypeOK
  <2>3. received[n].has_child /\ AdoptChosenChild(n, received[n])
    BY <1>5, <2>1 DEF ChooseChild, GiveUp
  <2>4. received[n].first_node_index = Len(children) + 1
    BY <2>1, <2>3 DEF ChooseChild, Fits
  <2>5. children' = Append(children,
          [goal |-> received[n].goal_id, node |-> n,
           child_count |-> received[n].child_count])
    BY <2>3 DEF AdoptChosenChild
  <2>6. ASSUME NEW i \in DOMAIN children', children'[i].goal = "this"
        PROVE  i <= Len(copy') /\ copy'[i] = children'[i]
    <3>1. CASE i \in DOMAIN children
      BY <1>2, <1>3, <2>5, <2>6, <3>1
    <3>2. CASE i = Len(children) + 1
      <4>1. received[n].goal_id = "this"
        BY <1>2, <2>5, <2>6, <3>2
      <4>2. i \in 1..Len(copy) /\ copy[i] = children'[i]
        BY <1>2, <2>2, <2>3, <2>4, <2>5, <3>2, <4>1 DEF PlacedIn
      <4> QED
        BY <1>1, <1>2, <4>2
    <3> QED
      BY <1>2, <2>5, <3>1, <3>2
  <2> QED
    BY <2>6 DEF SamePlaceInChartAndCopy
<1> QED
  BY <1>4, <1>5

LEMMA ChoiceInvHolds == Spec => []ChoiceInv
<1>1. ChoiceInv /\ [Next]_vars => ChoiceInv'
  BY ChoicesTyped, ChoicesStayPlaced, TakenStaysThere, ChildrenStayInPlace DEF ChoiceInv
<1> QED
  BY ChoiceInvInit, <1>1, PTL DEF Spec

\* The nodes, choices and reports of the exchange keep their types.
THEOREM ChoicesAreTyped == Spec => []TypeOK
<1>1. ChoiceInv => TypeOK
  BY DEF ChoiceInv
<1> QED
  BY ChoiceInvHolds, <1>1, PTL

\* Whatever the nodes ask, whatever is lost, late or taken over in between: a
\* child the client chose stands in the running statechart where it stands in the
\* copy, so the states Giskard reports are written to the right nodes
\* (ChildChoiceMessage.apply_to, StatechartStateUpdate.apply).
THEOREM ChartFollowsCopy == Spec => []SamePlaceInChartAndCopy
<1>1. ChoiceInv => SamePlaceInChartAndCopy
  BY DEF ChoiceInv
<1> QED
  BY ChoiceInvHolds, <1>1, PTL
-----------------------------------------------------------------------------
\* Every request is answered once, and each asks for one more child.

RequestOf(chosen) == [node |-> chosen.node, child_count |-> chosen.child_count]
AsksForTheNext(r) == r.child_count <= ChildCount(r.node)

AnsweredOnce ==
  /\ \A i \in DOMAIN copy : RequestOf(copy[i]) \in answered
  /\ \A i, j \in DOMAIN copy : RequestOf(copy[i]) = RequestOf(copy[j]) => i = j
  /\ \A r \in answered : AsksForTheNext(r)
  /\ \A i \in DOMAIN feedback : \A r \in feedback[i].waiting_for_child : AsksForTheNext(r)

\* The children an answer adds are for requests it answers, one for each.
LEMMA ChildrenAdded ==
  ASSUME TypeOK, NEW requests \in SUBSET ChildRequest,
         NEW given \in SUBSET {r.node : r \in requests},
         Choose(requests, given)
  PROVE  \E added \in Seq(Child) :
           /\ copy' = copy \o added
           /\ \A i \in DOMAIN added : RequestOf(added[i]) \in requests
           /\ \A i, j \in DOMAIN added : added[i].node = added[j].node => i = j
<1> DEFINE nodes == {r.node : r \in requests}
           countOf(n) == (CHOOSE r \in requests : r.node = n).child_count
           child(n) == [goal |-> "this", node |-> n, child_count |-> countOf(n)]
<1>1. PICK listing \in [1..Cardinality(given) -> given] :
        /\ InOrder(listing, given)
        /\ copy' = copy \o [i \in DOMAIN listing |-> child(listing[i])]
  BY DEF Choose
<1>2. ASSUME NEW n \in nodes
      PROVE  /\ countOf(n) \in Nat /\ n \in Node
             /\ [node |-> n, child_count |-> countOf(n)] \in requests
  <2> DEFINE r == CHOOSE r \in requests : r.node = n
  <2>1. r \in requests /\ r.node = n
    OBVIOUS
  <2> HIDE DEF r
  <2>2. r = [node |-> r.node, child_count |-> r.child_count] /\ r.child_count \in Nat
        /\ r.node \in Node
    BY <2>1 DEF ChildRequest
  <2> QED
    BY <2>1, <2>2 DEF r
<1>3. Cardinality(given) \in Nat
  <2>1. nodes \subseteq Node
    BY DEF ChildRequest
  <2> QED
    BY <2>1, NodeAssumption, FS_Subset, FS_CardinalityType
<1> DEFINE added == [i \in 1..Cardinality(given) |-> child(listing[i])]
<1>4. \A i \in 1..Cardinality(given) : listing[i] \in nodes
  OBVIOUS
<1>5. ASSUME NEW i \in 1..Cardinality(given)
      PROVE  added[i] \in Child /\ RequestOf(added[i]) \in requests
             /\ added[i].node = listing[i]
  <2>1. added[i] = child(listing[i])
    OBVIOUS
  <2> HIDE DEF countOf, added
  <2> QED
    BY <1>2, <1>4, <2>1 DEF Child, Goal, RequestOf
<1>6. added \in Seq(Child) /\ DOMAIN added = 1..Cardinality(given)
  <2> HIDE DEF child
  <2> QED
    BY <1>3, <1>5
<1>7. \A i, j \in 1..Cardinality(given) : listing[i] = listing[j] => i = j
  BY <1>1 DEF InOrder, Bijection, Injection, IsInjective
<1>8. copy' = copy \o added
  BY <1>1
<1>9. /\ \A i \in DOMAIN added : RequestOf(added[i]) \in requests
      /\ \A i, j \in DOMAIN added : added[i].node = added[j].node => i = j
  <2> HIDE DEF added
  <2> QED
    BY <1>5, <1>6, <1>7
<1> HIDE DEF added
<1>10. added \in Seq(Child)
  BY <1>6
<1> QED
  BY <1>8, <1>9, <1>10

\* No child leaves, so no node has fewer than when it asked.
LEMMA ChildCountGrows ==
  ASSUME TypeOK, [Next]_vars, NEW n \in Node
  PROVE  ChildCount(n) <= ChildCount(n)' /\ ChildCount(n) \in Nat /\ ChildCount(n)' \in Nat
<1>1. children' = children \/ \E chosen : children' = Append(children, chosen)
  BY DEF Next, Tick, vars, chart, Settle, NotHeldStill, HasChoiceFor, ChooseChild,
       AdoptChosenChild, GiveUp, ChooseChildRaises, EndCycle, Receive, ReceiveLate,
       FollowRaises, AnswerSome, Answer
<1>2. /\ children \in Seq(Child) /\ Len(children) \in Nat
      /\ DOMAIN children = 1..Len(children)
  BY DEF TypeOK
<1>3. ASSUME NEW chosen, children' = Append(children, chosen)
      PROVE  /\ ChildrenOf(n, children) \subseteq ChildrenOf(n, children')
             /\ ChildrenOf(n, children') \subseteq 1..(Len(children) + 1)
  BY <1>2, <1>3 DEF ChildrenOf
<1>4. /\ ChildrenOf(n, children) \subseteq ChildrenOf(n, children')
      /\ ChildrenOf(n, children') \subseteq 1..(Len(children) + 1)
  BY <1>1, <1>2, <1>3 DEF ChildrenOf
<1>5. IsFiniteSet(1..(Len(children) + 1))
  BY <1>2, FS_Interval
<1>6. IsFiniteSet(ChildrenOf(n, children')) /\ IsFiniteSet(ChildrenOf(n, children))
  BY <1>4, <1>5, FS_Subset
<1> QED
  BY <1>4, <1>6, FS_Subset, FS_CardinalityType DEF ChildCount, ChildrenOf

LEMMA AnsweredOnceInit == Init => AnsweredOnce
BY DEF Init, AnsweredOnce

LEMMA AnsweredOnceNext ==
  ASSUME TypeOK, AnsweredOnce, [Next]_vars
  PROVE  AnsweredOnce'
<1>1. ASSUME NEW r \in ChildRequest, AsksForTheNext(r)
      PROVE  AsksForTheNext(r)'
  <2>1. r.node \in Node /\ r.child_count \in Nat
    BY DEF ChildRequest
  <2> QED
    BY <1>1, <2>1, ChildCountGrows DEF AsksForTheNext
<1>2. /\ \A i \in DOMAIN feedback : feedback[i].waiting_for_child \subseteq ChildRequest
      /\ answered \subseteq ChildRequest
  <2>1. \A f \in Feedback : f.waiting_for_child \subseteq ChildRequest
    BY DEF Feedback
  <2>2. \A i \in DOMAIN feedback : feedback[i] \in Feedback
    BY DEF TypeOK
  <2> QED
    BY <2>1, <2>2 DEF TypeOK
<1>3. /\ \A r \in answered : AsksForTheNext(r)'
      /\ \A i \in DOMAIN feedback : \A r \in feedback[i].waiting_for_child : AsksForTheNext(r)'
  BY <1>1, <1>2 DEF AnsweredOnce
<1>4. CASE AnswerSome
  <2>1. PICK ready \in SUBSET OpenRequests : feedback # <<>> /\ Answer(ready)
    BY <1>4 DEF AnswerSome
  <2>2. /\ feedback \in Seq(Feedback) /\ Head(feedback) = feedback[1] /\ 1 \in DOMAIN feedback
        /\ feedback' = Tail(feedback)
    BY <2>1 DEF Answer, TypeOK
  <2>3. /\ ready \in SUBSET ChildRequest
        /\ \A r \in ready : r \notin answered /\ AsksForTheNext(r)'
    BY <1>2, <1>3, <2>2 DEF OpenRequests
  <2>4. PICK given \in SUBSET {r.node : r \in ready} : Choose(ready, given)
    BY <2>1 DEF Answer
  <2>5. PICK added \in Seq(Child) :
           /\ copy' = copy \o added
           /\ \A i \in DOMAIN added : RequestOf(added[i]) \in ready
           /\ \A i, j \in DOMAIN added : added[i].node = added[j].node => i = j
    BY <2>3, <2>4, ChildrenAdded
  <2>6. answered' = answered \union ready
    BY <2>1 DEF Answer, Answered
  <2>7. /\ copy \in Seq(Child) /\ Len(copy) \in Nat /\ Len(added) \in Nat
        /\ DOMAIN copy = 1..Len(copy) /\ DOMAIN added = 1..Len(added)
        /\ DOMAIN copy' = 1..(Len(copy) + Len(added))
    BY <2>5 DEF TypeOK
  <2>8. \A i \in DOMAIN copy' :
          \/ i \in DOMAIN copy /\ copy'[i] = copy[i]
          \/ i - Len(copy) \in DOMAIN added /\ copy'[i] = added[i - Len(copy)]
    BY <2>5, <2>7
  <2>9. \A i \in DOMAIN copy' : RequestOf(copy'[i]) \in answered'
    BY <2>5, <2>6, <2>8 DEF AnsweredOnce
  <2>10. ASSUME NEW i \in DOMAIN copy', NEW j \in DOMAIN copy',
                RequestOf(copy'[i]) = RequestOf(copy'[j])
         PROVE  i = j
    <3>1. CASE i \in DOMAIN copy /\ j \in DOMAIN copy /\ copy'[i] = copy[i] /\ copy'[j] = copy[j]
      BY <2>10, <3>1 DEF AnsweredOnce
    <3>2. CASE /\ i - Len(copy) \in DOMAIN added /\ copy'[i] = added[i - Len(copy)]
               /\ j - Len(copy) \in DOMAIN added /\ copy'[j] = added[j - Len(copy)]
      <4>1. copy'[i].node = copy'[j].node
        BY <2>10 DEF RequestOf
      <4>2. i - Len(copy) = j - Len(copy)
        BY <2>5, <3>2, <4>1
      <4> QED
        BY <2>7, <4>2
    <3>3. CASE /\ i \in DOMAIN copy /\ copy'[i] = copy[i]
               /\ j - Len(copy) \in DOMAIN added /\ copy'[j] = added[j - Len(copy)]
      BY <2>3, <2>5, <2>10, <3>3 DEF AnsweredOnce
    <3>4. CASE /\ j \in DOMAIN copy /\ copy'[j] = copy[j]
               /\ i - Len(copy) \in DOMAIN added /\ copy'[i] = added[i - Len(copy)]
      BY <2>3, <2>5, <2>10, <3>4 DEF AnsweredOnce
    <3> QED
      BY <2>8, <3>1, <3>2, <3>3, <3>4
  <2>11. \A i \in DOMAIN feedback' : i + 1 \in DOMAIN feedback /\ feedback'[i] = feedback[i + 1]
    BY <2>1, <2>2
  <2> QED
    BY <1>3, <2>3, <2>6, <2>9, <2>10, <2>11 DEF AnsweredOnce
<1>5. ASSUME NEW sends \in BOOLEAN, EndCycle(sends)
      PROVE  AnsweredOnce'
  <2>1. children' = children /\ copy' = copy /\ answered' = answered
    BY <1>5 DEF EndCycle, client
  <2>2. \A r \in Report'.waiting_for_child : AsksForTheNext(r)'
    <3>1. \A n \in Node : ChildCount(n)' = ChildCount(n) /\ ChildCount(n) \in Nat
      BY <2>1, CountIsNatural DEF ChildCount, ChildrenOf
    <3>2. ASSUME NEW r \in Report'.waiting_for_child
          PROVE  \E n \in Node : r = [node |-> n, child_count |-> ChildCount(n)']
      BY DEF Report, Request
    <3> QED
      BY <3>1, <3>2 DEF AsksForTheNext
  <2>3. \A i \in DOMAIN feedback' :
          \/ \E j \in DOMAIN feedback : feedback'[i] = feedback[j]
          \/ feedback'[i] = Report'
    <3>1. feedback \in Seq(Feedback)
      BY DEF TypeOK
    <3>2. CASE feedback' = feedback
      BY <3>2
    <3>3. CASE feedback' = Append(feedback, Report')
      BY <3>1, <3>3
    <3>4. CASE feedback' = Append(Tail(feedback), Report') /\ feedback # <<>>
      <4>1. /\ Tail(feedback) \in Seq(Feedback) /\ Len(Tail(feedback)) = Len(feedback) - 1
            /\ \A i \in 1..(Len(feedback) - 1) : Tail(feedback)[i] = feedback[i + 1]
        BY <3>1, <3>4
      <4> QED
        BY <3>1, <3>4, <4>1
    <3>5. ~ (Len(feedback) < FeedbackDepth) => feedback # <<>>
      BY <3>1, FeedbackDepthAssumption
    <3> QED
      BY <1>5, <3>2, <3>3, <3>4, <3>5 DEF EndCycle
  <2> QED
    BY <1>3, <2>1, <2>2, <2>3 DEF AnsweredOnce
<1>6. CASE ~ AnswerSome /\ ~ EndCycle(TRUE) /\ ~ EndCycle(FALSE)
  <2>1. UNCHANGED <<copy, answered>>
    BY <1>6 DEF Next, Tick, vars, client, Settle, NotHeldStill, HasChoiceFor, ChooseChild,
         ChooseChildRaises, Receive, ReceiveLate, FollowRaises
  <2>2. \/ feedback' \in {feedback, <<>>}
        \/ feedback # <<>> /\ feedback' = Tail(feedback)
    BY <1>6 DEF Next, Tick, vars, client, Settle, NotHeldStill, HasChoiceFor, ChooseChild,
         ChooseChildRaises, AbortGoal, Receive, ReceiveLate, FollowRaises
  <2>3. \A i \in DOMAIN feedback' : \E j \in DOMAIN feedback : feedback'[i] = feedback[j]
    <3>1. feedback \in Seq(Feedback)
      BY DEF TypeOK
    <3>2. CASE feedback' \in {feedback, <<>>}
      BY <3>2
    <3>3. CASE feedback # <<>> /\ feedback' = Tail(feedback)
      BY <3>1, <3>3
    <3> QED
      BY <2>2, <3>2, <3>3
  <2> QED
    BY <1>3, <2>1, <2>3 DEF AnsweredOnce
<1> QED
  BY <1>4, <1>5, <1>6

\* The children in the copy of one node answer different requests, the first when the
\* node had none.
LEMMA OneAhead ==
  ASSUME TypeOK, AnsweredOnce
  PROVE  OneChoiceAhead
<1> SUFFICES ASSUME NEW n \in Node
             PROVE  Cardinality(ChildrenOf(n, copy)) <= ChildCount(n) + 1
  BY DEF OneChoiceAhead
<1> DEFINE count == [i \in ChildrenOf(n, copy) |-> copy[i].child_count]
           asked == 0..ChildCount(n)
<1>1. ChildCount(n) \in Nat
  BY CountIsNatural
<1>2. \A i \in ChildrenOf(n, copy) : i \in DOMAIN copy /\ copy[i] \in Child /\ copy[i].node = n
  BY DEF ChildrenOf, TypeOK
<1>3. \A i \in ChildrenOf(n, copy) : count[i] \in asked
  <2> TAKE i \in ChildrenOf(n, copy)
  <2>1. RequestOf(copy[i]) \in answered /\ copy[i].child_count \in Nat
    BY <1>2 DEF AnsweredOnce, Child
  <2>2. copy[i].child_count <= ChildCount(n)
    BY <1>2, <2>1 DEF AnsweredOnce, AsksForTheNext, RequestOf
  <2> QED
    BY <1>1, <2>1, <2>2
<1>4. \A i, j \in ChildrenOf(n, copy) : count[i] = count[j] => i = j
  BY <1>2 DEF AnsweredOnce, RequestOf
<1>5. count \in Injection(ChildrenOf(n, copy), asked)
  BY <1>3, <1>4 DEF Injection, IsInjective
<1>6. IsFiniteSet(asked) /\ Cardinality(asked) = ChildCount(n) + 1
  BY <1>1, FS_Interval
<1>7. Cardinality(ChildrenOf(n, copy)) <= Cardinality(asked)
  BY <1>5, <1>6, FS_Injection DEF Injection
<1> QED
  BY <1>6, <1>7

\* However often a request is reported, lost or repeated: the copy is at most one child
\* of a node ahead of the running statechart (ChildChoiceClient._answered).
THEOREM ClientChoosesOneAhead == Spec => []OneChoiceAhead
<1>1. AnsweredOnce /\ ChoiceInv /\ [Next]_vars => AnsweredOnce'
  BY AnsweredOnceNext DEF ChoiceInv
<1>2. AnsweredOnce /\ ChoiceInv => OneChoiceAhead
  BY OneAhead DEF ChoiceInv
<1> QED
  BY ChoiceInvHolds, AnsweredOnceInit, <1>1, <1>2, PTL DEF Spec

\* The copy agrees with the running statechart and is at most one choice of a node ahead.
THEOREM CopiesKeepUp == Spec => []CopyKeepsUpWithChart
BY ChartFollowsCopy, ClientChoosesOneAhead, PTL DEF CopyKeepsUpWithChart
-----------------------------------------------------------------------------
\* No choice is lost by the order in which they are taken: the choices of the goal reach
\* Giskard in the order they were made, ...
OfThisGoal(n) == received[n].goal_id = "this"
AskedFor(message) == [node |-> message.node_index, child_count |-> message.child_count]

ChoicesInOrder ==
  /\ \A i \in DOMAIN sent :
       sent[i].goal_id = "this" /\ sent[i].first_node_index <= Len(copy) + 1
  /\ \A i, j \in DOMAIN sent : i < j => sent[i].first_node_index <= sent[j].first_node_index
  /\ \A n \in Node : OfThisGoal(n) =>
       /\ received[n].first_node_index <= Len(copy) + 1
       /\ \A i \in DOMAIN sent : received[n].first_node_index <= sent[i].first_node_index

\* ... a node has had as many children as its requests were answered, ...
AnsweredInTurn ==
  \A n \in Node : \A count \in 0..(ChildCount(n) - 1) :
    [node |-> n, child_count |-> count] \in answered

\* ... one choice at most is on its way to it, the one for its latest request, ...
IsCurrent(message, answers, joined) ==
  /\ AskedFor(message) \in answers
  /\ message.child_count = Cardinality(ChildrenOf(message.node_index, joined))

OneChoiceEach ==
  /\ \A i \in DOMAIN sent : IsCurrent(sent[i], answered, children)
  /\ \A n \in Node : OfThisGoal(n) =>
       /\ IsCurrent(received[n], answered, children)
       /\ \A i \in DOMAIN sent : sent[i].node_index # n
  /\ \A i, j \in DOMAIN sent : sent[i].node_index = sent[j].node_index => i = j

\* StillToTake, of any life cycles.
LeftBehind(earlier, message, lives) ==
  /\ earlier # NoMessage
  /\ earlier.goal_id = "this"
  /\ earlier.has_child
  /\ earlier.first_node_index < message.first_node_index
  /\ lives[earlier.node_index] \in ActiveStates

\* ... so that no other takes its place between has_choice_for and choose_child.
TakenInTurn ==
  \A n \in taking :
    /\ taking = {n} /\ phase = "choosing"
    /\ [node |-> n, child_count |-> ChildCount(n)] \in answered
    /\ \A i \in DOMAIN sent : sent[i].node_index # n
    /\ OfThisGoal(n) => \A m \in Node : ~ LeftBehind(received[m], received[n], life)

InTurn == ChoicesInOrder /\ AnsweredInTurn /\ OneChoiceEach /\ TakenInTurn

LEMMA InTurnInit == Init => InTurn
<1> SUFFICES ASSUME Init PROVE InTurn
  OBVIOUS
<1>1. \A n \in Node : ~ OfThisGoal(n)
  BY DEF Init, OfThisGoal, NoMessage
<1>2. \A n \in Node : ChildrenOf(n, children) = {}
  BY DEF Init, ChildrenOf
<1>3. \A n \in Node : ChildCount(n) = 0
  BY <1>2, FS_EmptySet DEF ChildCount
<1>4. AnsweredInTurn
  BY <1>3 DEF AnsweredInTurn
<1> QED
  BY <1>1, <1>4 DEF Init, InTurn, ChoicesInOrder, OneChoiceEach, TakenInTurn

\* What an answer sends: a choice for each request it answers, in the order of the
\* places they name.
LEMMA ChoicesSent ==
  ASSUME TypeOK, NEW requests \in SUBSET ChildRequest,
         NEW given \in SUBSET {r.node : r \in requests},
         Choose(requests, given)
  PROVE  /\ Len(copy) <= Len(copy') /\ Len(copy) \in Nat /\ Len(copy') \in Nat
         /\ \E choices \in Seq(ChildChoiceMessage) :
              /\ sent' = sent \o choices
              /\ \A k \in DOMAIN choices :
                   /\ choices[k].goal_id = "this" /\ AskedFor(choices[k]) \in requests
                   /\ Len(copy) + 1 <= choices[k].first_node_index
                   /\ choices[k].first_node_index <= Len(copy') + 1
              /\ \A i, j \in DOMAIN choices :
                   /\ i < j => choices[i].first_node_index <= choices[j].first_node_index
                   /\ choices[i].node_index = choices[j].node_index => i = j
<1> DEFINE nodes == {r.node : r \in requests}
           countOf(n) == (CHOOSE r \in requests : r.node = n).child_count
           child(n) == [goal |-> "this", node |-> n, child_count |-> countOf(n)]
<1>1. /\ nodes \subseteq Node /\ nodes \subseteq Nat /\ IsFiniteSet(nodes)
      /\ given \subseteq nodes /\ IsFiniteSet(given)
  <2>1. nodes \subseteq Node
    BY DEF ChildRequest
  <2> QED
    BY <2>1, NodeAssumption, FS_Subset
<1>2. ASSUME NEW n \in nodes
      PROVE  /\ countOf(n) \in Nat /\ n \in Node
             /\ [node |-> n, child_count |-> countOf(n)] \in requests
  <2> DEFINE r == CHOOSE r \in requests : r.node = n
  <2>1. r \in requests /\ r.node = n
    OBVIOUS
  <2> HIDE DEF r
  <2>2. r = [node |-> r.node, child_count |-> r.child_count] /\ r.child_count \in Nat
        /\ r.node \in Node
    BY <2>1 DEF ChildRequest
  <2> QED
    BY <2>1, <2>2 DEF r
<1>3. Cardinality(nodes) \in Nat /\ Cardinality(given) \in Nat
  BY <1>1, FS_CardinalityType
<1> DEFINE before(n, added) == {i \in DOMAIN added : added[i] < n}
           place(n, added) == FirstNodeIndex(Cardinality(before(n, added)))
           choice(n, added) ==
             [goal_id |-> "this", node_index |-> n, child_count |-> countOf(n),
              first_node_index |-> place(n, added),
              has_child |-> n \notin copyOut']
<1>4. PICK order \in [1..Cardinality(nodes) -> nodes],
           added \in [1..Cardinality(given) -> given] :
        /\ InOrder(order, nodes)
        /\ copy' = copy \o [i \in DOMAIN added |-> child(added[i])]
        /\ sent' = sent \o [k \in DOMAIN order |-> choice(order[k], added)]
  BY DEF Choose
<1>5. /\ Len(copy) \in Nat /\ copy \in Seq(Child)
      /\ Len(copy') = Len(copy) + Cardinality(given)
  <2> DEFINE new == [i \in DOMAIN added |-> child(added[i])]
  <2>1. new \in Seq(Child) /\ Len(new) = Cardinality(given)
    <3>1. \A i \in DOMAIN added : child(added[i]) \in Child
      <4> HIDE DEF countOf
      <4> QED BY <1>1, <1>2 DEF Child, Goal
    <3> HIDE DEF child
    <3> QED BY <1>3, <3>1
  <2> HIDE DEF new
  <2>2. copy' = copy \o new
    BY <1>4 DEF new
  <2> QED BY <2>1, <2>2 DEF TypeOK
<1>6. ASSUME NEW n \in nodes
      PROVE  /\ IsFiniteSet(before(n, added))
             /\ Cardinality(before(n, added)) \in 0..Cardinality(given)
  <2>1. PICK size \in Nat : size = Cardinality(given)
    BY <1>3
  <2>2. IsFiniteSet(1..size) /\ Cardinality(1..size) = size
    BY <2>1, FS_Interval
  <2>3. before(n, added) \subseteq 1..size
    BY <2>1
  <2> HIDE DEF before
  <2> QED BY <2>1, <2>2, <2>3, FS_Subset, FS_CardinalityType
<1> DEFINE choices == [k \in 1..Cardinality(nodes) |-> choice(order[k], added)]
<1>7. \A k \in 1..Cardinality(nodes) : order[k] \in nodes /\ choices[k] = choice(order[k], added)
  OBVIOUS
<1>8. ASSUME NEW k \in 1..Cardinality(nodes)
      PROVE  /\ choices[k] \in ChildChoiceMessage
             /\ choices[k].goal_id = "this" /\ AskedFor(choices[k]) \in requests
             /\ choices[k].node_index = order[k]
             /\ choices[k].first_node_index = Len(copy) + Cardinality(before(order[k], added)) + 1
             /\ Len(copy) + 1 <= choices[k].first_node_index
             /\ choices[k].first_node_index <= Len(copy') + 1
  <2>1. choices[k] = choice(order[k], added) /\ order[k] \in nodes
    BY <1>7
  <2>2. Cardinality(before(order[k], added)) \in 0..Cardinality(given)
    BY <1>6, <2>1
  <2> HIDE DEF countOf, before, choices
  <2>3. place(order[k], added) = Len(copy) + Cardinality(before(order[k], added)) + 1
    BY DEF FirstNodeIndex
  <2>5. place(order[k], added) \in Nat \ {0}
    BY <1>3, <1>5, <2>2, <2>3
  <2> HIDE DEF place
  <2>4. choices[k] \in ChildChoiceMessage
    <3>1. order[k] \in Node /\ countOf(order[k]) \in Nat
      BY <1>2, <2>1
    <3>2. choice(order[k], added) \in ChildChoiceMessage
      BY <2>5, <3>1 DEF ChildChoiceMessage, Goal
    <3> QED BY <2>1, <3>2
  <2> QED BY <1>2, <1>3, <1>5, <2>1, <2>2, <2>3, <2>4 DEF AskedFor
<1>9. ASSUME NEW i \in 1..Cardinality(nodes), NEW j \in 1..Cardinality(nodes)
      PROVE  /\ i < j => choices[i].first_node_index <= choices[j].first_node_index
             /\ choices[i].node_index = choices[j].node_index => i = j
  <2>1. i < j => order[i] < order[j]
    BY <1>4 DEF InOrder
  <2>2. ASSUME i < j
        PROVE  Cardinality(before(order[i], added)) <= Cardinality(before(order[j], added))
    <3>1. before(order[i], added) \subseteq before(order[j], added)
      <4> SUFFICES ASSUME NEW k \in DOMAIN added, added[k] < order[i]
                   PROVE  added[k] < order[j]
        OBVIOUS
      <4>1. added[k] \in Nat /\ order[i] \in Nat /\ order[j] \in Nat
        BY <1>1
      <4>2. order[i] < order[j]
        BY <2>1, <2>2
      <4> HIDE DEF choices
      <4> QED BY <4>1, <4>2
    <3>2. IsFiniteSet(before(order[j], added))
      BY <1>6, <1>7
    <3> HIDE DEF before
    <3> QED BY <3>1, <3>2, FS_Subset
  <2>3. order[i] = order[j] => i = j
    BY <1>4 DEF InOrder, Bijection, Injection, IsInjective
  <2>4. /\ Cardinality(before(order[i], added)) \in Nat
        /\ Cardinality(before(order[j], added)) \in Nat
    <3>1. order[i] \in nodes /\ order[j] \in nodes
      BY <1>7
    <3> HIDE DEF before, choices, nodes
    <3> QED BY <1>3, <1>6, <3>1
  <2> HIDE DEF before, choices
  <2> QED BY <1>5, <1>8, <2>2, <2>3, <2>4
<1>10. DOMAIN choices = 1..Cardinality(nodes) /\ sent' = sent \o choices
  BY <1>4
<1> HIDE DEF choices, before, countOf
<1>11. choices \in Seq(ChildChoiceMessage)
  <2>1. choices = [k \in 1..Cardinality(nodes) |-> choices[k]]
    BY DEF choices
  <2>2. choices \in [1..Cardinality(nodes) -> ChildChoiceMessage]
    BY <1>8, <2>1
  <2> QED BY <1>3, <2>2, ListingIsSequence
<1>12. Len(copy) <= Len(copy') /\ Len(copy') \in Nat
  BY <1>3, <1>5
<1>13. \A k \in DOMAIN choices :
         /\ choices[k].goal_id = "this" /\ AskedFor(choices[k]) \in requests
         /\ Len(copy) + 1 <= choices[k].first_node_index
         /\ choices[k].first_node_index <= Len(copy') + 1
  BY <1>8, <1>10
<1>14. \A i, j \in DOMAIN choices :
         /\ i < j => choices[i].first_node_index <= choices[j].first_node_index
         /\ choices[i].node_index = choices[j].node_index => i = j
  BY <1>9, <1>10
<1> QED
  BY <1>5, <1>10, <1>11, <1>12, <1>13, <1>14

LEMMA MessageOfThisGoal ==
  ASSUME TypeOK, NEW n \in Node, OfThisGoal(n)
  PROVE  received[n] # NoMessage /\ received[n] \in ChildChoiceMessage
<1>1. NoMessage.goal_id # "this"
  BY DEF NoMessage
<1> QED BY <1>1 DEF OfThisGoal, TypeOK

\* A child joins below one node; the others have as many as before.
LEMMA ChildrenCounted ==
  ASSUME TypeOK, NEW n \in Node, NEW chosen \in Child, chosen.node = n,
         children' = Append(children, chosen)
  PROVE  /\ ChildCount(n)' = ChildCount(n) + 1
         /\ \A m \in Node \ {n} : ChildCount(m)' = ChildCount(m)
<1>1. /\ children \in Seq(Child) /\ Len(children) \in Nat
      /\ DOMAIN children = 1..Len(children)
      /\ DOMAIN children' = 1..(Len(children) + 1)
      /\ children'[Len(children) + 1] = chosen
      /\ \A i \in 1..Len(children) : children'[i] = children[i]
  BY DEF TypeOK
<1>2. ChildrenOf(n, children') = ChildrenOf(n, children) \union {Len(children) + 1}
  BY <1>1 DEF ChildrenOf
<1>3. \A m \in Node \ {n} : ChildrenOf(m, children') = ChildrenOf(m, children)
  BY <1>1 DEF ChildrenOf
<1>4. IsFiniteSet(ChildrenOf(n, children)) /\ Len(children) + 1 \notin ChildrenOf(n, children)
  <2>1. IsFiniteSet(1..Len(children))
    BY <1>1, FS_Interval
  <2> QED BY <1>1, <2>1, FS_Subset DEF ChildrenOf
<1>5. Cardinality(ChildrenOf(n, children')) = Cardinality(ChildrenOf(n, children)) + 1
  BY <1>2, <1>4, FS_AddElement, ZenonT(60)
<1> QED BY <1>3, <1>5 DEF ChildCount, ChildrenOf

\* A request that was not answered yet is for a node no choice is on its way to.
LEMMA UnansweredRequest ==
  ASSUME TypeOK, AnsweredOnce, InTurn, NEW i \in DOMAIN feedback,
         NEW r \in feedback[i].waiting_for_child, r \notin answered
  PROVE  /\ r \in ChildRequest
         /\ r.child_count = ChildCount(r.node)
         /\ \A m \in ChildChoiceMessage : m.node_index = r.node => ~ IsCurrent(m, answered, children)
         /\ r.node \notin taking
<1>1. r \in ChildRequest
  <2>1. feedback[i] \in Feedback
    BY DEF TypeOK
  <2> QED BY <2>1 DEF Feedback
<1>2. /\ r.node \in Node /\ r.child_count \in Nat
      /\ r = [node |-> r.node, child_count |-> r.child_count]
  BY <1>1 DEF ChildRequest
<1>3. ChildCount(r.node) \in Nat
  BY <1>2, CountIsNatural
<1>4. r.child_count <= ChildCount(r.node)
  BY DEF AnsweredOnce, AsksForTheNext
<1>5. ~ (r.child_count \in 0..(ChildCount(r.node) - 1))
  BY <1>2 DEF InTurn, AnsweredInTurn
<1>6. r.child_count = ChildCount(r.node)
  BY <1>2, <1>3, <1>4, <1>5
<1>7. r = [node |-> r.node, child_count |-> ChildCount(r.node)]
  BY <1>2, <1>6
<1>8. \A m \in ChildChoiceMessage : m.node_index = r.node => ~ IsCurrent(m, answered, children)
  BY <1>7 DEF IsCurrent, AskedFor, ChildCount
<1>9. r.node \notin taking
  BY <1>2, <1>7 DEF InTurn, TakenInTurn
<1> QED BY <1>1, <1>6, <1>8, <1>9

\* The steps that leave the copy, the children, the answers and what is taken alone, and
\* drop choices at most.
LEMMA Quiet_InTurn ==
  ASSUME TypeOK, InTurn,
         UNCHANGED <<children, copy, answered>>,
         sent' \in {sent, <<>>},
         \A n \in Node : received'[n] \in {received[n], NoMessage},
         taking' = {} \/ UNCHANGED <<taking, phase, life, sent, received>>
  PROVE  InTurn'
<1>1. NoMessage.goal_id # "this"
  BY DEF NoMessage
<1>2. \A n \in Node : OfThisGoal(n)' => OfThisGoal(n) /\ received'[n] = received[n]
  BY <1>1 DEF OfThisGoal
<1>3. \A n \in Node : ChildCount(n)' = ChildCount(n)
  BY DEF ChildCount, ChildrenOf
<1>4. ChoicesInOrder'
  BY <1>2 DEF InTurn, ChoicesInOrder
<1>5. AnsweredInTurn'
  BY <1>3 DEF InTurn, AnsweredInTurn
<1>6. OneChoiceEach'
  <2>1. \A i \in DOMAIN sent' : sent'[i] = sent[i] /\ i \in DOMAIN sent
    OBVIOUS
  <2> QED BY <1>2, <2>1 DEF InTurn, OneChoiceEach
<1>7. TakenInTurn'
  <2>1. CASE taking' = {}
    BY <2>1 DEF TakenInTurn
  <2>2. CASE UNCHANGED <<taking, phase, life, sent, received>>
    <3>1. taking \subseteq Node
      BY DEF TypeOK
    <3> QED BY <1>2, <1>3, <2>2, <3>1 DEF InTurn, TakenInTurn, OfThisGoal
  <2> QED BY <2>1, <2>2
<1> QED BY <1>4, <1>5, <1>6, <1>7 DEF InTurn

LEMMA HasChoice_InTurn ==
  ASSUME ChoiceInv, InTurn, NEW n \in Node, HasChoiceFor(n)
  PROVE  InTurn'
<1>1. /\ UNCHANGED <<children, copy, answered, sent, life, phase>>
      /\ phase = "choosing" /\ taking = {}
      /\ \A m \in Node : m # n => received'[m] = received[m]
      /\ received'[n] \in {received[n], NoMessage}
      /\ received[n] # NoMessage /\ received[n].goal_id # "this" => received'[n] = NoMessage
      /\ taking' = IF MayBeTaken(received'[n]) THEN {n} ELSE {}
  BY DEF HasChoiceFor, chart, client, ChoiceInv, TypeOK
<1>2. \A m \in Node : ChildCount(m)' = ChildCount(m)
  BY <1>1 DEF ChildCount, ChildrenOf
<1>3. NoMessage.goal_id # "this"
  BY DEF NoMessage
<1>4. \A m \in Node : OfThisGoal(m)' => OfThisGoal(m) /\ received'[m] = received[m]
  BY <1>1, <1>3 DEF OfThisGoal
<1>5. ChoicesInOrder'
  BY <1>1, <1>4 DEF InTurn, ChoicesInOrder
<1>6. AnsweredInTurn'
  BY <1>1, <1>2 DEF InTurn, AnsweredInTurn
<1>7. OneChoiceEach'
  BY <1>1, <1>4 DEF InTurn, OneChoiceEach
<1>8. TakenInTurn'
  <2> SUFFICES ASSUME MayBeTaken(received'[n])
               PROVE  /\ [node |-> n, child_count |-> ChildCount(n)] \in answered
                      /\ \A i \in DOMAIN sent : sent[i].node_index # n
                      /\ \A m \in Node : ~ LeftBehind(received'[m], received'[n], life)
    BY <1>1, <1>2 DEF TakenInTurn
  <2>1. /\ received'[n] = received[n] /\ received[n] # NoMessage
        /\ OfThisGoal(n) /\ received[n] \in ChildChoiceMessage
        /\ received[n].node_index = n
    BY <1>1 DEF MayBeTaken, OfThisGoal, ChoiceInv, ChoicesArePlaced, TypeOK
  <2>2. [node |-> n, child_count |-> ChildCount(n)] \in answered
    BY <2>1 DEF InTurn, OneChoiceEach, IsCurrent, AskedFor, ChildCount
  <2>3. \A i \in DOMAIN sent : sent[i].node_index # n
    BY <2>1 DEF InTurn, OneChoiceEach
  <2>4. ASSUME NEW m \in Node, LeftBehind(received'[m], received'[n], life) PROVE FALSE
    <3>1. /\ received'[m] # NoMessage /\ received'[m].goal_id = "this"
          /\ received'[m].first_node_index < received'[n].first_node_index
          /\ life[received'[m].node_index] \in ActiveStates
      BY <2>4 DEF LeftBehind
    <3>2. received'[m] = received[m]
      BY <1>4, <3>1 DEF OfThisGoal
    <3>3. received[m].node_index = m
      BY <3>1, <3>2 DEF ChoiceInv, ChoicesArePlaced
    <3> QED
      BY <2>1, <3>1, <3>2, <3>3
         DEF MayBeTaken, IsMadeAfterAChoiceStillToTake, OfThisGoal
  <2> QED BY <2>2, <2>3, <2>4
<1> QED BY <1>5, <1>6, <1>7, <1>8 DEF InTurn

LEMMA ChooseChild_InTurn ==
  ASSUME ChoiceInv, InTurn, NEW n \in Node, ChooseChild(n)
  PROVE  InTurn'
<1>1. /\ UNCHANGED <<copy, answered, sent>>
      /\ taking = {n} /\ taking' = {}
      /\ \A m \in Node : m # n => received'[m] = received[m]
      /\ received'[n] = NoMessage
      /\ received[n] \in ChildChoiceMessage
  BY DEF ChooseChild, client, ChoiceInv, TypeOK, TakesWhatIsThere
<1>2. \/ \A m \in Node : ChildCount(m)' = ChildCount(m)
      \/ /\ ChildCount(n)' = ChildCount(n) + 1
         /\ \A m \in Node \ {n} : ChildCount(m)' = ChildCount(m)
  <2>1. CASE received[n].has_child
    <3> DEFINE chosen == [goal |-> received[n].goal_id, node |-> n,
                          child_count |-> received[n].child_count]
    <3>1. children' = Append(children, chosen)
      BY <2>1 DEF ChooseChild, AdoptChosenChild
    <3>2. chosen \in Child /\ chosen.node = n
      BY <1>1 DEF ChildChoiceMessage, Child
    <3> HIDE DEF chosen
    <3> QED BY <3>1, <3>2, ChildrenCounted DEF ChoiceInv
  <2>2. CASE ~ received[n].has_child
    <3>1. children' = children
      BY <2>2 DEF ChooseChild, GiveUp
    <3> QED BY <3>1 DEF ChildCount, ChildrenOf
  <2> QED BY <2>1, <2>2
<1>3. NoMessage.goal_id # "this"
  BY DEF NoMessage
<1>4. \A m \in Node : OfThisGoal(m)' => m # n /\ OfThisGoal(m) /\ received'[m] = received[m]
  BY <1>1, <1>3 DEF OfThisGoal
<1>5. ChoicesInOrder'
  BY <1>1, <1>4 DEF InTurn, ChoicesInOrder
<1>6. AnsweredInTurn'
  <2>1. \A m \in Node : ChildCount(m) \in Nat
    BY CountIsNatural DEF ChoiceInv
  <2>2. [node |-> n, child_count |-> ChildCount(n)] \in answered
    BY <1>1 DEF InTurn, TakenInTurn
  <2> SUFFICES ASSUME NEW m \in Node, NEW count \in 0..(ChildCount(m)' - 1)
               PROVE  [node |-> m, child_count |-> count] \in answered
    BY <1>1 DEF AnsweredInTurn
  <2>3. \/ count \in 0..(ChildCount(m) - 1)
        \/ m = n /\ count = ChildCount(n)
    BY <1>2, <2>1
  <2> QED BY <2>2, <2>3 DEF InTurn, AnsweredInTurn
<1>7. OneChoiceEach'
  <2>1. ASSUME NEW m \in ChildChoiceMessage, m.node_index # n, IsCurrent(m, answered, children)
        PROVE  IsCurrent(m, answered', children')
    <3>1. m.node_index \in Node \ {n}
      BY <2>1 DEF ChildChoiceMessage
    <3>2. Cardinality(ChildrenOf(m.node_index, children')) =
            Cardinality(ChildrenOf(m.node_index, children))
      BY <1>2, <3>1 DEF ChildCount, ChildrenOf
    <3> QED BY <1>1, <2>1, <3>2 DEF IsCurrent
  <2>2. \A i \in DOMAIN sent : IsCurrent(sent[i], answered', children')
    <3>1. \A i \in DOMAIN sent : sent[i].node_index # n /\ sent[i] \in ChildChoiceMessage
      BY <1>1 DEF InTurn, TakenInTurn, ChoiceInv, TypeOK
    <3> QED BY <2>1, <3>1 DEF InTurn, OneChoiceEach
  <2>3. \A m \in Node : OfThisGoal(m)' => IsCurrent(received'[m], answered', children')
    <3>1. \A m \in Node : OfThisGoal(m)' =>
             received[m] \in ChildChoiceMessage /\ received[m].node_index # n
      BY <1>4, MessageOfThisGoal DEF ChoiceInv, ChoicesArePlaced
    <3> QED BY <1>4, <2>1, <3>1 DEF InTurn, OneChoiceEach
  <2> QED BY <1>1, <1>4, <2>2, <2>3 DEF InTurn, OneChoiceEach
<1>8. TakenInTurn'
  BY <1>1 DEF TakenInTurn
<1> QED BY <1>5, <1>6, <1>7, <1>8 DEF InTurn

\* What is received was sent before all that is still on its way, to a node that has no
\* other choice of the goal.
LEMMA Receive_InTurn ==
  ASSUME ChoiceInv, InTurn, Receive
  PROVE  InTurn'
<1>1. PICK message \in ChildChoiceMessage : message = sent[1]
  BY DEF Receive, ChoiceInv, TypeOK
<1>2. PICK n \in Node : n = message.node_index
  BY DEF ChildChoiceMessage
<1>3. /\ UNCHANGED <<children, copy, answered, life, phase, taking>>
      /\ sent \in Seq(ChildChoiceMessage) /\ sent # <<>> /\ 1 \in DOMAIN sent
      /\ sent' = Tail(sent) /\ received' = [received EXCEPT ![n] = message]
  <2>1. sent \in Seq(ChildChoiceMessage) /\ sent # <<>>
    BY DEF Receive, ChoiceInv, TypeOK
  <2>2. 1 \in DOMAIN sent /\ Head(sent) = message
    BY <1>1, <2>1
  <2> QED BY <1>2, <2>1, <2>2 DEF Receive, chart, tick, client
<1>4. \A i \in DOMAIN sent' : i + 1 \in DOMAIN sent /\ 1 < i + 1 /\ sent'[i] = sent[i + 1]
  BY <1>3
<1>5. received'[n] = message /\ \A m \in Node : m # n => received'[m] = received[m]
  BY <1>3 DEF ChoiceInv, TypeOK
<1>6. \A m \in Node : ChildCount(m)' = ChildCount(m)
  BY <1>3 DEF ChildCount, ChildrenOf
<1>7. \A i, j \in DOMAIN sent' : i \in Int /\ j \in Int
  BY <1>3
<1>8. ChoicesInOrder'
  <2>1. \A i \in DOMAIN sent' :
           sent'[i].goal_id = "this" /\ sent'[i].first_node_index <= Len(copy) + 1
    BY <1>4 DEF InTurn, ChoicesInOrder
  <2>2. \A i, j \in DOMAIN sent' :
           i < j => sent'[i].first_node_index <= sent'[j].first_node_index
    BY <1>4, <1>7 DEF InTurn, ChoicesInOrder
  <2>3. \A i \in DOMAIN sent' : message.first_node_index <= sent'[i].first_node_index
    BY <1>1, <1>3, <1>4 DEF InTurn, ChoicesInOrder
  <2>4. message.first_node_index <= Len(copy) + 1
    BY <1>1, <1>3 DEF InTurn, ChoicesInOrder
  <2>5. \A m \in Node : m # n /\ OfThisGoal(m)' =>
          /\ received[m].first_node_index <= Len(copy) + 1
          /\ \A i \in DOMAIN sent' : received[m].first_node_index <= sent'[i].first_node_index
    BY <1>4, <1>5 DEF InTurn, ChoicesInOrder, OfThisGoal
  <2> QED BY <1>3, <1>5, <2>1, <2>2, <2>3, <2>4, <2>5 DEF ChoicesInOrder
<1>9. AnsweredInTurn'
  BY <1>3, <1>6 DEF InTurn, AnsweredInTurn
<1>10. \A i \in DOMAIN sent' : sent'[i].node_index # n
  BY <1>1, <1>2, <1>3, <1>4 DEF InTurn, OneChoiceEach
<1>11. OneChoiceEach'
  <2>1. \A i \in DOMAIN sent' : IsCurrent(sent'[i], answered', children')
    BY <1>3, <1>4 DEF InTurn, OneChoiceEach
  <2>2. IsCurrent(message, answered', children')
    BY <1>1, <1>3 DEF InTurn, OneChoiceEach
  <2>3. ASSUME NEW m \in Node, m # n, OfThisGoal(m)'
        PROVE  /\ IsCurrent(received'[m], answered', children')
               /\ \A i \in DOMAIN sent' : sent'[i].node_index # m
    <3>1. OfThisGoal(m) /\ received'[m] = received[m]
      BY <1>5, <2>3 DEF OfThisGoal
    <3> QED BY <1>3, <1>4, <3>1 DEF InTurn, OneChoiceEach
  <2>4. \A i, j \in DOMAIN sent' : sent'[i].node_index = sent'[j].node_index => i = j
    <3>1. \A i, j \in DOMAIN sent' : i + 1 = j + 1 => i = j
      BY <1>7
    <3> QED BY <1>4, <3>1 DEF InTurn, OneChoiceEach
  <2> QED BY <1>5, <1>10, <2>1, <2>2, <2>3, <2>4 DEF OneChoiceEach
<1>12. TakenInTurn'
  <2> SUFFICES ASSUME NEW t \in taking
               PROVE  /\ taking = {t} /\ phase = "choosing"
                      /\ [node |-> t, child_count |-> ChildCount(t)] \in answered
                      /\ \A i \in DOMAIN sent' : sent'[i].node_index # t
                      /\ OfThisGoal(t)' =>
                           \A m \in Node : ~ LeftBehind(received'[m], received'[t], life)
    BY <1>3, <1>6 DEF TakenInTurn, ChoiceInv, TypeOK
  <2>1. t \in Node /\ t # n
    BY <1>1, <1>2, <1>3 DEF InTurn, TakenInTurn, ChoiceInv, TypeOK
  <2>2. /\ taking = {t} /\ phase = "choosing"
        /\ [node |-> t, child_count |-> ChildCount(t)] \in answered
        /\ \A i \in DOMAIN sent' : sent'[i].node_index # t
    BY <1>4 DEF InTurn, TakenInTurn
  <2>3. ASSUME OfThisGoal(t)', NEW m \in Node
        PROVE  ~ LeftBehind(received'[m], received'[t], life)
    <3>1. OfThisGoal(t) /\ received'[t] = received[t]
      BY <1>5, <2>1, <2>3 DEF OfThisGoal
    <3>2. CASE m = n
      <4>1. received[t].first_node_index <= message.first_node_index
        BY <1>1, <1>3, <2>1, <3>1 DEF InTurn, ChoicesInOrder
      <4>2. received[t] \in ChildChoiceMessage
        BY <2>1, <3>1, MessageOfThisGoal DEF ChoiceInv
      <4>3. received[t].first_node_index \in Nat /\ message.first_node_index \in Nat
        BY <4>2 DEF ChildChoiceMessage
      <4> QED BY <1>5, <3>1, <3>2, <4>1, <4>3 DEF LeftBehind
    <3>3. CASE m # n
      BY <1>5, <2>1, <3>1, <3>3 DEF InTurn, TakenInTurn
    <3> QED BY <3>2, <3>3
  <2> QED BY <2>2, <2>3
<1> QED BY <1>8, <1>9, <1>11, <1>12 DEF InTurn

\* A choice for a superseded goal only takes the place of another one.
LEMMA ReceiveLate_InTurn ==
  ASSUME ChoiceInv, InTurn, NEW n \in Node, ReceiveLate(n)
  PROVE  InTurn'
<1>1. /\ UNCHANGED <<children, copy, answered, life, phase, taking, sent>>
      /\ received'[n].goal_id = "superseded"
      /\ \A m \in Node : m # n => received'[m] = received[m]
  BY DEF ReceiveLate, chart, tick, client, ChoiceInv, TypeOK
<1>2. \A m \in Node : OfThisGoal(m)' => m # n /\ OfThisGoal(m) /\ received'[m] = received[m]
  BY <1>1 DEF OfThisGoal
<1>3. \A m \in Node : ChildCount(m)' = ChildCount(m)
  BY <1>1 DEF ChildCount, ChildrenOf
<1>4. ChoicesInOrder' /\ AnsweredInTurn' /\ OneChoiceEach'
  <2>1. ChoicesInOrder'
    BY <1>1, <1>2 DEF InTurn, ChoicesInOrder
  <2>2. AnsweredInTurn'
    BY <1>1, <1>3 DEF InTurn, AnsweredInTurn
  <2>3. OneChoiceEach'
    BY <1>1, <1>2 DEF InTurn, OneChoiceEach
  <2> QED BY <2>1, <2>2, <2>3
<1>5. TakenInTurn'
  <2>1. ASSUME NEW t \in taking, OfThisGoal(t)', NEW m \in Node
        PROVE  ~ LeftBehind(received'[m], received'[t], life)
    <3>1. t \in Node /\ OfThisGoal(t) /\ received'[t] = received[t]
      BY <1>2, <2>1 DEF ChoiceInv, TypeOK
    <3>2. CASE m = n
      BY <1>1, <3>2 DEF LeftBehind
    <3>3. CASE m # n
      BY <1>1, <3>1, <3>3 DEF InTurn, TakenInTurn
    <3> QED BY <3>2, <3>3
  <2> QED BY <1>1, <1>3, <2>1 DEF InTurn, TakenInTurn, ChoiceInv, TypeOK
<1> QED BY <1>4, <1>5 DEF InTurn

\* The client answers what it did not answer before, with choices that come after all it
\* made so far.
LEMMA Answer_InTurn ==
  ASSUME ChoiceInv, AnsweredOnce, InTurn, AnswerSome
  PROVE  InTurn'
<1>1. PICK ready \in SUBSET OpenRequests : feedback # <<>> /\ Answer(ready)
  BY DEF AnswerSome
<1>2. 1 \in DOMAIN feedback /\ Head(feedback) = feedback[1] /\ feedback[1] \in Feedback
  BY <1>1 DEF ChoiceInv, TypeOK
<1>3. \A r \in ready : r \in feedback[1].waiting_for_child /\ r \notin answered
  BY <1>1, <1>2 DEF OpenRequests
<1>4. \A r \in ready :
        /\ r \in ChildRequest
        /\ r.child_count = ChildCount(r.node)
        /\ \A m \in ChildChoiceMessage : m.node_index = r.node => ~ IsCurrent(m, answered, children)
        /\ r.node \notin taking
  BY <1>2, <1>3, UnansweredRequest DEF ChoiceInv
<1>5. ready \in SUBSET ChildRequest
  BY <1>4
<1>6. PICK given \in SUBSET {r.node : r \in ready} : Choose(ready, given)
  BY <1>1 DEF Answer
<1>7. Len(copy) <= Len(copy') /\ Len(copy) \in Nat /\ Len(copy') \in Nat
  BY <1>5, <1>6, ChoicesSent DEF ChoiceInv
<1>8. PICK choices \in Seq(ChildChoiceMessage) :
        /\ sent' = sent \o choices
        /\ \A k \in DOMAIN choices :
             /\ choices[k].goal_id = "this" /\ AskedFor(choices[k]) \in ready
             /\ Len(copy) + 1 <= choices[k].first_node_index
             /\ choices[k].first_node_index <= Len(copy') + 1
        /\ \A i, j \in DOMAIN choices :
             /\ i < j => choices[i].first_node_index <= choices[j].first_node_index
             /\ choices[i].node_index = choices[j].node_index => i = j
  BY <1>5, <1>6, ChoicesSent DEF ChoiceInv
<1>9. /\ UNCHANGED <<children, life, phase, taking, received>>
      /\ answered' = answered \union ready
  BY <1>1 DEF Answer, Answered, chart, tick
<1>10. /\ sent \in Seq(ChildChoiceMessage) /\ Len(sent) \in Nat /\ Len(choices) \in Nat
       /\ DOMAIN sent = 1..Len(sent) /\ DOMAIN choices = 1..Len(choices)
       /\ DOMAIN sent' = 1..(Len(sent) + Len(choices))
       /\ \A i \in DOMAIN sent : sent'[i] = sent[i]
       /\ \A i \in DOMAIN choices : sent'[Len(sent) + i] = choices[i]
  BY <1>8 DEF ChoiceInv, TypeOK
<1>11. \A i \in DOMAIN sent' :
         \/ i \in DOMAIN sent /\ sent'[i] = sent[i]
         \/ i - Len(sent) \in DOMAIN choices /\ sent'[i] = choices[i - Len(sent)]
            /\ i > Len(sent)
  BY <1>8, <1>10
<1>12. /\ \A i \in DOMAIN sent : sent[i] \in ChildChoiceMessage
       /\ \A i \in DOMAIN choices : choices[i] \in ChildChoiceMessage
       /\ \A m \in ChildChoiceMessage :
            m.first_node_index \in Nat /\ m.child_count \in Nat /\ m.node_index \in Node
  <2>1. \A i \in DOMAIN sent : sent[i] \in ChildChoiceMessage
    <3>1. sent \in Seq(ChildChoiceMessage)
      BY DEF ChoiceInv, TypeOK
    <3> QED
      BY <3>1
  <2>2. \A i \in DOMAIN choices : choices[i] \in ChildChoiceMessage
    BY <1>8
  <2>3. ASSUME NEW m \in ChildChoiceMessage
        PROVE  m.first_node_index \in Nat /\ m.child_count \in Nat /\ m.node_index \in Node
    BY <2>3 DEF ChildChoiceMessage
  <2> QED
    BY <2>1, <2>2, <2>3
<1>13. \A n \in Node : OfThisGoal(n) => received[n] \in ChildChoiceMessage
  BY MessageOfThisGoal DEF ChoiceInv
<1>14. \A n \in Node : ChildCount(n)' = ChildCount(n)
  BY <1>9 DEF ChildCount, ChildrenOf
<1>15. \A n \in Node : OfThisGoal(n)' <=> OfThisGoal(n)
  BY <1>9 DEF OfThisGoal
<1>16. \A k \in DOMAIN choices :
         /\ choices[k].node_index \notin taking
         /\ \A m \in ChildChoiceMessage :
              m.node_index = choices[k].node_index => ~ IsCurrent(m, answered, children)
         /\ choices[k].child_count = ChildCount(choices[k].node_index)
         /\ AskedFor(choices[k]) \in answered'
  BY <1>4, <1>8, <1>9 DEF AskedFor
<1>17. ChoicesInOrder'
  <2>1. \A i \in DOMAIN sent : sent[i].first_node_index <= Len(copy) + 1
    BY DEF InTurn, ChoicesInOrder
  <2>2. ASSUME NEW i \in DOMAIN sent'
        PROVE  sent'[i].goal_id = "this" /\ sent'[i].first_node_index <= Len(copy') + 1
    <3>1. CASE i \in DOMAIN sent /\ sent'[i] = sent[i]
      BY <1>7, <1>12, <2>1, <3>1 DEF InTurn, ChoicesInOrder
    <3>2. CASE i - Len(sent) \in DOMAIN choices /\ sent'[i] = choices[i - Len(sent)]
      BY <1>8, <3>2
    <3> QED BY <1>11, <3>1, <3>2
  <2>3. ASSUME NEW i \in DOMAIN sent', NEW j \in DOMAIN sent', i < j
        PROVE  sent'[i].first_node_index <= sent'[j].first_node_index
    <3>1. CASE /\ i \in DOMAIN sent /\ sent'[i] = sent[i]
               /\ j \in DOMAIN sent /\ sent'[j] = sent[j]
      BY <2>3, <3>1 DEF InTurn, ChoicesInOrder
    <3>2. CASE /\ i \in DOMAIN sent /\ sent'[i] = sent[i]
               /\ j - Len(sent) \in DOMAIN choices /\ sent'[j] = choices[j - Len(sent)]
      <4>1. /\ sent'[i].first_node_index <= Len(copy) + 1
            /\ Len(copy) + 1 <= sent'[j].first_node_index
            /\ sent'[i].first_node_index \in Nat /\ sent'[j].first_node_index \in Nat
        BY <1>8, <1>12, <2>1, <3>2
      <4> QED BY <1>7, <4>1
    <3>3. CASE /\ i - Len(sent) \in DOMAIN choices /\ sent'[i] = choices[i - Len(sent)]
               /\ j - Len(sent) \in DOMAIN choices /\ sent'[j] = choices[j - Len(sent)]
      <4>1. i - Len(sent) < j - Len(sent)
        BY <1>10, <2>3
      <4> QED BY <1>8, <3>3, <4>1
    <3>4. i > Len(sent) => ~ (j \in DOMAIN sent)
      BY <1>10, <2>3
    <3> QED BY <1>11, <3>1, <3>2, <3>3, <3>4
  <2>4. ASSUME NEW n \in Node, OfThisGoal(n)
        PROVE  /\ received[n].first_node_index <= Len(copy') + 1
               /\ \A i \in DOMAIN sent' : received[n].first_node_index <= sent'[i].first_node_index
    <3>1. /\ received[n].first_node_index <= Len(copy) + 1
          /\ received[n].first_node_index \in Nat
      BY <1>12, <1>13, <2>4 DEF InTurn, ChoicesInOrder
    <3>2. \A i \in DOMAIN choices : received[n].first_node_index <= choices[i].first_node_index
      BY <1>7, <1>8, <1>12, <3>1
    <3>3. \A i \in DOMAIN sent : received[n].first_node_index <= sent[i].first_node_index
      BY <2>4 DEF InTurn, ChoicesInOrder
    <3> QED BY <1>7, <1>11, <3>1, <3>2, <3>3
  <2> QED BY <1>9, <1>15, <2>2, <2>3, <2>4 DEF ChoicesInOrder
<1>18. AnsweredInTurn'
  BY <1>9, <1>14 DEF InTurn, AnsweredInTurn
<1>19. OneChoiceEach'
  <2>1. \A m : IsCurrent(m, answered, children) => IsCurrent(m, answered', children')
    BY <1>9 DEF IsCurrent
  <2>2. \A k \in DOMAIN choices : IsCurrent(choices[k], answered', children')
    BY <1>9, <1>16 DEF IsCurrent, ChildCount
  <2>3. \A i \in DOMAIN sent : IsCurrent(sent[i], answered, children)
    BY DEF InTurn, OneChoiceEach
  <2>4. \A i \in DOMAIN sent' : IsCurrent(sent'[i], answered', children')
    BY <1>11, <2>1, <2>2, <2>3
  <2>5. \A n \in Node : OfThisGoal(n)' => IsCurrent(received'[n], answered', children')
    BY <1>9, <1>15, <2>1 DEF InTurn, OneChoiceEach
  <2>6. ASSUME NEW n \in Node, OfThisGoal(n), NEW i \in DOMAIN sent'
        PROVE  sent'[i].node_index # n
    <3>1. CASE i \in DOMAIN sent /\ sent'[i] = sent[i]
      BY <2>6, <3>1 DEF InTurn, OneChoiceEach
    <3>2. CASE i - Len(sent) \in DOMAIN choices /\ sent'[i] = choices[i - Len(sent)]
      <4>1. received[n].node_index = n /\ IsCurrent(received[n], answered, children)
        BY <1>13, <2>6, MessageOfThisGoal DEF InTurn, OneChoiceEach, ChoiceInv, ChoicesArePlaced
      <4> QED BY <1>13, <1>16, <2>6, <3>2, <4>1
    <3> QED BY <1>11, <3>1, <3>2
  <2>7. ASSUME NEW i \in DOMAIN sent, NEW k \in DOMAIN choices
        PROVE  sent[i].node_index # choices[k].node_index
    BY <1>12, <1>16, <2>3
  <2>8. ASSUME NEW i \in DOMAIN sent', NEW j \in DOMAIN sent',
               sent'[i].node_index = sent'[j].node_index
        PROVE  i = j
    <3>1. CASE /\ i \in DOMAIN sent /\ sent'[i] = sent[i]
               /\ j \in DOMAIN sent /\ sent'[j] = sent[j]
      BY <2>8, <3>1 DEF InTurn, OneChoiceEach
    <3>2. CASE /\ i - Len(sent) \in DOMAIN choices /\ sent'[i] = choices[i - Len(sent)]
               /\ j - Len(sent) \in DOMAIN choices /\ sent'[j] = choices[j - Len(sent)]
      <4>1. i - Len(sent) = j - Len(sent)
        BY <1>8, <2>8, <3>2
      <4> QED BY <1>10, <4>1
    <3> QED BY <1>11, <2>7, <2>8, <3>1, <3>2
  <2> QED BY <1>15, <2>4, <2>5, <2>6, <2>8 DEF OneChoiceEach
<1>20. TakenInTurn'
  <2> SUFFICES ASSUME NEW t \in taking
               PROVE  /\ taking = {t} /\ phase = "choosing"
                      /\ [node |-> t, child_count |-> ChildCount(t)] \in answered'
                      /\ \A i \in DOMAIN sent' : sent'[i].node_index # t
                      /\ OfThisGoal(t) => \A m \in Node : ~ LeftBehind(received[m], received[t], life)
    BY <1>9, <1>14, <1>15 DEF TakenInTurn, ChoiceInv, TypeOK
  <2>1. \A i \in DOMAIN sent : sent[i].node_index # t
    BY DEF InTurn, TakenInTurn
  <2>2. \A i \in DOMAIN sent' : sent'[i].node_index # t
    BY <1>11, <1>16, <2>1
  <2> QED BY <1>9, <2>2 DEF InTurn, TakenInTurn
<1> QED BY <1>17, <1>18, <1>19, <1>20 DEF InTurn

LEMMA InTurnNext ==
  ASSUME ChoiceInv, AnsweredOnce, InTurn, [Next]_vars
  PROVE  InTurn'
<1>1. ASSUME NEW n \in Node, HasChoiceFor(n) PROVE InTurn'
  BY <1>1, HasChoice_InTurn
<1>2. ASSUME NEW n \in Node, ChooseChild(n) PROVE InTurn'
  BY <1>2, ChooseChild_InTurn
<1>3. CASE Receive
  BY <1>3, Receive_InTurn
<1>4. ASSUME NEW n \in Node, ReceiveLate(n) PROVE InTurn'
  BY <1>4, ReceiveLate_InTurn
<1>5. CASE AnswerSome
  BY <1>5, Answer_InTurn
<1>6. CASE \/ Settle \/ NotHeldStill \/ EndCycle(TRUE) \/ EndCycle(FALSE) \/ FollowRaises
           \/ UNCHANGED vars
  <2>1. UNCHANGED <<children, copy, answered, sent, received, taking>>
    BY <1>6 DEF Settle, NotHeldStill, EndCycle, FollowRaises, vars, chart, tick, client
  <2>2. taking' = {} \/ UNCHANGED <<phase, life>>
    <3>1. Settle => taking = {}
      BY DEF Settle, InTurn, TakenInTurn
    <3> QED
      BY <1>6, <2>1, <3>1 DEF NotHeldStill, EndCycle, FollowRaises, vars, chart, tick
  <2> QED BY <2>1, <2>2, Quiet_InTurn DEF ChoiceInv
<1>7. ASSUME NEW n \in Node, ChooseChildRaises(n) PROVE InTurn'
  <2>1. /\ UNCHANGED <<children, copy, answered>> /\ sent' = <<>> /\ taking' = {}
        /\ \A m \in Node : received'[m] = NoMessage
    BY <1>7 DEF ChooseChildRaises, AbortGoal, chart, client
  <2> QED BY <2>1, Quiet_InTurn DEF ChoiceInv
<1> QED
  BY <1>1, <1>2, <1>3, <1>4, <1>5, <1>6, <1>7, NodeAssumption DEF Next, Tick

\* Whatever is late or superseded: a goal is never aborted as out of step over a choice
\* that would fit had the nodes been asked in another order, be it received or still on
\* its way (ChildSentByClient.has_choice_for).
THEOREM OnlyLostChoicesAbort == Spec => OutOfStepOnlyOverLostChoices
<1> DEFINE Step ==
      goal = "running" /\ goal' = "out_of_step" =>
       \A n \in taking :
         received[n].goal_id = "this" =>
           /\ \A m \in Node : ~ StillToTake(received[m], received[n])
           /\ \A i \in DOMAIN sent : ~ StillToTake(sent[i], received[n])
<1>1. ASSUME ChoiceInv, InTurn PROVE Step
  <2> SUFFICES ASSUME NEW n \in taking, received[n].goal_id = "this"
               PROVE  /\ \A m \in Node : ~ StillToTake(received[m], received[n])
                      /\ \A i \in DOMAIN sent : ~ StillToTake(sent[i], received[n])
    OBVIOUS
  <2>1. n \in Node /\ OfThisGoal(n)
    BY <1>1 DEF ChoiceInv, TypeOK, OfThisGoal
  <2>2. \A m \in Node : ~ StillToTake(received[m], received[n])
    BY <1>1, <2>1 DEF InTurn, TakenInTurn, LeftBehind, StillToTake
  <2>3. ASSUME NEW i \in DOMAIN sent PROVE ~ StillToTake(sent[i], received[n])
    <3>1. received[n].first_node_index <= sent[i].first_node_index
      BY <1>1, <2>1 DEF InTurn, ChoicesInOrder
    <3>2. received[n] \in ChildChoiceMessage /\ sent[i] \in ChildChoiceMessage
      BY <1>1, <2>1, MessageOfThisGoal DEF ChoiceInv, TypeOK
    <3>3. received[n].first_node_index \in Nat /\ sent[i].first_node_index \in Nat
      BY <3>2 DEF ChildChoiceMessage
    <3> QED BY <3>1, <3>3 DEF StillToTake
  <2> QED BY <2>2, <2>3
<1>2. ChoiceInv /\ InTurn /\ [Next]_vars => [Step]_vars
  BY <1>1
<1>3. AnsweredOnce /\ ChoiceInv /\ [Next]_vars => AnsweredOnce'
  BY AnsweredOnceNext DEF ChoiceInv
<1>4. ChoiceInv /\ AnsweredOnce /\ InTurn /\ [Next]_vars => InTurn'
  BY InTurnNext
<1> QED
  BY ChoiceInvHolds, AnsweredOnceInit, InTurnInit, <1>2, <1>3, <1>4, PTL
     DEF Spec, OutOfStepOnlyOverLostChoices
=============================================================================
