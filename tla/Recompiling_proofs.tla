------------------------- MODULE Recompiling_proofs --------------------------
(***************************************************************************)
(* What holds of a statechart that changes while its robot moves, for      *)
(* every set of nodes and every nesting of blocks.                         *)
(*                                                                         *)
(* First the control: compiling and choosing wait until the robot is at    *)
(* rest, and a robot that is waited for is held still.  None of it depends *)
(* on what the chart is changed to.                                        *)
(*                                                                         *)
(* Then the chart: it stays whole, and a block that is abandoned gives it  *)
(* back if the nodes it counts on are there.  Lists without some of their  *)
(* members; charts that are whole, and nodes that join, leave or are       *)
(* wrapped; putting back replaced nodes; what each method makes of a chart *)
(* (a ChartStep, or Wraps); what the open blocks rely on, which every      *)
(* method keeps: Sound as long as their nodes are there, and Standing for  *)
(* the nodes in front even if they are not; and at last the statechart     *)
(* between its steps (ChartInv).                                           *)
(***************************************************************************)
EXTENDS Recompiling, SequenceTheorems, WellFoundedInduction, TLAPS

Phases == {"between", "settling", "asking", "choosing", "callbacks", "recording", "over",
           "torn"}

ControlTypes ==
  /\ phase \in Phases
  /\ {isCompiled, changed, structureChanged, heldStill, holdingStill, moving}
       \subseteq BOOLEAN

\* Blocks are open where the statechart may change, and there only; the one the nodes
\* choose their child in stays open as long as they choose.
OpenBlocks ==
  /\ \E S : open \in Seq(S)
  /\ phase \in {"settling", "asking", "recording", "over"} => open = <<>>
  /\ phase = "choosing" => open # <<>>

\* Every callback has answered for the step in which nodes choose: the robot was at
\* rest when they started, and no step of it moves.
HeldWhileChoosing ==
  /\ heldStill <=> phase = "choosing"
  /\ heldStill => AtRest

\* What there is to wait for is waited for by holding still: nodes that could not
\* choose found the robot moving, ...
WaitingIsHeld ==
  /\ phase = "callbacks" /\ waiting # {} => ~ AtRest /\ holdingStill
  /\ phase = "recording" => holdingStill
\* ... and a change that was not compiled is waited for since its block ended.
  /\ isCompiled /\ phase \in {"settling", "asking"} => ~ changed
  /\ isCompiled /\ phase = "callbacks" /\ open = <<>> /\ changed => holdingStill

ControlInv == ControlTypes /\ OpenBlocks /\ HeldWhileChoosing /\ WaitingIsHeld
-----------------------------------------------------------------------------
\* What a step may do to the compiled statechart: leave it alone, compile it, which
\* needs a robot at rest, or wait.
LEMMA ExitCases ==
  ASSUME ControlInv, NEW hasChanged \in BOOLEAN, Exit(hasChanged)
  PROVE  \/ /\ isCompiled /\ AtRest /\ CanCompile(chart') /\ open' = <<>> /\ hasChanged
            /\ isCompiled' = TRUE /\ changed' = FALSE /\ structureChanged' = FALSE
            /\ holdingStill' = FALSE
         \/ /\ isCompiled /\ open' = <<>> /\ hasChanged
            /\ changed' = TRUE /\ holdingStill' = TRUE
            /\ UNCHANGED <<isCompiled, controlled, structureChanged>>
         \/ /\ ~ isCompiled \/ open' # <<>> \/ ~ hasChanged
            /\ changed' = hasChanged
            /\ UNCHANGED <<isCompiled, controlled, structureChanged, holdingStill>>
BY DEF Exit, CompileAgain, Compile, Wait, ControlInv, HeldWhileChoosing

LEMMA InitControl == Init => ControlInv
<1> SUFFICES ASSUME Init PROVE ControlInv
  OBVIOUS
<1>1. open = <<>> /\ <<>> \in Seq({})
  BY DEF Init
<1>2. OpenBlocks
  BY <1>1 DEF Init, OpenBlocks
<1>3. ControlTypes /\ HeldWhileChoosing /\ WaitingIsHeld
  BY DEF Init, ControlTypes, HeldWhileChoosing, WaitingIsHeld, Phases, AtRest
<1> QED BY <1>2, <1>3 DEF ControlInv

\* A method that changes the chart, and the end of a block, share how they compile.
LEMMA Exit_Control ==
  ASSUME ControlInv, NEW hasChanged \in BOOLEAN, Exit(hasChanged),
         phase \in {"between", "choosing", "callbacks"},
         UNCHANGED <<moving, waiting>>,
         \E S : open' \in Seq(S),
         phase' \in {phase, "over", "torn"},
         phase' = "over" => open' = <<>>,
         phase' = "choosing" => open' # <<>>,
         heldStill' = (heldStill /\ phase' \notin {"over", "torn"}),
         changed => hasChanged
  PROVE  ControlInv'
<1>1. ControlTypes'
  BY ExitCases DEF ControlInv, ControlTypes, Phases
<1>2. OpenBlocks'
  BY DEF ControlInv, OpenBlocks
<1>3. phase = "choosing" /\ open' # <<>> =>
        UNCHANGED <<isCompiled, controlled, structureChanged, holdingStill>>
  BY ExitCases
<1>4. HeldWhileChoosing'
  BY <1>3 DEF ControlInv, HeldWhileChoosing, AtRest, ControlTypes
<1>5. WaitingIsHeld'
  <2>1. CASE phase' = "callbacks"
    <3>1. phase = "callbacks" /\ open' = open' /\ waiting' = waiting /\ moving' = moving
      BY <2>1
    <3>2. waiting # {} => ~ AtRest /\ holdingStill
      BY <3>1 DEF ControlInv, WaitingIsHeld
    <3>3. waiting # {} => controlled' = controlled /\ holdingStill'
      BY <3>2, ExitCases
    <3>4. isCompiled' /\ open' = <<>> /\ changed' => holdingStill'
      BY <3>1, ExitCases DEF ControlInv, WaitingIsHeld
    <3> QED BY <2>1, <3>1, <3>2, <3>3, <3>4 DEF WaitingIsHeld, AtRest
  <2>2. CASE phase' # "callbacks"
    BY <2>2 DEF WaitingIsHeld
  <2> QED BY <2>1, <2>2
<1> QED BY <1>1, <1>2, <1>4, <1>5 DEF ControlInv

LEMMA Changed_Control ==
  ASSUME ControlInv, NEW c, Changed(c)
  PROVE  ControlInv'
<1>1. /\ open' = open /\ Exit(TRUE) /\ phase \in {"between", "choosing", "callbacks"}
      /\ UNCHANGED <<moving, waiting, heldStill>>
      /\ phase' = phase \/ (open = <<>> /\ Raised)
  BY DEF Changed, CanModify
<1>2. phase' \in {phase, "over"} /\ (phase' = "over" => open' = <<>>)
  BY <1>1 DEF Raised
<1>3. /\ \E S : open' \in Seq(S)
      /\ phase' = "choosing" => open' # <<>>
      /\ heldStill' = (heldStill /\ phase' \notin {"over", "torn"})
  BY <1>1, <1>2 DEF ControlInv, OpenBlocks, HeldWhileChoosing, ControlTypes
<1> QED BY <1>1, <1>2, <1>3, Exit_Control

LEMMA FrontOfBlocks ==
  ASSUME ControlInv, open # <<>>
  PROVE  /\ \E S : Front(open) \in Seq(S)
         /\ Len(open) > 1 <=> Front(open) # <<>>
         /\ Len(open) \in Nat
<1>1. PICK S : open \in Seq(S)
  BY DEF ControlInv, OpenBlocks
<1>2. Len(open) \in Nat \ {0} /\ \A i \in 1..(Len(open) - 1) : open[i] \in S
  BY <1>1
<1>3. /\ Front(open) \in Seq(S)
      /\ Len(Front(open)) = IF 1 <= Len(open) - 1 THEN Len(open) - 1 ELSE 0
  BY <1>2, SubSeqProperties DEF Front
<1>4. Front(open) = <<>> <=> Len(Front(open)) = 0
  BY <1>3, EmptySeq
<1> QED BY <1>2, <1>3, <1>4

LEMMA CloseBlock_Control ==
  ASSUME ControlInv, CloseBlock
  PROVE  ControlInv'
<1>1. /\ open' = Front(open) /\ Exit(changed) /\ changed \in BOOLEAN
      /\ UNCHANGED <<moving, waiting, heldStill>>
      /\ phase' = phase \/ (open' = <<>> /\ Raised)
      /\ Len(open) > (IF phase = "choosing" THEN 1 ELSE 0)
  BY DEF CloseBlock, InCallersBlock, ControlInv, ControlTypes
<1>2. open # <<>>
  BY <1>1
<1>3. phase \in {"between", "choosing", "callbacks"}
  BY DEF CloseBlock, CanModify
<1>4. phase' \in {phase, "over"} /\ (phase' = "over" => open' = <<>>)
  BY <1>1, <1>3 DEF Raised
<1>5. phase = "choosing" => open' # <<>> /\ phase' = phase
  BY <1>1, <1>2, FrontOfBlocks
<1>6. /\ \E S : open' \in Seq(S)
      /\ phase' = "choosing" => open' # <<>>
      /\ heldStill' = (heldStill /\ phase' \notin {"over", "torn"})
  BY <1>1, <1>2, <1>4, <1>5, FrontOfBlocks DEF ControlInv, HeldWhileChoosing, ControlTypes
<1> QED BY <1>1, <1>3, <1>4, <1>6, Exit_Control

LEMMA AbandonBlock_Control ==
  ASSUME ControlInv, AbandonBlock
  PROVE  ControlInv'
<1> DEFINE hasChanged == changed \/ Last(open).count # Len(chart.nodes)
<1>1. /\ open # <<>> /\ open' = Front(open) /\ Exit(hasChanged)
      /\ UNCHANGED <<moving, waiting>>
      /\ phase' = "torn" \/ phase' = phase \/ (open' = <<>> /\ Raised)
      /\ phase' \in {phase, "torn"} \/ open' = <<>>
      /\ open' = <<>> => phase' = "torn" \/ Raised
      /\ heldStill' = (heldStill /\ phase' \notin {"over", "torn"})
      /\ phase \in {"between", "choosing", "callbacks"}
  BY DEF AbandonBlock, CanModify
<1>2. hasChanged \in BOOLEAN /\ (changed => hasChanged)
  BY DEF ControlInv, ControlTypes
<1>3. phase' \in {phase, "over", "torn"} /\ (phase' = "over" => open' = <<>>)
      /\ (phase' = "choosing" => open' # <<>>)
  BY <1>1 DEF Raised
<1>4. \E S : open' \in Seq(S)
  BY <1>1, FrontOfBlocks
<1> HIDE DEF hasChanged
<1> QED BY <1>1, <1>2, <1>3, <1>4, Exit_Control

LEMMA FailToPutBack_Control ==
  ASSUME ControlInv, FailToPutBack
  PROVE  ControlInv'
<1>1. /\ open # <<>> /\ open' = Front(open) /\ phase' = "torn" /\ heldStill' = FALSE
      /\ UNCHANGED <<isCompiled, changed, structureChanged, holdingStill, moving>>
  BY DEF FailToPutBack, control
<1>2. ControlTypes' /\ HeldWhileChoosing' /\ WaitingIsHeld'
  BY <1>1 DEF ControlInv, ControlTypes, HeldWhileChoosing, WaitingIsHeld, Phases
<1>3. OpenBlocks'
  BY <1>1, FrontOfBlocks DEF OpenBlocks
<1> QED BY <1>2, <1>3 DEF ControlInv

LEMMA FinishChoosing_Control ==
  ASSUME ControlInv, FinishChoosing
  PROVE  ControlInv'
<1>1. /\ phase = "choosing" /\ waiting = {} /\ open' = <<>> /\ Exit(changed)
      /\ changed \in BOOLEAN /\ heldStill' = FALSE /\ phase' \in {"over", "callbacks"}
      /\ UNCHANGED <<moving, waiting>>
  BY DEF FinishChoosing, ControlInv, ControlTypes
<1>2. ControlTypes'
  BY <1>1, ExitCases DEF ControlInv, ControlTypes, Phases
<1>3. \E S : open' \in Seq(S)
  <2>1. open' = <<>> /\ <<>> \in Seq({})
    BY <1>1
  <2> QED BY <2>1
<1>4. OpenBlocks' /\ HeldWhileChoosing'
  BY <1>1, <1>3 DEF OpenBlocks, HeldWhileChoosing
<1>5. WaitingIsHeld'
  BY <1>1, ExitCases DEF WaitingIsHeld
<1> QED BY <1>2, <1>4, <1>5 DEF ControlInv

\* The steps of the executor, and those that leave it alone.
LEMMA Others_Control ==
  ASSUME ControlInv,
         \/ Modify \/ WorldChanges \/ ExecutorCompile \/ BeginTick \/ Settle
         \/ LetWaitingNodesChoose \/ EndTick \/ UNCHANGED vars
         \/ \E n \in Node : RemoveNode(n) \/ GiveUp(n)
         \/ \E n, child \in Node : ChooseChild(n, child)
  PROVE  ControlInv'
<1>1. CASE Modify
  <2>1. \E S : open' \in Seq(S)
    <3>1. PICK S : open \in Seq(S)
      BY DEF ControlInv, OpenBlocks
    <3>2. open' = Append(open, Block)
      BY <1>1 DEF Modify
    <3>3. open' \in Seq(S \union {Block})
      BY <3>1, <3>2
    <3> QED BY <3>3
  <2>2. open' # <<>>
    <3>1. PICK S : open \in Seq(S)
      BY DEF ControlInv, OpenBlocks
    <3> QED BY <1>1, <3>1 DEF Modify
  <2> QED
    BY <1>1, <2>1, <2>2
       DEF Modify, CanModify, ControlInv, ControlTypes, OpenBlocks, HeldWhileChoosing,
           WaitingIsHeld, AtRest, compiler, control
<1>2. CASE WorldChanges
  BY <1>2 DEF WorldChanges, ControlInv, ControlTypes, OpenBlocks, HeldWhileChoosing,
         WaitingIsHeld, AtRest, blocks, control
<1>3. CASE ExecutorCompile
  BY <1>3 DEF ExecutorCompile, Compile, ControlInv, ControlTypes, OpenBlocks,
         HeldWhileChoosing, WaitingIsHeld, AtRest, blocks, Phases
<1>4. CASE BeginTick
  BY <1>4 DEF BeginTick, Compile, ControlInv, ControlTypes, OpenBlocks,
         HeldWhileChoosing, WaitingIsHeld, AtRest, blocks, Phases
<1>5. CASE Settle
  BY <1>5 DEF Settle, ControlInv, ControlTypes, OpenBlocks,
         HeldWhileChoosing, WaitingIsHeld, AtRest, blocks, compiler, control, Phases
<1>6. CASE LetWaitingNodesChoose
  <2>1. waiting # {} /\ AtRest => open' = <<Block>> /\ <<Block>> \in Seq({Block})
                                   /\ <<Block>> # <<>>
    BY <1>6 DEF LetWaitingNodesChoose
  <2>2. (\E S : open' \in Seq(S)) /\ (phase' = "choosing" => open' # <<>>)
    BY <1>6, <2>1 DEF LetWaitingNodesChoose, ControlInv, OpenBlocks
  <2> QED
    BY <1>6, <2>2 DEF LetWaitingNodesChoose, ControlInv, ControlTypes, OpenBlocks,
         HeldWhileChoosing, WaitingIsHeld, AtRest, Phases
<1>7. CASE EndTick
  <2>1. moving' \in BOOLEAN
    BY <1>7 DEF EndTick, ControlInv, ControlTypes
  <2> QED
    BY <1>7, <2>1 DEF EndTick, ControlInv, ControlTypes, OpenBlocks, HeldWhileChoosing,
         WaitingIsHeld, AtRest, blocks, compiler, Phases
<1>8. CASE UNCHANGED vars
  BY <1>8 DEF vars, ControlInv, ControlTypes, OpenBlocks, HeldWhileChoosing,
         WaitingIsHeld, AtRest, blocks, compiler, control
<1>9. ASSUME NEW n \in Node, RemoveNode(n)
      PROVE  ControlInv'
  BY <1>9 DEF RemoveNode, ControlInv, ControlTypes, OpenBlocks, HeldWhileChoosing,
         WaitingIsHeld, AtRest, blocks, compiler, control
<1>10. ASSUME NEW n \in Node, GiveUp(n) \/ \E child \in Node : ChooseChild(n, child)
       PROVE  ControlInv'
  <2>1. /\ phase = "choosing" /\ changed' = TRUE
        /\ UNCHANGED <<blocks, isCompiled, structureChanged, heldStill, control, phase>>
    BY <1>10 DEF GiveUp, ChooseChild
  <2> QED
    BY <2>1 DEF ControlInv, ControlTypes, OpenBlocks, HeldWhileChoosing,
           WaitingIsHeld, AtRest, blocks, control
<1> QED BY <1>1, <1>2, <1>3, <1>4, <1>5, <1>6, <1>7, <1>8, <1>9, <1>10

LEMMA ChangedOrOther ==
  ASSUME [Next]_vars
  PROVE  \/ \E c : Changed(c)
         \/ CloseBlock \/ AbandonBlock \/ FailToPutBack \/ FinishChoosing
         \/ Modify \/ WorldChanges \/ ExecutorCompile \/ BeginTick \/ Settle
         \/ LetWaitingNodesChoose \/ EndTick \/ UNCHANGED vars
         \/ \E n \in Node : RemoveNode(n) \/ GiveUp(n)
         \/ \E n, child \in Node : ChooseChild(n, child)
<1>1. ASSUME NEW n \in Node, AddNode(n) PROVE \E c : Changed(c)
  BY <1>1 DEF AddNode
<1>2. ASSUME NEW p \in Node, NEW n \in Node, NEW i, InsertAtPosition(p, i, n)
      PROVE  \E c : Changed(c)
  BY <1>2 DEF InsertAtPosition
<1>3. ASSUME NEW n \in Node, NEW r \in Node, ReplaceByHolder(n, r) \/ Replace(n, r)
      PROVE  \E c : Changed(c)
  BY <1>3 DEF ReplaceByHolder, Replace
<1> QED BY <1>1, <1>2, <1>3 DEF Next, Change, Tick

LEMMA NextControl == ControlInv /\ [Next]_vars => ControlInv'
BY ChangedOrOther, Changed_Control, CloseBlock_Control, AbandonBlock_Control,
   FailToPutBack_Control, FinishChoosing_Control, Others_Control

LEMMA ControlHolds == Spec => []ControlInv
BY InitControl, NextControl, PTL DEF Spec

\* Whatever callbacks and callers change, and however their blocks are nested: a tick
\* that ends with a change to compile or a node waiting to choose has asked the robot to
\* hold still (when_held_still, before_tick).
THEOREM RobotIsHeldStill == Spec => []WaitingHoldsTheRobotStill
<1>1. ControlInv => WaitingHoldsTheRobotStill
  BY DEF ControlInv, WaitingIsHeld, WaitingHoldsTheRobotStill
<1> QED BY <1>1, ControlHolds, PTL

\* Neither compiling nor choosing starts while the robot moves (before_recompile,
\* _let_waiting_nodes_choose_their_child): nodes that choose were let to at rest, and
\* the blocks they open compile in the same step.
THEOREM OnlyARobotAtRestIsBlocked == Spec => BlocksOnlyARobotAtRest
<1> DEFINE Blocks ==
      isCompiled /\ moving /\ controlled # {} =>
       /\ ~(changed /\ ~changed') /\ ~(structureChanged /\ ~structureChanged')
       /\ ~(phase # "choosing" /\ phase' = "choosing")
<1> DEFINE NoneStarts ==
      /\ changed => changed'
      /\ structureChanged => structureChanged'
      /\ phase' = "choosing" => phase = "choosing"
<1>1. ASSUME ControlInv, [Next]_vars, isCompiled, ~ AtRest
      PROVE  NoneStarts
  <2>1. ASSUME NEW hasChanged \in BOOLEAN, Exit(hasChanged), changed => hasChanged,
               phase' = phase \/ phase' \in {"over", "callbacks", "torn"}
        PROVE  NoneStarts
    BY <1>1, <2>1, ExitCases
  <2>2. ASSUME NEW c, Changed(c) PROVE NoneStarts
    <3>1. Exit(TRUE) /\ (phase' = phase \/ phase' \in {"over", "callbacks"})
      BY <2>2 DEF Changed, Raised
    <3> QED BY <2>1, <3>1
  <2>3. ASSUME CloseBlock \/ FinishChoosing PROVE NoneStarts
    <3>1. /\ Exit(changed) /\ changed \in BOOLEAN
          /\ phase' = phase \/ phase' \in {"over", "callbacks"}
      BY <1>1, <2>3 DEF CloseBlock, FinishChoosing, Raised, ControlInv, ControlTypes
    <3> QED BY <2>1, <3>1
  <2>4. ASSUME AbandonBlock PROVE NoneStarts
    <3> DEFINE hasChanged == changed \/ Last(open).count # Len(chart.nodes)
    <3>1. /\ Exit(hasChanged) /\ hasChanged \in BOOLEAN /\ (changed => hasChanged)
          /\ phase' = phase \/ phase' \in {"over", "callbacks", "torn"}
      BY <1>1, <2>4 DEF AbandonBlock, Raised, ControlInv, ControlTypes
    <3> HIDE DEF hasChanged
    <3> QED BY <2>1, <3>1
  <2>5. ASSUME \/ Modify \/ Settle \/ EndTick \/ UNCHANGED vars
               \/ \E n \in Node : RemoveNode(n)
        PROVE  NoneStarts
    <3>1. /\ UNCHANGED <<changed, structureChanged>>
          /\ phase' = phase \/ phase' \in {"asking", "between"}
      BY <2>5 DEF Modify, Settle, EndTick, RemoveNode, vars, compiler
    <3> QED BY <3>1
  <2>6. ASSUME WorldChanges PROVE NoneStarts
    <3>1. changed' = changed /\ structureChanged' = TRUE /\ phase' = phase
      BY <2>6 DEF WorldChanges
    <3> QED BY <3>1
  <2>9. ASSUME \/ \E n \in Node : GiveUp(n)
               \/ \E n, child \in Node : ChooseChild(n, child)
        PROVE  NoneStarts
    <3>1. changed' = TRUE /\ structureChanged' = structureChanged /\ phase' = phase
      BY <2>9 DEF GiveUp, ChooseChild
    <3> QED BY <3>1
  <2>7. ASSUME ExecutorCompile \/ BeginTick PROVE NoneStarts
    BY <1>1, <2>7 DEF ExecutorCompile, BeginTick
  <2>8. ASSUME LetWaitingNodesChoose PROVE NoneStarts
    BY <1>1, <2>8 DEF LetWaitingNodesChoose
  <2>10. ASSUME FailToPutBack PROVE NoneStarts
    <3>1. UNCHANGED <<changed, structureChanged>> /\ phase' = "torn"
      BY <2>10 DEF FailToPutBack
    <3> QED BY <3>1
  <2> QED BY <1>1, <2>2, <2>3, <2>4, <2>5, <2>6, <2>7, <2>8, <2>9, <2>10, ChangedOrOther
<1> HIDE DEF NoneStarts
<1>2. ASSUME ControlInv, [Next]_vars PROVE [Blocks]_vars
  <2>1. isCompiled /\ moving /\ controlled # {} => NoneStarts
    BY <1>1, <1>2 DEF AtRest
  <2> QED BY <2>1 DEF NoneStarts
<1> QED BY <1>2, ControlHolds, PTL DEF Spec, BlocksOnlyARobotAtRest

-----------------------------------------------------------------------------
\* Lists without some of their members.

\* Whatever a set of numbers has, it has a least one of.
LEMMA LeastOf ==
  ASSUME NEW T \in SUBSET Nat, T # {}
  PROVE  \E i \in T : \A j \in T : i <= j
<1>1. PICK i \in T : \A j \in T : <<j, i>> \notin OpToRel(<, Nat)
  BY NatLessThanWellFounded, WFMin
<1>2. ASSUME NEW j \in T PROVE i <= j
  <2>1. ~ (j < i)
    BY <1>1 DEF OpToRel
  <2> QED BY <2>1
<1> QED BY <1>2

\* The list of those kept from the first `i' members, as Kept computes it.
KeptUpTo(list, gone, kept, i) ==
  IF i = 0 THEN <<>>
  ELSE IF list[i] \in gone THEN kept[i - 1] ELSE Append(kept[i - 1], list[i])

IsKept(list, gone, kept) ==
  kept = [i \in 0..Len(list) |-> KeptUpTo(list, gone, kept, i)]

LEMMA KeptExists ==
  ASSUME NEW S, NEW gone, NEW list \in Seq(S)
  PROVE  \E kept \in [0..Len(list) -> Seq(S)] : IsKept(list, gone, kept)
<1> DEFINE Upto(n) == \E kept \in [0..n -> Seq(S)] :
                        \A i \in 0..n : kept[i] = KeptUpTo(list, gone, kept, i)
<1> DEFINE T == {n \in 0..Len(list) : ~ Upto(n)}
<1>1. T = {}
  <2> SUFFICES ASSUME T # {} PROVE FALSE
    OBVIOUS
  <2>1. PICK n \in T : \A j \in T : n <= j
    <3>1. T \in SUBSET Nat
      OBVIOUS
    <3> HIDE DEF T
    <3> QED BY <3>1, LeastOf
  <2>2. CASE n = 0
    <3> DEFINE k == [i \in 0..0 |-> <<>>]
    <3>1. k \in [0..0 -> Seq(S)] /\ \A i \in 0..0 : k[i] = KeptUpTo(list, gone, k, i)
      BY DEF KeptUpTo
    <3> HIDE DEF k
    <3>2. Upto(0)
      BY <3>1
    <3> QED BY <2>1, <2>2, <3>2
  <2>3. CASE n # 0
    <3>1. n \in 1..Len(list) /\ Upto(n - 1)
      <4>1. n \in 1..Len(list) /\ n - 1 \in 0..Len(list) /\ ~ (n <= n - 1)
        BY <2>1, <2>3
      <4>2. n - 1 \notin T
        <5> HIDE DEF T
        <5> QED BY <2>1, <4>1
      <4> QED BY <4>1, <4>2
    <3>2. PICK k \in [0..(n - 1) -> Seq(S)] :
             \A i \in 0..(n - 1) : k[i] = KeptUpTo(list, gone, k, i)
      BY <3>1
    <3> DEFINE more == [i \in 0..n |-> IF i = n THEN KeptUpTo(list, gone, k, n) ELSE k[i]]
    <3>3. KeptUpTo(list, gone, k, n) \in Seq(S)
      <4>1. k[n - 1] \in Seq(S) /\ list[n] \in S
        BY <3>1
      <4> QED BY <2>3, <4>1 DEF KeptUpTo
    <3>4. more \in [0..n -> Seq(S)]
      BY <3>1, <3>3
    <3>5. ASSUME NEW i \in 0..n PROVE more[i] = KeptUpTo(list, gone, more, i)
      <4>1. i # 0 => i - 1 \in 0..(n - 1) /\ more[i - 1] = k[i - 1]
        BY <3>1
      <4>2. KeptUpTo(list, gone, more, i) = KeptUpTo(list, gone, k, i)
        BY <4>1 DEF KeptUpTo
      <4>3. more[i] = KeptUpTo(list, gone, k, i)
        BY <3>1, <3>2
      <4> QED BY <4>2, <4>3
    <3> HIDE DEF more
    <3>6. Upto(n)
      BY <3>4, <3>5
    <3> QED BY <2>1, <3>6
  <2> QED BY <2>2, <2>3
<1>2. Upto(Len(list))
  <2>1. Len(list) \in 0..Len(list)
    OBVIOUS
  <2> QED BY <1>1, <2>1
<1>3. PICK kept \in [0..Len(list) -> Seq(S)] :
         \A i \in 0..Len(list) : kept[i] = KeptUpTo(list, gone, kept, i)
  BY <1>2
<1> QED BY <1>3 DEF IsKept

LEMMA KeptSteps ==
  ASSUME NEW S, NEW gone, NEW list \in Seq(S)
  PROVE  \E kept : /\ Kept(list, gone) = kept[Len(list)]
                   /\ \A i \in 0..Len(list) : kept[i] = KeptUpTo(list, gone, kept, i)
<1> DEFINE f == CHOOSE f : IsKept(list, gone, f)
<1>1. IsKept(list, gone, f)
  BY KeptExists
<1>2. Kept(list, gone) = f[Len(list)]
  BY DEF Kept, IsKept, KeptUpTo
<1> HIDE DEF f
<1>3. \A i \in 0..Len(list) : f[i] = KeptUpTo(list, gone, f, i)
  BY <1>1 DEF IsKept
<1> QED BY <1>2, <1>3

LEMMA KeptOfNothing ==
  ASSUME NEW S, NEW gone
  PROVE  Kept(<<>>, gone) = <<>>
<1> DEFINE none == <<>>
<1>0. none \in Seq(S)
  OBVIOUS
<1>1. Len(none) = 0
  OBVIOUS
<1> HIDE DEF none
<1>2. PICK kept : /\ Kept(none, gone) = kept[Len(none)]
                  /\ \A i \in 0..Len(none) : kept[i] = KeptUpTo(none, gone, kept, i)
  BY <1>0, KeptSteps
<1>3. kept[0] = KeptUpTo(none, gone, kept, 0)
  BY <1>1, <1>2
<1>4. Kept(none, gone) = <<>>
  BY <1>1, <1>2, <1>3 DEF KeptUpTo
<1> QED BY <1>4 DEF none

LEMMA KeptOfMore ==
  ASSUME NEW S, NEW gone, NEW list \in Seq(S), NEW n \in S
  PROVE  Kept(Append(list, n), gone)
           = IF n \in gone THEN Kept(list, gone) ELSE Append(Kept(list, gone), n)
<1> DEFINE longer == Append(list, n)
<1>1. longer \in Seq(S) /\ Len(longer) = Len(list) + 1 /\ longer[Len(list) + 1] = n
      /\ \A i \in 1..Len(list) : longer[i] = list[i]
  OBVIOUS
<1> HIDE DEF longer
<1>2. PICK f : /\ Kept(list, gone) = f[Len(list)]
               /\ \A i \in 0..Len(list) : f[i] = KeptUpTo(list, gone, f, i)
  BY KeptSteps
<1>3. PICK g : /\ Kept(longer, gone) = g[Len(longer)]
               /\ \A i \in 0..Len(longer) : g[i] = KeptUpTo(longer, gone, g, i)
  BY <1>1, KeptSteps
<1> DEFINE T == {i \in 0..Len(list) : g[i] # f[i]}
<1>4. T = {}
  <2> SUFFICES ASSUME T # {} PROVE FALSE
    OBVIOUS
  <2>1. PICK i \in T : \A j \in T : i <= j
    <3>1. T \in SUBSET Nat
      OBVIOUS
    <3> HIDE DEF T
    <3> QED BY <3>1, LeastOf
  <2>2. i \in 0..Len(list) /\ (i # 0 => g[i - 1] = f[i - 1] /\ longer[i] = list[i])
    BY <2>1, <1>1
  <2>3. KeptUpTo(longer, gone, g, i) = KeptUpTo(list, gone, f, i)
    BY <2>2 DEF KeptUpTo
  <2>4. g[i] = f[i]
    BY <1>1, <1>2, <1>3, <2>2, <2>3
  <2> QED BY <2>1, <2>4
<1>5. g[Len(list)] = f[Len(list)]
  BY <1>4
<1>6. g[Len(list) + 1] = KeptUpTo(longer, gone, g, Len(list) + 1)
  BY <1>1, <1>3
<1> QED BY <1>1, <1>2, <1>3, <1>5, <1>6 DEF KeptUpTo, longer

\* Lists grow one member at a time.
LEMMA ListInduction ==
  ASSUME NEW S, NEW Good \in SUBSET Seq(S), <<>> \in Good,
         \A s \in Good : \A n \in S : Append(s, n) \in Good
  PROVE  Good = Seq(S)
<1> DEFINE T == {l \in Nat : \E s \in Seq(S) : Len(s) = l /\ s \notin Good}
<1>0. T = {} => Good = Seq(S)
  BY LenProperties
<1> SUFFICES ASSUME T # {} PROVE FALSE
  BY <1>0
<1>1. PICK l \in T : \A k \in T : l <= k
  <2>1. T \in SUBSET Nat
    OBVIOUS
  <2> HIDE DEF T
  <2> QED BY <2>1, LeastOf
<1>2. PICK s \in Seq(S) : Len(s) = l /\ s \notin Good
  BY <1>1
<1>3. s # <<>>
  BY <1>2
<1>4. PICK t \in Seq(S), n \in S : s = Append(t, n)
  BY <1>3, SequenceEmptyOrAppend
<1>5. Len(t) \in Nat /\ Len(t) + 1 = l
  BY <1>2, <1>4
<1>6. t \in Good
  <2>1. Len(t) \notin T
    <3> HIDE DEF T
    <3> QED BY <1>1, <1>5
  <2> QED BY <1>5, <2>1
<1> QED BY <1>2, <1>4, <1>6

LEMMA AppendMembers ==
  ASSUME NEW S, NEW l \in Seq(S), NEW n \in S
  PROVE  /\ ToSet(Append(l, n)) = ToSet(l) \union {n}
         /\ IsInjective(Append(l, n)) => IsInjective(l) /\ n \notin ToSet(l)
         /\ IsInjective(l) /\ n \notin ToSet(l) => IsInjective(Append(l, n))
<1> DEFINE m == Append(l, n)
<1>1. /\ DOMAIN m = 1..(Len(l) + 1) /\ DOMAIN l = 1..Len(l) /\ Len(l) \in Nat
      /\ m[Len(l) + 1] = n /\ \A i \in 1..Len(l) : m[i] = l[i]
  OBVIOUS
<1> HIDE DEF m
<1>2. ToSet(m) = ToSet(l) \union {n}
  BY <1>1 DEF ToSet
<1>3. IsInjective(m) => IsInjective(l) /\ n \notin ToSet(l)
  <2>1. \A i \in DOMAIN l : i \in DOMAIN m /\ m[i] = l[i] /\ i # Len(l) + 1
    BY <1>1
  <2>2. Len(l) + 1 \in DOMAIN m
    BY <1>1
  <2>3. IsInjective(m) => IsInjective(l)
    BY <2>1 DEF IsInjective
  <2>4. IsInjective(m) => \A i \in DOMAIN l : l[i] # n
    BY <1>1, <2>1, <2>2 DEF IsInjective
  <2> QED BY <2>3, <2>4 DEF ToSet
<1>4. IsInjective(l) /\ n \notin ToSet(l) => IsInjective(m)
  BY <1>1 DEF ToSet, IsInjective
<1> QED BY <1>2, <1>3, <1>4 DEF m

\* Nothing else is in the list, and all that is not gone, once if it was there once.
LEMMA KeptMembers ==
  ASSUME NEW S, NEW gone, NEW list \in Seq(S)
  PROVE  /\ Kept(list, gone) \in Seq(S)
         /\ ToSet(Kept(list, gone)) = ToSet(list) \ gone
         /\ IsInjective(list) => IsInjective(Kept(list, gone))
<1> DEFINE Good == {s \in Seq(S) :
               /\ Kept(s, gone) \in Seq(S)
               /\ ToSet(Kept(s, gone)) = ToSet(s) \ gone
               /\ IsInjective(s) => IsInjective(Kept(s, gone))}
<1>1. <<>> \in Good
  <2>1. <<>> \in Seq(S) /\ ToSet(<<>>) = {} /\ IsInjective(<<>>)
    BY DEF ToSet, IsInjective
  <2> QED BY <2>1, KeptOfNothing
<1>2. ASSUME NEW s \in Good, NEW n \in S PROVE Append(s, n) \in Good
  <2> DEFINE k == Kept(s, gone)
  <2>1. k \in Seq(S) /\ ToSet(k) = ToSet(s) \ gone /\ s \in Seq(S)
        /\ (IsInjective(s) => IsInjective(k))
    OBVIOUS
  <2>2. Kept(Append(s, n), gone) = IF n \in gone THEN k ELSE Append(k, n)
    BY KeptOfMore
  <2> HIDE DEF k
  <2>4. Append(s, n) \in Seq(S) /\ (IF n \in gone THEN k ELSE Append(k, n)) \in Seq(S)
    BY <2>1
  <2>7. /\ ToSet(Append(s, n)) = ToSet(s) \union {n}
        /\ ToSet(Append(k, n)) = ToSet(k) \union {n}
        /\ IsInjective(Append(s, n)) => IsInjective(s) /\ n \notin ToSet(s)
        /\ IsInjective(k) /\ n \notin ToSet(k) => IsInjective(Append(k, n))
    <3>1. s \in Seq(S) /\ k \in Seq(S)
      BY <2>1
    <3> QED BY <3>1, AppendMembers
  <2>5. ToSet(Kept(Append(s, n), gone)) = ToSet(Append(s, n)) \ gone
    <3>1. CASE n \in gone
      <4>1. ToSet(Kept(Append(s, n), gone)) = ToSet(k)
        BY <2>2, <3>1
      <4> QED BY <3>1, <4>1, <2>1, <2>7
    <3>2. CASE n \notin gone
      <4>1. ToSet(Kept(Append(s, n), gone)) = ToSet(Append(k, n))
        BY <2>2, <3>2
      <4> QED BY <3>2, <4>1, <2>1, <2>7
    <3> QED BY <3>1, <3>2
  <2>6. IsInjective(Append(s, n)) => IsInjective(Kept(Append(s, n), gone))
    BY <2>1, <2>2, <2>7
  <2> QED BY <2>2, <2>4, <2>5, <2>6
<1>3. Good = Seq(S)
  <2>1. Good \in SUBSET Seq(S)
    OBVIOUS
  <2> HIDE DEF Good
  <2> QED BY <1>1, <1>2, <2>1, ListInduction
<1> QED BY <1>3

\* A list without some of its members has the others no later.
LEMMA KeptEarlier ==
  ASSUME NEW S, NEW gone, NEW list \in Seq(S)
  PROVE  \A i \in DOMAIN Kept(list, gone) :
           \E j \in DOMAIN list : j >= i /\ list[j] = Kept(list, gone)[i]
<1> DEFINE Good == {s \in Seq(S) : \A i \in DOMAIN Kept(s, gone) :
                      \E j \in DOMAIN s : j >= i /\ s[j] = Kept(s, gone)[i]}
<1>1. <<>> \in Good
  <2>1. <<>> \in Seq(S) /\ DOMAIN <<>> = {}
    OBVIOUS
  <2> QED BY <2>1, KeptOfNothing
<1>2. ASSUME NEW s \in Good, NEW n \in S PROVE Append(s, n) \in Good
  <2>1. PICK k \in Seq(S) : k = Kept(s, gone)
    BY KeptMembers
  <2>2. \A i \in DOMAIN k : \E j \in DOMAIN s : j >= i /\ s[j] = k[i]
    BY <2>1
  <2>3. PICK m \in Seq(S) : m = Append(s, n)
    <3>1. Append(s, n) \in Seq(S)
      OBVIOUS
    <3> QED BY <3>1
  <2>4. /\ s \in Seq(S) /\ Len(s) \in Nat /\ DOMAIN s = 1..Len(s) /\ m[Len(s) + 1] = n
        /\ DOMAIN m = 1..(Len(s) + 1) /\ \A i \in 1..Len(s) : m[i] = s[i]
    BY <2>3
  <2>5. Kept(m, gone) = IF n \in gone THEN k ELSE Append(k, n)
    BY <2>1, <2>3, <2>4, KeptOfMore
  <2>6. Len(k) \in Nat /\ DOMAIN k = 1..Len(k) /\ Len(k) <= Len(s)
    <3>1. Len(k) \in Nat /\ DOMAIN k = 1..Len(k)
      OBVIOUS
    <3>2. CASE Len(k) = 0
      BY <2>4, <3>1, <3>2
    <3>3. CASE Len(k) # 0
      <4>1. Len(k) \in DOMAIN k
        BY <3>1, <3>3
      <4>2. PICK j \in DOMAIN s : j >= Len(k)
        BY <2>2, <4>1
      <4> QED BY <2>4, <3>1, <4>2
    <3> QED BY <3>1, <3>2, <3>3
  <2>7. \A i \in DOMAIN k : \E j \in DOMAIN m : j >= i /\ m[j] = k[i]
    BY <2>2, <2>4
  <2>8. CASE n \in gone
    BY <2>3, <2>5, <2>7, <2>8
  <2>9. CASE n \notin gone
    <3>1. PICK l \in Seq(S) : l = Append(k, n)
      <4>1. Append(k, n) \in Seq(S)
        OBVIOUS
      <4> QED BY <4>1
    <3>2. /\ DOMAIN l = 1..(Len(k) + 1) /\ l[Len(k) + 1] = n
          /\ \A i \in 1..Len(k) : l[i] = k[i]
      BY <3>1
    <3>3. \A i \in DOMAIN l : \E j \in DOMAIN m : j >= i /\ m[j] = l[i]
      <4>1. ASSUME NEW i \in DOMAIN l, i # Len(k) + 1
            PROVE  \E j \in DOMAIN m : j >= i /\ m[j] = l[i]
        <5>1. i \in DOMAIN k /\ l[i] = k[i]
          BY <2>6, <3>2, <4>1
        <5> QED BY <2>7, <5>1
      <4>2. Len(s) + 1 \in DOMAIN m /\ Len(s) + 1 >= Len(k) + 1
            /\ m[Len(s) + 1] = l[Len(k) + 1]
        BY <2>4, <2>6, <3>2
      <4> QED BY <4>1, <4>2
    <3> QED BY <2>3, <2>5, <2>9, <3>1, <3>3
  <2> QED BY <2>8, <2>9
<1>3. Good = Seq(S)
  <2>1. Good \in SUBSET Seq(S)
    OBVIOUS
  <2> HIDE DEF Good
  <2> QED BY <1>1, <1>2, <2>1, ListInduction
<1> QED BY <1>3

LEMMA KeptOfBoth ==
  ASSUME NEW S, NEW gone, NEW list \in Seq(S), NEW rest \in Seq(S)
  PROVE  Kept(list \o rest, gone) = Kept(list, gone) \o Kept(rest, gone)
<1> DEFINE Good == {s \in Seq(S) : Kept(list \o s, gone) = Kept(list, gone) \o Kept(s, gone)}
<1>1. <<>> \in Good
  BY KeptOfNothing, KeptMembers
<1>2. ASSUME NEW s \in Good, NEW n \in S PROVE Append(s, n) \in Good
  <2>1. Kept(list \o s, gone) = Kept(list, gone) \o Kept(s, gone)
    OBVIOUS
  <2>2. list \o Append(s, n) = Append(list \o s, n) /\ list \o s \in Seq(S)
        /\ Append(s, n) \in Seq(S)
    OBVIOUS
  <2>3. Kept(list, gone) \in Seq(S) /\ Kept(s, gone) \in Seq(S)
    BY KeptMembers
  <2>4. Kept(Append(list \o s, n), gone)
          = IF n \in gone THEN Kept(list \o s, gone) ELSE Append(Kept(list \o s, gone), n)
    <3> DEFINE both == list \o s
    <3>1. both \in Seq(S)
      OBVIOUS
    <3> HIDE DEF both
    <3>2. Kept(Append(both, n), gone)
            = IF n \in gone THEN Kept(both, gone) ELSE Append(Kept(both, gone), n)
      BY <3>1, KeptOfMore
    <3> QED BY <3>2 DEF both
  <2>5. Kept(Append(s, n), gone) = IF n \in gone THEN Kept(s, gone) ELSE Append(Kept(s, gone), n)
    BY KeptOfMore
  <2>6. Kept(list, gone) \o Append(Kept(s, gone), n) = Append(Kept(list, gone) \o Kept(s, gone), n)
    BY <2>3
  <2> QED BY <2>1, <2>2, <2>4, <2>5, <2>6
<1>3. Good = Seq(S)
  <2>1. Good \in SUBSET Seq(S)
    OBVIOUS
  <2> HIDE DEF Good
  <2> QED BY <1>1, <1>2, <2>1, ListInduction
<1> QED BY <1>3

\* Two lists of which the same is left, ...
LEMMA KeptSame ==
  ASSUME NEW S, NEW one, NEW other, NEW list \in Seq(S), NEW others \in Seq(S),
         Len(list) = Len(others),
         \A i \in DOMAIN list : /\ list[i] \in one <=> others[i] \in other
                                /\ list[i] \notin one => list[i] = others[i]
  PROVE  Kept(list, one) = Kept(others, other)
<1> DEFINE Alike(s, t) ==
      /\ Len(s) = Len(t)
      /\ \A i \in DOMAIN s : /\ s[i] \in one <=> t[i] \in other
                             /\ s[i] \notin one => s[i] = t[i]
<1> DEFINE Good == {s \in Seq(S) : \A t \in Seq(S) : Alike(s, t) => Kept(s, one) = Kept(t, other)}
<1>1. <<>> \in Good
  <2>1. \A t \in Seq(S) : Len(t) = 0 => t = <<>>
    BY EmptySeq
  <2> QED BY <2>1, KeptOfNothing
<1>2. ASSUME NEW s \in Good, NEW n \in S PROVE Append(s, n) \in Good
  <2> SUFFICES ASSUME NEW t \in Seq(S), Alike(Append(s, n), t)
               PROVE  Kept(Append(s, n), one) = Kept(t, other)
    BY AppendProperties
  <2>1. t # <<>> /\ Len(t) = Len(s) + 1
    OBVIOUS
  <2>2. PICK u \in Seq(S), m \in S : t = Append(u, m)
    BY <2>1, SequenceEmptyOrAppend
  <2>3. Len(u) = Len(s)
    BY <2>1, <2>2
  <2>4. Alike(s, u)
    <3>1. \A i \in DOMAIN s : /\ i \in DOMAIN Append(s, n) /\ Append(s, n)[i] = s[i]
                              /\ Append(u, m)[i] = u[i]
      BY <2>3
    <3> QED BY <2>2, <2>3, <3>1
  <2>5. (n \in one <=> m \in other) /\ (n \notin one => n = m)
    <3>1. Len(s) + 1 \in DOMAIN Append(s, n) /\ Append(s, n)[Len(s) + 1] = n
          /\ Append(u, m)[Len(s) + 1] = m
      BY <2>3
    <3> QED BY <2>2, <3>1
  <2>6. Kept(s, one) = Kept(u, other)
    BY <2>4
  <2>7. Kept(Append(s, n), one) = IF n \in one THEN Kept(s, one) ELSE Append(Kept(s, one), n)
    BY KeptOfMore
  <2>8. Kept(Append(u, m), other)
          = IF m \in other THEN Kept(u, other) ELSE Append(Kept(u, other), m)
    BY KeptOfMore
  <2> HIDE DEF Alike
  <2> QED BY <2>2, <2>5, <2>6, <2>7, <2>8
<1>3. Good = Seq(S)
  <2>1. Good \in SUBSET Seq(S)
    OBVIOUS
  <2> HIDE DEF Good
  <2> QED BY <1>1, <1>2, <2>1, ListInduction
<1>4. Alike(list, others)
  OBVIOUS
<1> HIDE DEF Alike
<1> QED BY <1>3, <1>4

\* ... a list of which all is left, or nothing, ...
LEMMA KeptAll ==
  ASSUME NEW S, NEW gone, NEW list \in Seq(S), ToSet(list) \intersect gone = {}
  PROVE  Kept(list, gone) = list
<1> DEFINE Good == {s \in Seq(S) : ToSet(s) \intersect gone = {} => Kept(s, gone) = s}
<1>1. <<>> \in Good
  BY KeptOfNothing
<1>2. ASSUME NEW s \in Good, NEW n \in S PROVE Append(s, n) \in Good
  <2>1. Append(s, n) \in Seq(S) /\ ToSet(Append(s, n)) = ToSet(s) \union {n}
    BY AppendMembers
  <2>2. Kept(Append(s, n), gone) = IF n \in gone THEN Kept(s, gone) ELSE Append(Kept(s, gone), n)
    BY KeptOfMore
  <2> QED BY <2>1, <2>2
<1>3. Good = Seq(S)
  <2>1. Good \in SUBSET Seq(S)
    OBVIOUS
  <2> HIDE DEF Good
  <2> QED BY <1>1, <1>2, <2>1, ListInduction
<1> QED BY <1>3

LEMMA KeptNone ==
  ASSUME NEW S, NEW gone, NEW list \in Seq(S), ToSet(list) \subseteq gone
  PROVE  Kept(list, gone) = <<>>
<1>1. Kept(list, gone) \in Seq(S) /\ ToSet(Kept(list, gone)) = {}
  BY KeptMembers
<1>2. Kept(list, gone) # <<>> => Kept(list, gone)[1] \in ToSet(Kept(list, gone))
  BY <1>1 DEF ToSet
<1> QED BY <1>1, <1>2

\* ... and of which more is taken away later.
LEMMA KeptTwice ==
  ASSUME NEW S, NEW gone, NEW more, NEW list \in Seq(S)
  PROVE  Kept(Kept(list, gone), more) = Kept(list, gone \union more)
<1> DEFINE Good == {s \in Seq(S) : Kept(Kept(s, gone), more) = Kept(s, gone \union more)}
<1>1. <<>> \in Good
  BY KeptOfNothing
<1>2. ASSUME NEW s \in Good, NEW n \in S PROVE Append(s, n) \in Good
  <2> DEFINE k == Kept(s, gone)
  <2>0. k \in Seq(S)
    BY KeptMembers
  <2>1. Kept(k, more) = Kept(s, gone \union more) /\ s \in Seq(S)
    OBVIOUS
  <2>2. Kept(Append(s, n), gone) = IF n \in gone THEN k ELSE Append(k, n)
    BY KeptOfMore
  <2>3. Kept(Append(s, n), gone \union more)
          = IF n \in gone \union more THEN Kept(s, gone \union more)
            ELSE Append(Kept(s, gone \union more), n)
    BY KeptOfMore
  <2> HIDE DEF k
  <2>4. Kept(Append(k, n), more) = IF n \in more THEN Kept(k, more) ELSE Append(Kept(k, more), n)
    BY <2>0, KeptOfMore
  <2>5. Kept(Kept(Append(s, n), gone), more) = Kept(Append(s, n), gone \union more)
    BY <2>1, <2>2, <2>3, <2>4
  <2> QED BY <2>5
<1>3. Good = Seq(S)
  <2>1. Good \in SUBSET Seq(S)
    OBVIOUS
  <2> HIDE DEF Good
  <2> QED BY <1>1, <1>2, <2>1, ListInduction
<1> QED BY <1>3

\* Members that are replaced one for one may be left out before or after.
LEMMA KeptReplaced ==
  ASSUME NEW S, NEW gone, NEW list \in Seq(S), NEW old \in S \ gone, NEW new \in S \ gone
  PROVE  Kept([i \in DOMAIN list |-> IF list[i] = old THEN new ELSE list[i]], gone)
           = [i \in DOMAIN Kept(list, gone) |->
                IF Kept(list, gone)[i] = old THEN new ELSE Kept(list, gone)[i]]
<1> DEFINE Renamed(s) == [i \in DOMAIN s |-> IF s[i] = old THEN new ELSE s[i]]
<1>0. ASSUME NEW s \in Seq(S), NEW n \in S
      PROVE  Renamed(s) \in Seq(S)
             /\ Renamed(Append(s, n)) = Append(Renamed(s), IF n = old THEN new ELSE n)
  <2>1. Renamed(s) \in Seq(S) /\ Len(Renamed(s)) = Len(s) /\ DOMAIN s = 1..Len(s)
    OBVIOUS
  <2>2. /\ DOMAIN Append(s, n) = 1..(Len(s) + 1) /\ Append(s, n)[Len(s) + 1] = n
        /\ \A i \in 1..Len(s) : Append(s, n)[i] = s[i]
    OBVIOUS
  <2>3. /\ Renamed(Append(s, n)) \in Seq(S) /\ Len(Renamed(Append(s, n))) = Len(s) + 1
        /\ \A i \in 1..(Len(s) + 1) :
             Renamed(Append(s, n))[i]
               = IF i = Len(s) + 1 THEN (IF n = old THEN new ELSE n) ELSE Renamed(s)[i]
    BY <2>1, <2>2
  <2>4. /\ Append(Renamed(s), IF n = old THEN new ELSE n) \in Seq(S)
        /\ Len(Append(Renamed(s), IF n = old THEN new ELSE n)) = Len(s) + 1
        /\ \A i \in 1..(Len(s) + 1) :
             Append(Renamed(s), IF n = old THEN new ELSE n)[i]
               = IF i = Len(s) + 1 THEN (IF n = old THEN new ELSE n) ELSE Renamed(s)[i]
    BY <2>1
  <2> HIDE DEF Renamed
  <2> QED BY <2>1, <2>3, <2>4, SeqEqual
<1> DEFINE Good == {s \in Seq(S) : Kept(Renamed(s), gone) = Renamed(Kept(s, gone))}
<1>1. <<>> \in Good
  <2>1. Renamed(<<>>) = <<>>
    OBVIOUS
  <2> HIDE DEF Renamed
  <2> QED BY <2>1, KeptOfNothing
<1>2. ASSUME NEW s \in Good, NEW n \in S PROVE Append(s, n) \in Good
  <2> DEFINE k == Kept(s, gone)
  <2> DEFINE m == IF n = old THEN new ELSE n
  <2>1. s \in Seq(S) /\ k \in Seq(S) /\ m \in S /\ (m \in gone <=> n \in gone)
        /\ Kept(Renamed(s), gone) = Renamed(k)
    BY KeptMembers
  <2>2. Kept(Append(s, n), gone) = IF n \in gone THEN k ELSE Append(k, n)
    BY <2>1, KeptOfMore
  <2> HIDE DEF k, Renamed
  <2>3. /\ Renamed(s) \in Seq(S) /\ Renamed(Append(s, n)) = Append(Renamed(s), m)
        /\ Renamed(Append(k, n)) = Append(Renamed(k), m)
    BY <2>1, <1>0
  <2> HIDE DEF m
  <2>4. Kept(Append(Renamed(s), m), gone)
          = IF m \in gone THEN Kept(Renamed(s), gone) ELSE Append(Kept(Renamed(s), gone), m)
    BY <2>1, <2>3, KeptOfMore
  <2>5. Kept(Renamed(Append(s, n)), gone) = Renamed(Kept(Append(s, n), gone))
    BY <2>1, <2>2, <2>3, <2>4
  <2> QED BY <2>1, <2>5
<1>3. Good = Seq(S)
  <2>1. Good \in SUBSET Seq(S)
    OBVIOUS
  <2> HIDE DEF Good
  <2> QED BY <1>1, <1>2, <2>1, ListInduction
<1>4. Kept(Renamed(list), gone) = Renamed(Kept(list, gone))
  BY <1>3
<1> QED BY <1>4

-----------------------------------------------------------------------------
\* Charts.

Chart == [nodes : Seq(Node), parent : [Node -> Node \union {NoNode}],
          children : [Node -> Seq(Node)], reads : [Node -> SUBSET Node]]

\* Parents list their children and children name their parents, but for those that are
\* about to leave, and no node is below itself: among any nodes there is one on top.
WholeBut(c, leaving) ==
  /\ c \in Chart /\ IsInjective(c.nodes)
  /\ \A m \in Node : c.parent[m] # NoNode =>
       /\ m \in Nodes(c) /\ c.parent[m] \in Nodes(c)
       /\ m \notin leaving => m \in ToSet(c.children[c.parent[m]])
  /\ \A p \in Nodes(c) :
       /\ IsInjective(c.children[p])
       /\ \A m \in ToSet(c.children[p]) : c.parent[m] = p
  /\ \A S \in SUBSET Nodes(c) : S # {} => \E m \in S : c.parent[m] \notin S
Whole(c) == WholeBut(c, {})

\* Wiring writes conditions only.
LEMMA WiredKeeps ==
  ASSUME NEW c \in Chart, NEW p
  PROVE  /\ Wired(c, p) \in Chart
         /\ Wired(c, p).nodes = c.nodes /\ Wired(c, p).parent = c.parent
         /\ Wired(c, p).children = c.children
<1>1. CASE p \notin Composite
  BY <1>1 DEF Wired
<1>2. CASE p \in Composite
  <2> DEFINE Read(n) ==
        IF n \notin ToSet(c.children[p]) THEN c.reads[n]
        ELSE LET i == CHOOSE i \in DOMAIN c.children[p] : c.children[p][i] = n
             IN IF i = 1 THEN {} ELSE {c.children[p][i - 1]}
  <2>1. Wired(c, p) = [c EXCEPT !.reads = [n \in Node |-> Read(n)]]
    BY <1>2 DEF Wired
  <2>2. ASSUME NEW n \in Node PROVE Read(n) \in SUBSET Node
    <3>1. c.children[p] \in Seq(Node) /\ c.reads[n] \in SUBSET Node
      BY <1>2, NodeAssumption DEF Chart
    <3>2. CASE n \in ToSet(c.children[p])
      <4> DEFINE i == CHOOSE i \in DOMAIN c.children[p] : c.children[p][i] = n
      <4>1. i \in DOMAIN c.children[p]
        BY <3>2 DEF ToSet
      <4>2. i # 1 => c.children[p][i - 1] \in Node
        <5> HIDE DEF i
        <5> QED BY <3>1, <4>1
      <4> HIDE DEF i
      <4>3. Read(n) = IF i = 1 THEN {} ELSE {c.children[p][i - 1]}
        BY <3>2 DEF i
      <4> HIDE DEF Read
      <4> QED BY <4>2, <4>3
    <3> QED BY <3>1, <3>2
  <2> HIDE DEF Read
  <2>3. [n \in Node |-> Read(n)] \in [Node -> SUBSET Node]
    BY <2>2
  <2> QED BY <2>1, <2>3 DEF Chart
<1> QED BY <1>1, <1>2

\* A node joins below another one, with what it was handed below it.
Joins(c, d, n, p, below) ==
  /\ d \in Chart
  /\ d.nodes = c.nodes \o <<n>> \o below
  /\ d.parent = [m \in Node |-> IF m = n THEN p
                                ELSE IF m \in ToSet(below) THEN n ELSE c.parent[m]]
  /\ d.children = c.children

LEMMA RegisteredJoins ==
  ASSUME NEW c \in Chart, NEW n \in Node, NEW p \in Node \union {NoNode},
         NEW below \in Seq(Node),
         below = IF n \in Composite THEN Kept(c.children[n], Nodes(c)) ELSE <<>>
  PROVE  Joins(c, Registered(c, n, p), n, p, below)
<1> DEFINE placed == [c EXCEPT !.nodes = @ \o <<n>> \o below,
                               !.parent = [m \in Node |-> IF m = n THEN p
                                            ELSE IF m \in ToSet(below) THEN n
                                            ELSE @[m]]]
<1>1. Registered(c, n, p) = Wired(placed, n)
  BY DEF Registered
<1>2. placed \in Chart
  <2>1. c.nodes \o <<n>> \o below \in Seq(Node)
    BY DEF Chart
  <2>2. [m \in Node |-> IF m = n THEN p ELSE IF m \in ToSet(below) THEN n ELSE c.parent[m]]
          \in [Node -> Node \union {NoNode}]
    BY DEF Chart
  <2> QED BY <2>1, <2>2 DEF Chart
<1>3. /\ placed.nodes = c.nodes \o <<n>> \o below
      /\ placed.parent = [m \in Node |-> IF m = n THEN p
                            ELSE IF m \in ToSet(below) THEN n ELSE c.parent[m]]
      /\ placed.children = c.children
  BY DEF Chart
<1>4. PICK d \in Chart : d = placed
  BY <1>2
<1>5. /\ Wired(d, n) \in Chart
      /\ Wired(d, n).nodes = d.nodes /\ Wired(d, n).parent = d.parent
      /\ Wired(d, n).children = d.children
  BY WiredKeeps
<1>6. Registered(c, n, p) = Wired(d, n)
  BY <1>1, <1>4
<1>7. /\ d.nodes = c.nodes \o <<n>> \o below
      /\ d.parent = [m \in Node |-> IF m = n THEN p
                        ELSE IF m \in ToSet(below) THEN n ELSE c.parent[m]]
      /\ d.children = c.children
  BY <1>3, <1>4
<1> HIDE DEF placed
<1> QED BY <1>5, <1>6, <1>7 DEF Joins

LEMMA MembersOfBoth ==
  ASSUME NEW S, NEW l \in Seq(S), NEW m \in Seq(S)
  PROVE  /\ ToSet(l \o m) = ToSet(l) \union ToSet(m)
         /\ IsInjective(l) /\ IsInjective(m) /\ ToSet(l) \intersect ToSet(m) = {}
              => IsInjective(l \o m)
<1> DEFINE b == l \o m
<1>1. /\ b \in Seq(S) /\ Len(b) = Len(l) + Len(m) /\ Len(l) \in Nat /\ Len(m) \in Nat
      /\ \A i \in 1..Len(l) : b[i] = l[i]
      /\ \A i \in 1..Len(m) : b[Len(l) + i] = m[i]
      /\ DOMAIN b = 1..(Len(l) + Len(m)) /\ DOMAIN l = 1..Len(l) /\ DOMAIN m = 1..Len(m)
  OBVIOUS
<1> HIDE DEF b
<1>2. \A i \in DOMAIN b : \/ /\ i \in DOMAIN l /\ b[i] = l[i]
                          \/ /\ i - Len(l) \in DOMAIN m /\ b[i] = m[i - Len(l)]
  <2> SUFFICES ASSUME NEW i \in DOMAIN b
               PROVE  \/ /\ i \in DOMAIN l /\ b[i] = l[i]
                      \/ /\ i - Len(l) \in DOMAIN m /\ b[i] = m[i - Len(l)]
    OBVIOUS
  <2>1. CASE i <= Len(l)
    BY <1>1, <2>1
  <2>2. CASE i > Len(l)
    <3>1. i - Len(l) \in 1..Len(m) /\ Len(l) + (i - Len(l)) = i
      BY <1>1, <2>2
    <3> QED BY <1>1, <3>1
  <2> QED BY <1>1, <2>1, <2>2
<1>3. ToSet(b) = ToSet(l) \union ToSet(m)
  <2>1. ToSet(b) \subseteq ToSet(l) \union ToSet(m)
    BY <1>2 DEF ToSet
  <2>2. \A i \in DOMAIN m : Len(l) + i \in DOMAIN b /\ b[Len(l) + i] = m[i]
    BY <1>1
  <2>3. \A i \in DOMAIN l : i \in DOMAIN b /\ b[i] = l[i]
    BY <1>1
  <2>4. ToSet(l) \subseteq ToSet(b)
    BY <2>3 DEF ToSet
  <2>5. ToSet(m) \subseteq ToSet(b)
    BY <2>2 DEF ToSet
  <2> QED BY <2>1, <2>4, <2>5
<1>4. ASSUME IsInjective(l), IsInjective(m), ToSet(l) \intersect ToSet(m) = {}
      PROVE  IsInjective(b)
  <2>1. \A i \in DOMAIN l, j \in DOMAIN m : l[i] # m[j]
    BY <1>4 DEF ToSet
  <2>2. ASSUME NEW i \in DOMAIN b, NEW j \in DOMAIN b, b[i] = b[j] PROVE i = j
    <3>1. CASE i \in DOMAIN l /\ b[i] = l[i] /\ j \in DOMAIN l /\ b[j] = l[j]
      BY <1>4, <2>2, <3>1 DEF IsInjective
    <3>2. CASE /\ i - Len(l) \in DOMAIN m /\ b[i] = m[i - Len(l)]
               /\ j - Len(l) \in DOMAIN m /\ b[j] = m[j - Len(l)]
      <4>1. i - Len(l) = j - Len(l)
        BY <1>4, <2>2, <3>2 DEF IsInjective
      <4> QED BY <1>1, <4>1
    <3>3. /\ ~ (i \in DOMAIN l /\ b[i] = l[i] /\ j - Len(l) \in DOMAIN m /\ b[j] = m[j - Len(l)])
          /\ ~ (j \in DOMAIN l /\ b[j] = l[j] /\ i - Len(l) \in DOMAIN m /\ b[i] = m[i - Len(l)])
      BY <2>1, <2>2
    <3>4. /\ \/ i \in DOMAIN l /\ b[i] = l[i]
             \/ i - Len(l) \in DOMAIN m /\ b[i] = m[i - Len(l)]
          /\ \/ j \in DOMAIN l /\ b[j] = l[j]
             \/ j - Len(l) \in DOMAIN m /\ b[j] = m[j - Len(l)]
      BY <1>2
    <3> QED BY <3>1, <3>2, <3>3, <3>4
  <2> QED BY <2>2 DEF IsInjective
<1> QED BY <1>3, <1>4 DEF b

LEMMA JoiningNodes ==
  ASSUME NEW l \in Seq(Node), NEW n \in Node, n \notin ToSet(l), NEW below \in Seq(Node),
         ToSet(below) \intersect (ToSet(l) \union {n}) = {}
  PROVE  /\ l \o <<n>> \o below \in Seq(Node)
         /\ ToSet(l \o <<n>> \o below) = ToSet(l) \union {n} \union ToSet(below)
         /\ IsInjective(l) /\ IsInjective(below) => IsInjective(l \o <<n>> \o below)
<1>0. Append(l, n) \in Seq(Node)
  OBVIOUS
<1>1. PICK k \in Seq(Node) : k = Append(l, n)
  BY <1>0
<1>2. l \o <<n>> = k
  BY <1>1
<1>3. ToSet(k) = ToSet(l) \union {n} /\ (IsInjective(l) => IsInjective(k))
  BY <1>1, AppendMembers
<1>4. /\ ToSet(k \o below) = ToSet(k) \union ToSet(below)
      /\ IsInjective(k) /\ IsInjective(below) /\ ToSet(k) \intersect ToSet(below) = {}
           => IsInjective(k \o below)
  BY MembersOfBoth
<1>5. k \o below \in Seq(Node)
  OBVIOUS
<1> QED BY <1>2, <1>3, <1>4, <1>5

\* What being whole says of parents, in two parts.
LEMMA WholeParents ==
  ASSUME NEW c, NEW leaving, WholeBut(c, leaving)
  PROVE  /\ c \in Chart /\ IsInjective(c.nodes) /\ Nodes(c) \subseteq Node
         /\ \A m \in Node : c.parent[m] \in Nodes(c) \union {NoNode}
         /\ \A m \in Node : m \notin Nodes(c) => c.parent[m] = NoNode
         /\ \A m \in Node : c.parent[m] # NoNode /\ m \notin leaving
                              => m \in ToSet(c.children[c.parent[m]])
         /\ \A p \in Nodes(c) : c.children[p] \in Seq(Node) /\ ToSet(c.children[p]) \subseteq Nodes(c)
<1>1. c \in Chart /\ IsInjective(c.nodes)
  BY DEF WholeBut
<1>2. Nodes(c) \subseteq Node
  BY <1>1 DEF Chart, Nodes, ToSet
<1>3. ASSUME NEW p \in Nodes(c) PROVE c.children[p] \in Seq(Node)
  BY <1>1, <1>2 DEF Chart
<1>4. ASSUME NEW p \in Nodes(c), NEW m \in ToSet(c.children[p]) PROVE m \in Nodes(c)
  <2>1. m \in Node
    BY <1>3 DEF ToSet
  <2>2. c.parent[m] = p /\ p # NoNode
    BY <1>2, NodeAssumption DEF WholeBut
  <2> QED BY <2>1, <2>2 DEF WholeBut
<1> QED BY <1>1, <1>2, <1>3, <1>4 DEF WholeBut

\* A node that is listed below its parent, or on top, joins with nodes that hold none.
Accepts(c, d, n, p, below, leaving) ==
  /\ d \in Chart /\ d.nodes = c.nodes \o <<n>> \o below
  /\ \A m \in Node : d.parent[m] = IF m = n THEN p
                                   ELSE IF m \in ToSet(below) THEN n ELSE c.parent[m]
  /\ d.children[n] = below /\ \A m \in ToSet(below) : d.children[m] = <<>>
  /\ \A q \in Nodes(c) \ {p} : d.children[q] = c.children[q]
  /\ p # NoNode => /\ IsInjective(d.children[p]) /\ n \in ToSet(d.children[p])
                   /\ ToSet(d.children[p]) \subseteq ToSet(c.children[p]) \union {n}
                   /\ ToSet(c.children[p]) \ leaving \subseteq ToSet(d.children[p])

LEMMA JoinedIsWhole ==
  ASSUME NEW c, Whole(c), NEW n \in Node \ Nodes(c), NEW p \in Nodes(c) \union {NoNode},
         NEW leaving, NEW below \in Seq(Node), IsInjective(below),
         ToSet(below) \intersect (Nodes(c) \union {n}) = {},
         NEW d, Accepts(c, d, n, p, below, leaving)
  PROVE  WholeBut(d, leaving) /\ Nodes(d) = Nodes(c) \union {n} \union ToSet(below)
<1> DEFINE b == ToSet(below)
<1> USE DEF Accepts
<1>1. /\ c \in Chart /\ IsInjective(c.nodes) /\ Nodes(c) \subseteq Node
      /\ \A m \in Node : c.parent[m] \in Nodes(c) \union {NoNode}
      /\ \A m \in Node : m \notin Nodes(c) => c.parent[m] = NoNode
      /\ \A m \in Node : c.parent[m] # NoNode => m \in ToSet(c.children[c.parent[m]])
      /\ \A q \in Nodes(c) : ToSet(c.children[q]) \subseteq Nodes(c)
  BY WholeParents DEF Whole
<1>2. c.nodes \in Seq(Node) /\ b \subseteq Node /\ NoNode \notin Node
  BY <1>1, NodeAssumption DEF Chart, ToSet
<1>3. IsInjective(d.nodes) /\ Nodes(d) = Nodes(c) \union {n} \union b
  <2>1. PICK l \in Seq(Node) : l = c.nodes
    BY <1>2
  <2>2. n \notin ToSet(l) /\ ToSet(below) \intersect (ToSet(l) \union {n}) = {}
    BY <2>1 DEF Nodes
  <2>3. /\ ToSet(l \o <<n>> \o below) = ToSet(l) \union {n} \union ToSet(below)
        /\ IsInjective(l) /\ IsInjective(below) => IsInjective(l \o <<n>> \o below)
    BY <2>2, JoiningNodes
  <2> QED BY <1>1, <2>1, <2>3 DEF Nodes
<1>4. /\ d.parent[n] = p /\ \A m \in b : d.parent[m] = n
      /\ \A m \in Node \ ({n} \union b) : d.parent[m] = c.parent[m]
  BY <1>2
<1>5. b \intersect Nodes(c) = {} /\ n \notin b
  OBVIOUS
<1> HIDE DEF b
<1>6. ASSUME NEW m \in Node, d.parent[m] # NoNode
      PROVE  /\ m \in Nodes(d) /\ d.parent[m] \in Nodes(d)
             /\ m \notin leaving => m \in ToSet(d.children[d.parent[m]])
  <2>1. CASE m = n
    BY <1>3, <1>4, <1>6, <2>1
  <2>2. CASE m \in b
    BY <1>3, <1>4, <2>2 DEF b
  <2>3. CASE m \notin b /\ m # n
    <3>1. d.parent[m] = c.parent[m] /\ c.parent[m] \in Nodes(c) /\ m \in Nodes(c)
          /\ m \in ToSet(c.children[c.parent[m]])
      BY <1>1, <1>4, <1>6, <2>3
    <3>2. m \notin leaving => m \in ToSet(d.children[c.parent[m]])
      BY <1>1, <1>2, <3>1
    <3> QED BY <1>3, <3>1, <3>2
  <2> QED BY <2>1, <2>2, <2>3
<1>7. ASSUME NEW q \in Nodes(d)
      PROVE  IsInjective(d.children[q]) /\ \A m \in ToSet(d.children[q]) : d.parent[m] = q
  <2>1. CASE q = n
    BY <1>4, <2>1 DEF b
  <2>2. CASE q \in b
    <3>1. IsInjective(<<>>) /\ ToSet(<<>>) = {}
      BY DEF IsInjective, ToSet
    <3> QED BY <2>2, <3>1 DEF b
  <2>3. CASE q \in Nodes(c)
    <3>1. IsInjective(c.children[q]) /\ \A m \in ToSet(c.children[q]) : c.parent[m] = q /\ m \in Nodes(c)
      BY <1>1, <2>3 DEF Whole, WholeBut
    <3>2. \A m \in Nodes(c) : d.parent[m] = c.parent[m]
      BY <1>1, <1>4, <1>5
    <3>3. CASE q # p
      BY <2>3, <3>1, <3>2, <3>3
    <3>4. CASE q = p
      <4>1. p # NoNode
        BY <1>1, <1>2, <2>3, <3>4
      <4> QED BY <1>4, <3>1, <3>2, <3>4, <4>1
    <3> QED BY <3>3, <3>4
  <2> QED BY <1>3, <2>1, <2>2, <2>3
<1>8. ASSUME NEW S \in SUBSET Nodes(d), S # {}
      PROVE  \E m \in S : d.parent[m] \notin S
  <2>1. CASE S \intersect Nodes(c) # {}
    <3>1. PICK m \in S \intersect Nodes(c) : c.parent[m] \notin S \intersect Nodes(c)
      <4>1. S \intersect Nodes(c) \in SUBSET Nodes(c)
        OBVIOUS
      <4> QED BY <2>1, <4>1 DEF Whole, WholeBut
    <3>2. d.parent[m] = c.parent[m] /\ c.parent[m] \in Nodes(c) \union {NoNode}
      BY <1>1, <1>4, <1>5
    <3>3. NoNode \notin S
      BY <1>1, <1>2, <1>3
    <3>4. m \in S /\ d.parent[m] \notin S
      BY <3>1, <3>2, <3>3
    <3> QED BY <3>4
  <2>2. CASE S \intersect Nodes(c) = {} /\ n \in S
    <3>1. p \notin S
      BY <1>1, <1>2, <1>3, <2>2
    <3>2. n \in S /\ d.parent[n] \notin S
      BY <1>4, <2>2, <3>1
    <3> QED BY <3>2
  <2>3. CASE n \notin S /\ S \intersect b # {}
    <3>1. PICK m \in S : m \in b
      BY <2>3
    <3>2. d.parent[m] = n
      BY <1>4, <3>1
    <3>3. m \in S /\ d.parent[m] \notin S
      BY <2>3, <3>1, <3>2
    <3> QED BY <3>3
  <2>4. \/ S \intersect Nodes(c) # {}
        \/ S \intersect Nodes(c) = {} /\ n \in S
        \/ n \notin S /\ S \intersect b # {}
    BY <1>3, <1>8
  <2> QED BY <2>1, <2>2, <2>3, <2>4
<1> QED BY <1>3, <1>6, <1>7, <1>8 DEF WholeBut, b

\* A list with a member replaced by another.
Renamed(list, old, new) == [i \in DOMAIN list |-> IF list[i] = old THEN new ELSE list[i]]

LEMMA RenamedSet ==
  ASSUME NEW l \in Seq(Node), IsInjective(l), NEW old \in ToSet(l), NEW new \in Node,
         new \notin ToSet(l)
  PROVE  /\ Renamed(l, old, new) \in Seq(Node) /\ IsInjective(Renamed(l, old, new))
         /\ ToSet(Renamed(l, old, new)) = (ToSet(l) \ {old}) \union {new}
<1>1. PICK m : m = Renamed(l, old, new)
  OBVIOUS
<1>2. m \in Seq(Node)
  BY <1>1 DEF Renamed
<1>3. DOMAIN m = DOMAIN l /\ \A i \in DOMAIN l : m[i] = IF l[i] = old THEN new ELSE l[i]
  BY <1>1 DEF Renamed
<1>4. \A i \in DOMAIN l : l[i] # new
  BY DEF ToSet
<1>5. PICK k \in DOMAIN l : l[k] = old
  BY DEF ToSet
<1>6. IsInjective(m)
  BY <1>3, <1>4 DEF IsInjective
<1>7. ToSet(m) \subseteq (ToSet(l) \ {old}) \union {new}
  BY <1>3 DEF ToSet
<1>8. (ToSet(l) \ {old}) \union {new} \subseteq ToSet(m)
  BY <1>3, <1>5 DEF ToSet
<1> QED BY <1>1, <1>2, <1>6, <1>7, <1>8

\* A holder takes the place of a node, and holds it.
LEMMA WrappedIsWhole ==
  ASSUME NEW c, Whole(c), NEW n \in Nodes(c), NEW r \in Node \ Nodes(c), NEW p,
         p = c.parent[n], c.children[r] = <<>>,
         NEW d \in Chart, d.nodes = Append(c.nodes, r),
         \A m \in Node : d.parent[m] = IF m = n THEN r ELSE IF m = r THEN p ELSE c.parent[m],
         d.children[r] = <<n>>,
         \A q \in Nodes(c) \ {p} : d.children[q] = c.children[q],
         p # NoNode => d.children[p] = Renamed(c.children[p], n, r)
  PROVE  Whole(d) /\ Nodes(d) = Nodes(c) \union {r}
<1>1. /\ c \in Chart /\ IsInjective(c.nodes) /\ Nodes(c) \subseteq Node
      /\ \A m \in Node : c.parent[m] \in Nodes(c) \union {NoNode}
      /\ \A m \in Node : m \notin Nodes(c) => c.parent[m] = NoNode
      /\ \A m \in Node : c.parent[m] # NoNode => m \in ToSet(c.children[c.parent[m]])
      /\ \A q \in Nodes(c) : c.children[q] \in Seq(Node) /\ ToSet(c.children[q]) \subseteq Nodes(c)
  BY WholeParents DEF Whole
<1>2. c.nodes \in Seq(Node) /\ NoNode \notin Node /\ n \in Node /\ n # r /\ p # r
      /\ p \in Nodes(c) \union {NoNode} /\ c.parent \in [Node -> Node \union {NoNode}]
  BY <1>1, NodeAssumption DEF Chart
<1>3. IsInjective(d.nodes) /\ Nodes(d) = Nodes(c) \union {r}
  <2>1. PICK l \in Seq(Node) : l = c.nodes
    BY <1>2
  <2>2. ToSet(Append(l, r)) = ToSet(l) \union {r}
        /\ (IsInjective(l) /\ r \notin ToSet(l) => IsInjective(Append(l, r)))
    BY AppendMembers
  <2> QED BY <1>1, <2>1, <2>2 DEF Nodes
<1>4. d.parent[n] = r /\ d.parent[r] = p
      /\ \A m \in Node \ {n, r} : d.parent[m] = c.parent[m]
  BY <1>2
<1>5. p # n
  <2>1. PICK m \in {n} : c.parent[m] \notin {n}
    <3>1. {n} \in SUBSET Nodes(c) /\ {n} # {}
      OBVIOUS
    <3> QED BY <3>1 DEF Whole, WholeBut
  <2> QED BY <2>1
<1>6. ASSUME p # NoNode
      PROVE  /\ IsInjective(d.children[p])
             /\ ToSet(d.children[p]) = (ToSet(c.children[p]) \ {n}) \union {r}
  <2>1. p \in Nodes(c) /\ IsInjective(c.children[p]) /\ c.children[p] \in Seq(Node)
        /\ n \in ToSet(c.children[p]) /\ r \notin ToSet(c.children[p])
    BY <1>1, <1>2, <1>6 DEF Whole, WholeBut
  <2>2. PICK l \in Seq(Node) : l = c.children[p]
    BY <2>1
  <2>3. /\ IsInjective(Renamed(l, n, r))
        /\ ToSet(Renamed(l, n, r)) = (ToSet(l) \ {n}) \union {r}
    BY <2>1, <2>2, RenamedSet
  <2> QED BY <1>6, <2>2, <2>3
<1>7. ASSUME NEW m \in Node, d.parent[m] # NoNode
      PROVE  /\ m \in Nodes(d) /\ d.parent[m] \in Nodes(d)
             /\ m \in ToSet(d.children[d.parent[m]])
  <2>1. CASE m = n
    <3>1. n \in ToSet(<<n>>)
      BY DEF ToSet
    <3> QED BY <1>3, <1>4, <2>1, <3>1
  <2>2. CASE m = r
    BY <1>2, <1>3, <1>4, <1>6, <1>7, <2>2
  <2>3. CASE m # n /\ m # r
    <3>1. d.parent[m] = c.parent[m] /\ c.parent[m] \in Nodes(c) /\ m \in Nodes(c)
          /\ m \in ToSet(c.children[c.parent[m]])
      BY <1>1, <1>4, <1>7, <2>3
    <3>2. CASE c.parent[m] = p
      BY <1>2, <1>3, <1>6, <1>7, <2>3, <3>1, <3>2
    <3>3. CASE c.parent[m] # p
      BY <1>3, <3>1, <3>3
    <3> QED BY <3>2, <3>3
  <2> QED BY <2>1, <2>2, <2>3
<1>8. ASSUME NEW q \in Nodes(d)
      PROVE  IsInjective(d.children[q]) /\ \A m \in ToSet(d.children[q]) : d.parent[m] = q
  <2>1. CASE q = r
    <3>1. IsInjective(<<n>>) /\ ToSet(<<n>>) = {n}
      BY DEF IsInjective, ToSet
    <3> QED BY <1>4, <2>1, <3>1
  <2>2. CASE q \in Nodes(c)
    <3>1. IsInjective(c.children[q]) /\ \A m \in ToSet(c.children[q]) :
             c.parent[m] = q /\ m \in Nodes(c)
      BY <1>1, <2>2 DEF Whole, WholeBut
    <3>2. \A m \in Nodes(c) \ {n} : d.parent[m] = c.parent[m]
      BY <1>1, <1>4
    <3>3. CASE q # p
      BY <2>2, <3>1, <3>2, <3>3
    <3>4. CASE q = p
      <4>1. p # NoNode
        BY <1>1, <1>2, <2>2, <3>4
      <4> QED BY <1>4, <1>6, <3>1, <3>2, <3>4, <4>1
    <3> QED BY <3>3, <3>4
  <2> QED BY <1>3, <2>1, <2>2
<1>9. ASSUME NEW S \in SUBSET Nodes(d), S # {}
      PROVE  \E m \in S : d.parent[m] \notin S
  <2>1. NoNode \notin S
    BY <1>1, <1>2, <1>3
  <2>2. CASE S \intersect Nodes(c) = {}
    <3>1. r \in S /\ p \notin S
      BY <1>2, <1>3, <1>9, <2>1, <2>2
    <3>2. d.parent[r] \notin S
      BY <1>4, <3>1
    <3> QED BY <3>1, <3>2
  <2>3. CASE S \intersect Nodes(c) # {}
    <3>1. PICK m \in S \intersect Nodes(c) : c.parent[m] \notin S \intersect Nodes(c)
      <4>1. S \intersect Nodes(c) \in SUBSET Nodes(c)
        OBVIOUS
      <4> QED BY <2>3, <4>1 DEF Whole, WholeBut
    <3>2. c.parent[m] \notin S
      BY <1>1, <2>1, <3>1
    <3>3. CASE m # n
      <4>1. m \in S /\ d.parent[m] \notin S
        BY <1>1, <1>4, <3>1, <3>2, <3>3
      <4> QED BY <4>1
    <3>4. CASE m = n /\ r \in S
      <4>1. d.parent[r] \notin S
        BY <1>4, <3>2, <3>4
      <4> QED BY <3>4, <4>1
    <3>5. CASE m = n /\ r \notin S
      <4>1. n \in S /\ d.parent[n] \notin S
        BY <1>4, <3>1, <3>5
      <4> QED BY <4>1
    <3> QED BY <3>3, <3>4, <3>5
  <2> QED BY <2>2, <2>3
<1> QED BY <1>3, <1>7, <1>8, <1>9 DEF Whole, WholeBut

\* Nodes leave with whatever is below them.
LEMMA WithoutIsWhole ==
  ASSUME NEW c, NEW gone \in SUBSET Node, WholeBut(c, gone),
         \A m \in Node : c.parent[m] \in gone => m \in gone
  PROVE  Whole(Without(c, gone)) /\ Nodes(Without(c, gone)) = Nodes(c) \ gone
<1>1. /\ c \in Chart /\ IsInjective(c.nodes) /\ Nodes(c) \subseteq Node
      /\ \A m \in Node : c.parent[m] \in Nodes(c) \union {NoNode}
      /\ \A m \in Node : m \notin Nodes(c) => c.parent[m] = NoNode
      /\ \A m \in Node : c.parent[m] # NoNode /\ m \notin gone
                           => m \in ToSet(c.children[c.parent[m]])
      /\ \A q \in Nodes(c) : c.children[q] \in Seq(Node) /\ ToSet(c.children[q]) \subseteq Nodes(c)
  BY WholeParents
<1>2. PICK d : d = Without(c, gone)
  OBVIOUS
<1>3. /\ d.nodes = Kept(c.nodes, gone)
      /\ d.parent = [n \in Node |-> IF n \in gone THEN NoNode ELSE c.parent[n]]
      /\ d.children = [p \in Node |-> IF p \in gone THEN c.children[p] ELSE Kept(c.children[p], gone)]
      /\ d.reads = c.reads
      /\ d = [nodes |-> d.nodes, parent |-> d.parent, children |-> d.children, reads |-> d.reads]
  BY <1>2 DEF Without
<1>4. d.nodes \in Seq(Node) /\ Nodes(d) = Nodes(c) \ gone /\ IsInjective(d.nodes)
  <2>1. c.nodes \in Seq(Node)
    BY <1>1 DEF Chart
  <2> QED BY <1>1, <1>3, <2>1, KeptMembers DEF Nodes
<1>5. \A p \in Node : /\ c.children[p] \in Seq(Node)
                      /\ Kept(c.children[p], gone) \in Seq(Node)
                      /\ ToSet(Kept(c.children[p], gone)) = ToSet(c.children[p]) \ gone
                      /\ IsInjective(c.children[p]) => IsInjective(Kept(c.children[p], gone))
  <2>1. \A p \in Node : c.children[p] \in Seq(Node)
    BY <1>1 DEF Chart
  <2> QED BY <2>1, KeptMembers
<1>6. d \in Chart
  <2>1. d.parent \in [Node -> Node \union {NoNode}]
    BY <1>1, <1>3
  <2>2. d.children \in [Node -> Seq(Node)]
    BY <1>3, <1>5
  <2>3. d.reads \in [Node -> SUBSET Node]
    BY <1>1, <1>3 DEF Chart
  <2> QED BY <1>3, <1>4, <2>1, <2>2, <2>3 DEF Chart
<1>7. \A n \in Node : d.parent[n] = IF n \in gone THEN NoNode ELSE c.parent[n]
  BY <1>3
<1>8. ASSUME NEW m \in Node, d.parent[m] # NoNode
      PROVE  /\ m \in Nodes(d) /\ d.parent[m] \in Nodes(d)
             /\ m \in ToSet(d.children[d.parent[m]])
  <2>1. m \notin gone /\ d.parent[m] = c.parent[m]
    BY <1>7, <1>8
  <2>2. c.parent[m] \in Nodes(c) \ gone /\ m \in Nodes(c) /\ m \in ToSet(c.children[c.parent[m]])
    BY <1>1, <1>8, <2>1
  <2>3. d.children[c.parent[m]] = Kept(c.children[c.parent[m]], gone)
    BY <1>1, <1>3, <2>2
  <2> QED BY <1>1, <1>4, <1>5, <2>1, <2>2, <2>3
<1>9. ASSUME NEW q \in Nodes(d)
      PROVE  IsInjective(d.children[q]) /\ \A m \in ToSet(d.children[q]) : d.parent[m] = q
  <2>1. q \in Nodes(c) /\ q \in Node /\ q \notin gone
    BY <1>1, <1>4
  <2>2. d.children[q] = Kept(c.children[q], gone)
    BY <1>3, <2>1
  <2>3. IsInjective(c.children[q]) /\ \A m \in ToSet(c.children[q]) : c.parent[m] = q /\ m \in Node
    BY <1>1, <2>1 DEF WholeBut
  <2> QED BY <1>5, <1>7, <2>1, <2>2, <2>3, SMTT(30)
<1>10. ASSUME NEW S \in SUBSET Nodes(d), S # {}
       PROVE  \E m \in S : d.parent[m] \notin S
  <2>1. PICK m \in S : c.parent[m] \notin S
    <3>1. S \in SUBSET Nodes(c)
      BY <1>4
    <3> QED BY <1>10, <3>1 DEF WholeBut
  <2>2. m \in Node /\ m \notin gone
    BY <1>1, <1>4
  <2>3. d.parent[m] \notin S
    BY <1>7, <2>1, <2>2
  <2> QED BY <2>3
<1> QED BY <1>2, <1>4, <1>6, <1>8, <1>9, <1>10 DEF Whole, WholeBut
-----------------------------------------------------------------------------
\* Putting replaced nodes back.

Record == [node : Node, replacement : Node, parent : Node \union {NoNode},
           reads : SUBSET Node]

LEMMA RenamedMembers ==
  ASSUME NEW list \in Seq(Node), NEW old \in Node, NEW new \in Node
  PROVE  Renamed(list, old, new) \in Seq(Node)
         /\ ToSet(Renamed(list, old, new)) \subseteq ToSet(list) \union {new}
<1>1. Renamed(list, old, new) \in Seq(Node)
  BY DEF Renamed
<1>2. DOMAIN Renamed(list, old, new) = DOMAIN list
      /\ \A i \in DOMAIN list : Renamed(list, old, new)[i] \in {list[i], new}
  BY DEF Renamed
<1> QED BY <1>1, <1>2 DEF ToSet

\* A substitute is listed below one parent, where the child was.
Lists(c, d, p, child, substitute) ==
  /\ d \in Chart /\ d.nodes = c.nodes /\ d.parent = c.parent /\ d.reads = c.reads
  /\ \A q \in Node \ {p} : d.children[q] = c.children[q]
  /\ p \in Node => d.children[p] = Renamed(c.children[p], child, substitute)

LEMMA ListedKeeps ==
  ASSUME NEW c \in Chart, NEW p \in Node \union {NoNode}, NEW child \in Node,
         NEW substitute \in Node
  PROVE  Lists(c, ListedInPlaceOf(c, p, child, substitute), p, child, substitute)
<1>0. PICK d : d = ListedInPlaceOf(c, p, child, substitute)
  OBVIOUS
<1> SUFFICES Lists(c, d, p, child, substitute)
  BY <1>0
<1>1. CASE p = NoNode
  <2>1. d = c
    BY <1>0, <1>1 DEF ListedInPlaceOf
  <2> QED BY <1>1, <2>1, NodeAssumption DEF Lists
<1>2. CASE p \in Node /\ p # NoNode
  <2>1. d = [c EXCEPT !.children[p] = Renamed(c.children[p], child, substitute)]
    BY <1>0, <1>2 DEF ListedInPlaceOf, Renamed
  <2>2. c.children \in [Node -> Seq(Node)]
    BY DEF Chart
  <2>3. Renamed(c.children[p], child, substitute) \in Seq(Node)
    BY <1>2, <2>2, RenamedMembers
  <2>4. /\ d.nodes = c.nodes /\ d.parent = c.parent /\ d.reads = c.reads
        /\ d.children = [c.children EXCEPT ![p] = Renamed(c.children[p], child, substitute)]
    BY <2>1 DEF Chart
  <2>5. d.children \in [Node -> Seq(Node)]
    BY <2>2, <2>3, <2>4
  <2>6. d \in Chart
    BY <2>1, <2>4, <2>5 DEF Chart
  <2> QED BY <1>2, <2>2, <2>4, <2>6 DEF Lists
<1> QED BY <1>1, <1>2

Restores(c, d, record) ==
  /\ d \in Chart /\ d.nodes = c.nodes
  /\ d.parent = [c.parent EXCEPT ![record.node] = record.parent]
  /\ \A q \in Node \ {record.parent} : d.children[q] = c.children[q]
  /\ record.parent \in Node =>
       d.children[record.parent]
         = Renamed(c.children[record.parent], record.replacement, record.node)

LEMMA PutBackKeeps ==
  ASSUME NEW c \in Chart, NEW record \in Record
  PROVE  Restores(c, PutBack(record, c), record)
<1>8. PICK d : d = PutBack(record, c)
  OBVIOUS
<1>0. record.node \in Node /\ record.replacement \in Node /\ record.reads \in SUBSET Node
      /\ record.parent \in Node \union {NoNode}
  BY DEF Record
<1>1. PICK n \in Node, r \in Node, p \in Node \union {NoNode}, reads \in SUBSET Node :
        n = record.node /\ r = record.replacement /\ p = record.parent /\ reads = record.reads
  BY <1>0
<1>2. PICK e : e = ListedInPlaceOf(c, p, r, n)
  OBVIOUS
<1>3. /\ e \in Chart /\ e.nodes = c.nodes /\ e.parent = c.parent /\ e.reads = c.reads
      /\ \A q \in Node \ {p} : e.children[q] = c.children[q]
      /\ p \in Node => e.children[p] = Renamed(c.children[p], r, n)
  <2>1. Lists(c, e, p, r, n)
    BY <1>2, ListedKeeps
  <2> QED BY <2>1 DEF Lists
<1>4. d = [e EXCEPT !.parent[n] = p, !.reads[n] = reads]
  BY <1>1, <1>2, <1>8 DEF PutBack
<1>5. /\ d.nodes = e.nodes /\ d.children = e.children
      /\ d.parent = [e.parent EXCEPT ![n] = p]
      /\ d.reads = [e.reads EXCEPT ![n] = reads]
      /\ d = [nodes |-> d.nodes, parent |-> d.parent, children |-> d.children, reads |-> d.reads]
  BY <1>3, <1>4 DEF Chart
<1>6. d.parent \in [Node -> Node \union {NoNode}] /\ d.reads \in [Node -> SUBSET Node]
      /\ d.nodes \in Seq(Node) /\ d.children \in [Node -> Seq(Node)]
  BY <1>3, <1>5 DEF Chart
<1>7. d \in Chart
  BY <1>5, <1>6 DEF Chart
<1>9. Restores(c, d, record)
  BY <1>1, <1>3, <1>5, <1>7 DEF Restores
<1> QED BY <1>8, <1>9

\* What holds at the end of some numbers, and of a number when of the next, holds of all.
LEMMA Downwards ==
  ASSUME NEW k \in Nat, NEW l \in Nat, k <= l, NEW G, l \in G,
         \A i \in k..(l - 1) : i + 1 \in G => i \in G
  PROVE  k..l \subseteq G
<1> DEFINE T == {d \in 0..(l - k) : l - d \notin G}
<1>1. T = {}
  <2> SUFFICES ASSUME T # {} PROVE FALSE
    OBVIOUS
  <2>1. PICK d \in T : \A e \in T : d <= e
    <3>1. T \in SUBSET Nat
      OBVIOUS
    <3> HIDE DEF T
    <3> QED BY <3>1, LeastOf
  <2>2. d \in 1..(l - k) /\ l - d \notin G
    BY <2>1
  <2>3. d - 1 \notin T
    <3> HIDE DEF T
    <3> QED BY <2>1, <2>2
  <2>4. l - (d - 1) \in G /\ l - d \in k..(l - 1) /\ l - (d - 1) = (l - d) + 1
    BY <2>2, <2>3
  <2> QED BY <2>2, <2>4
<1>2. ASSUME NEW i \in k..l PROVE i \in G
  <2>1. l - i \in 0..(l - k) /\ l - (l - i) = i
    OBVIOUS
  <2>2. l - (l - i) \in G
    BY <1>1, <2>1
  <2> QED BY <2>1, <2>2
<1> QED BY <1>2

\* The charts while records are put back, the latest first, as PutBackFrom computes them.
IsPuttingBack(f, k, records, c) ==
  /\ f[Len(records)] = c
  /\ \A i \in k..(Len(records) - 1) : f[i] = PutBack(records[i + 1], f[i + 1])

PutBackAt(f, records, c, i) ==
  IF i = Len(records) THEN c ELSE PutBack(records[i + 1], f[i + 1])
IsPutBack(f, k, records, c) ==
  f = [i \in k..Len(records) |-> PutBackAt(f, records, c, i)]

LEMMA PuttingBackExists ==
  ASSUME NEW records \in Seq(Record), NEW k \in 0..Len(records), NEW c
  PROVE  \E f : IsPuttingBack(f, k, records, c) /\ IsPutBack(f, k, records, c)
<1> DEFINE G == {i \in k..Len(records) :
                   \E f : /\ f = [j \in i..Len(records) |-> f[j]]
                          /\ IsPuttingBack(f, i, records, c)}
<1>0. Len(records) \in Nat /\ k \in Nat /\ k <= Len(records)
  OBVIOUS
<1>1. Len(records) \in G
  <2>1. PICK f : f = [i \in Len(records)..Len(records) |-> c]
    OBVIOUS
  <2>2. /\ IsPuttingBack(f, Len(records), records, c)
        /\ f = [j \in Len(records)..Len(records) |-> f[j]]
    BY <1>0, <2>1 DEF IsPuttingBack
  <2> QED BY <1>0, <2>2
<1>2. ASSUME NEW i \in k..(Len(records) - 1), i + 1 \in G PROVE i \in G
  <2>1. PICK f : IsPuttingBack(f, i + 1, records, c)
    BY <1>2
  <2>2. PICK g : g = [j \in i..Len(records) |->
                        IF j = i THEN PutBack(records[i + 1], f[i + 1]) ELSE f[j]]
    OBVIOUS
  <2>3. /\ g[i] = PutBack(records[i + 1], f[i + 1])
        /\ \A j \in (i + 1)..Len(records) : g[j] = f[j]
    BY <1>0, <2>2
  <2>6. g = [j \in i..Len(records) |-> g[j]]
    BY <2>2
  <2>4. IsPuttingBack(g, i, records, c)
    <3>1. g[Len(records)] = c
      BY <1>0, <2>1, <2>3 DEF IsPuttingBack
    <3>2. ASSUME NEW j \in i..(Len(records) - 1)
          PROVE  g[j] = PutBack(records[j + 1], g[j + 1])
      <4>1. g[j + 1] = f[j + 1]
        BY <1>0, <2>3
      <4>2. CASE j = i
        BY <2>3, <4>1, <4>2
      <4>3. CASE j # i
        <5>1. j \in (i + 1)..(Len(records) - 1) /\ g[j] = f[j]
          BY <1>0, <2>3, <4>3
        <5> QED BY <2>1, <4>1, <5>1 DEF IsPuttingBack
      <4> QED BY <4>2, <4>3
    <3> QED BY <3>1, <3>2 DEF IsPuttingBack
  <2>5. i \in k..Len(records)
    BY <1>0
  <2> QED BY <2>4, <2>5, <2>6
<1>3. k \in G
  <2> HIDE DEF G
  <2>1. k..Len(records) \subseteq G
    BY <1>0, <1>1, <1>2, Downwards
  <2> QED BY <1>0, <2>1
<1>4. PICK f : f = [j \in k..Len(records) |-> f[j]] /\ IsPuttingBack(f, k, records, c)
  BY <1>3
<1>5. ASSUME NEW i \in k..Len(records) PROVE f[i] = PutBackAt(f, records, c, i)
  <2>1. CASE i = Len(records)
    BY <1>4, <2>1 DEF IsPuttingBack, PutBackAt
  <2>2. CASE i # Len(records)
    <3>1. i \in k..(Len(records) - 1)
      BY <1>0, <2>2
    <3> QED BY <1>4, <2>2, <3>1 DEF IsPuttingBack, PutBackAt
  <2> QED BY <2>1, <2>2
<1>6. IsPutBack(f, k, records, c)
  BY <1>4, <1>5 DEF IsPutBack
<1> QED BY <1>4, <1>6

LEMMA PutBackFromIs ==
  ASSUME NEW records \in Seq(Record), NEW k \in 0..Len(records), NEW c
  PROVE  /\ \E f : IsPuttingBack(f, k, records, c) /\ PutBackFrom(k, records, c) = f[k]
         /\ \A g : IsPuttingBack(g, k, records, c) => PutBackFrom(k, records, c) = g[k]
<1>0. Len(records) \in Nat /\ k \in Nat /\ k <= Len(records)
  OBVIOUS
<1>1. PICK f : f = CHOOSE g : IsPutBack(g, k, records, c)
  OBVIOUS
<1>2. IsPutBack(f, k, records, c)
  BY <1>1, PuttingBackExists
<1>3. PutBackFrom(k, records, c) = f[k]
  BY <1>1 DEF PutBackFrom, IsPutBack, PutBackAt
<1>4. IsPuttingBack(f, k, records, c)
  <2>1. f[Len(records)] = c
    BY <1>0, <1>2 DEF IsPutBack, PutBackAt
  <2>2. ASSUME NEW i \in k..(Len(records) - 1) PROVE f[i] = PutBack(records[i + 1], f[i + 1])
    <3>1. i \in k..Len(records) /\ i # Len(records)
      BY <1>0
    <3> QED BY <1>2, <3>1 DEF IsPutBack, PutBackAt
  <2> QED BY <2>1, <2>2 DEF IsPuttingBack
<1>5. ASSUME NEW g, IsPuttingBack(g, k, records, c) PROVE f[k] = g[k]
  <2> DEFINE G == {i \in k..Len(records) : f[i] = g[i]}
  <2>1. Len(records) \in G
    BY <1>0, <1>4, <1>5 DEF IsPuttingBack
  <2>2. ASSUME NEW i \in k..(Len(records) - 1), i + 1 \in G PROVE i \in G
    <3>1. i \in k..Len(records) /\ f[i + 1] = g[i + 1]
      BY <1>0, <2>2
    <3>2. f[i] = PutBack(records[i + 1], f[i + 1]) /\ g[i] = PutBack(records[i + 1], g[i + 1])
      BY <1>4, <1>5 DEF IsPuttingBack
    <3> QED BY <3>1, <3>2
  <2>3. k \in G
    <3> HIDE DEF G
    <3>1. k..Len(records) \subseteq G
      BY <1>0, <2>1, <2>2, Downwards
    <3> QED BY <1>0, <3>1
  <2> QED BY <2>3
<1> QED BY <1>3, <1>4, <1>5

\* A node that is replaced last is put back first; ...
LEMMA PutBackLatestFirst ==
  ASSUME NEW records \in Seq(Record), NEW k \in 0..Len(records), NEW c, NEW record \in Record
  PROVE  PutBackFrom(k, Append(records, record), c)
           = PutBackFrom(k, records, PutBack(record, c))
<1>0. Len(records) \in Nat /\ k \in Nat /\ k <= Len(records)
  OBVIOUS
<1>1. PICK more \in Seq(Record) : more = Append(records, record)
  <2>1. Append(records, record) \in Seq(Record)
    OBVIOUS
  <2> QED BY <2>1
<1>2. /\ Len(more) = Len(records) + 1 /\ more[Len(records) + 1] = record
      /\ \A i \in 1..Len(records) : more[i] = records[i]
  BY <1>1
<1>3. PICK f : /\ IsPuttingBack(f, k, records, PutBack(record, c))
               /\ PutBackFrom(k, records, PutBack(record, c)) = f[k]
  BY PutBackFromIs
<1>4. PICK g : g = [i \in k..(Len(records) + 1) |-> IF i = Len(records) + 1 THEN c ELSE f[i]]
  OBVIOUS
<1>5. /\ g[Len(records) + 1] = c /\ g[k] = f[k]
      /\ \A i \in k..Len(records) : g[i] = f[i]
  BY <1>0, <1>4
<1>6. IsPuttingBack(g, k, more, c)
  <2>1. ASSUME NEW i \in k..(Len(more) - 1) PROVE g[i] = PutBack(more[i + 1], g[i + 1])
    <3>1. CASE i = Len(records)
      <4>1. f[i] = PutBack(record, c)
        BY <1>3, <3>1 DEF IsPuttingBack
      <4> QED BY <1>0, <1>2, <1>5, <3>1, <4>1
    <3>2. CASE i # Len(records)
      <4>1. i \in k..(Len(records) - 1) /\ i \in k..Len(records) /\ i + 1 \in k..Len(records)
            /\ i + 1 \in 1..Len(records)
        BY <1>0, <1>2, <3>2
      <4>2. f[i] = PutBack(records[i + 1], f[i + 1])
        BY <1>3, <4>1 DEF IsPuttingBack
      <4> QED BY <1>2, <1>5, <4>1, <4>2
    <3> QED BY <3>1, <3>2
  <2> QED BY <1>2, <1>5, <2>1 DEF IsPuttingBack
<1>7. PutBackFrom(k, more, c) = g[k]
  <2>1. k \in 0..Len(more)
    BY <1>0, <1>2
  <2> QED BY <1>6, <2>1, PutBackFromIs
<1> QED BY <1>1, <1>3, <1>5, <1>7

\* ... and those replaced since a later block were, once it has put them back.
LEMMA PutBackInTurn ==
  ASSUME NEW records \in Seq(Record), NEW l \in 0..Len(records), NEW k \in 0..l, NEW c
  PROVE  PutBackFrom(k, records, c)
           = PutBackFrom(k, SubSeq(records, 1, l), PutBackFrom(l, records, c))
<1>0. Len(records) \in Nat /\ k \in Nat /\ l \in Nat /\ k <= l /\ l <= Len(records)
      /\ k \in 0..Len(records)
  OBVIOUS
<1>1. PICK first : first = SubSeq(records, 1, l)
  OBVIOUS
<1>2. /\ first \in Seq(Record) /\ Len(first) = l
      /\ \A i \in 1..l : first[i] = records[i]
  BY <1>0, <1>1
<1>3. PICK f : IsPuttingBack(f, k, records, c) /\ PutBackFrom(k, records, c) = f[k]
  BY <1>0, PutBackFromIs
<1>4. \A i \in k..(Len(records) - 1) : f[i] = PutBack(records[i + 1], f[i + 1])
  BY <1>3 DEF IsPuttingBack
<1>5. IsPuttingBack(f, l, records, c)
  <2>1. \A i \in l..(Len(records) - 1) : i \in k..(Len(records) - 1)
    BY <1>0
  <2> QED BY <1>3, <1>4, <2>1 DEF IsPuttingBack
<1>6. PutBackFrom(l, records, c) = f[l]
  BY <1>5, PutBackFromIs
<1>7. IsPuttingBack(f, k, first, f[l])
  <2>1. \A i \in k..(l - 1) : i \in k..(Len(records) - 1) /\ i + 1 \in 1..l
    BY <1>0
  <2> QED BY <1>2, <1>4, <2>1 DEF IsPuttingBack
<1>8. PutBackFrom(k, first, f[l]) = f[k]
  <2>1. k \in 0..Len(first)
    BY <1>0, <1>2
  <2> QED BY <1>2, <1>7, <2>1, PutBackFromIs
<1> QED BY <1>1, <1>3, <1>6, <1>8

LEMMA PutBackNothing ==
  ASSUME NEW records \in Seq(Record), NEW c
  PROVE  PutBackFrom(Len(records), records, c) = c
<1>1. Len(records) \in 0..Len(records)
  OBVIOUS
<1>2. PICK f : /\ IsPuttingBack(f, Len(records), records, c)
               /\ PutBackFrom(Len(records), records, c) = f[Len(records)]
  BY <1>1, PutBackFromIs
<1> QED BY <1>2 DEF IsPuttingBack

\* Whatever is put back, a chart stays one, with the nodes it has.
LEMMA PutBackFromType ==
  ASSUME NEW c \in Chart, NEW records \in Seq(Record), NEW k \in 0..Len(records)
  PROVE  PutBackFrom(k, records, c) \in Chart /\ PutBackFrom(k, records, c).nodes = c.nodes
<1>0. Len(records) \in Nat /\ k \in Nat /\ k <= Len(records)
  OBVIOUS
<1>1. PICK f : IsPuttingBack(f, k, records, c) /\ PutBackFrom(k, records, c) = f[k]
  BY PutBackFromIs
<1> DEFINE G == {i \in k..Len(records) : f[i] \in Chart /\ f[i].nodes = c.nodes}
<1>2. Len(records) \in G
  BY <1>0, <1>1 DEF IsPuttingBack
<1>3. ASSUME NEW i \in k..(Len(records) - 1), i + 1 \in G PROVE i \in G
  <2>1. i \in k..Len(records) /\ i + 1 \in DOMAIN records /\ records[i + 1] \in Record
    BY <1>0
  <2>2. PICK u \in Chart, record \in Record :
           u = f[i + 1] /\ u.nodes = c.nodes /\ record = records[i + 1]
    BY <1>3, <2>1
  <2>3. PICK v : v = f[i]
    OBVIOUS
  <2>4. v = PutBack(record, u)
    BY <1>1, <2>2, <2>3 DEF IsPuttingBack
  <2>5. Restores(u, v, record)
    BY <2>4, PutBackKeeps
  <2>6. v \in Chart /\ v.nodes = c.nodes
    BY <2>2, <2>5 DEF Restores
  <2> QED BY <2>1, <2>3, <2>6
<1>4. k \in G
  <2> HIDE DEF G
  <2>1. k..Len(records) \subseteq G
    BY <1>0, <1>2, <1>3, Downwards
  <2> QED BY <1>0, <2>1
<1> QED BY <1>1, <1>4

\* Two charts that differ, below some nodes, only by members that left or joined stay so
\* while records of other nodes are put back in both.
Near(c, d, nodes, gone, new) ==
  \A p \in nodes : d.parent[p] = c.parent[p] /\ Kept(d.children[p], new) = Kept(c.children[p], gone)

LEMMA PutBackNear ==
  ASSUME NEW c \in Chart, NEW d \in Chart, NEW nodes \in SUBSET Node, NEW gone, NEW new,
         Near(c, d, nodes, gone, new), NEW record \in Record,
         Mentioned(record) \intersect (gone \union new) = {}
  PROVE  Near(PutBack(record, c), PutBack(record, d), nodes, gone, new)
<1>1. PICK n \in Node, r \in Node, q \in Node \union {NoNode} :
        n = record.node /\ r = record.replacement /\ q = record.parent
  BY DEF Record
<1>2. n \notin gone /\ n \notin new /\ r \notin gone /\ r \notin new
  BY <1>1, NodeAssumption DEF Mentioned
<1>3. PICK u, v : u = PutBack(record, c) /\ v = PutBack(record, d)
  OBVIOUS
<1>4. /\ u.parent = [c.parent EXCEPT ![n] = q]
      /\ \A p \in Node \ {q} : u.children[p] = c.children[p]
      /\ q \in Node => u.children[q] = Renamed(c.children[q], r, n)
  <2>1. Restores(c, u, record)
    BY <1>3, PutBackKeeps
  <2> QED BY <1>1, <2>1 DEF Restores
<1>5. /\ v.parent = [d.parent EXCEPT ![n] = q]
      /\ \A p \in Node \ {q} : v.children[p] = d.children[p]
      /\ q \in Node => v.children[q] = Renamed(d.children[q], r, n)
  <2>1. Restores(d, v, record)
    BY <1>3, PutBackKeeps
  <2> QED BY <1>1, <2>1 DEF Restores
<1>6. ASSUME NEW p \in nodes
      PROVE  v.parent[p] = u.parent[p] /\ Kept(v.children[p], new) = Kept(u.children[p], gone)
  <2>0. p \in Node /\ c.children[p] \in Seq(Node) /\ d.children[p] \in Seq(Node)
    BY DEF Chart
  <2>1. d.parent[p] = c.parent[p] /\ Kept(d.children[p], new) = Kept(c.children[p], gone)
    BY DEF Near
  <2>2. v.parent[p] = u.parent[p]
    <3>1. c.parent \in [Node -> Node \union {NoNode}] /\ d.parent \in [Node -> Node \union {NoNode}]
      BY DEF Chart
    <3> QED BY <1>4, <1>5, <2>0, <2>1, <3>1
  <2>3. CASE p # q
    BY <1>4, <1>5, <2>0, <2>1, <2>2, <2>3
  <2>4. CASE p = q
    <3>1. PICK l \in Seq(Node), m \in Seq(Node) : l = c.children[p] /\ m = d.children[p]
      BY <2>0
    <3>2. Kept(Renamed(l, r, n), gone) = Renamed(Kept(l, gone), r, n)
      BY <1>2, KeptReplaced DEF Renamed
    <3>3. Kept(Renamed(m, r, n), new) = Renamed(Kept(m, new), r, n)
      BY <1>2, KeptReplaced DEF Renamed
    <3> QED BY <1>4, <1>5, <2>0, <2>1, <2>2, <2>4, <3>1, <3>2, <3>3
  <2> QED BY <2>3, <2>4
<1> QED BY <1>3, <1>6 DEF Near

LEMMA PutBackFromNear ==
  ASSUME NEW c \in Chart, NEW d \in Chart, NEW nodes \in SUBSET Node, NEW gone, NEW new,
         Near(c, d, nodes, gone, new), NEW records \in Seq(Record), NEW k \in 0..Len(records),
         \A i \in DOMAIN records : Mentioned(records[i]) \intersect (gone \union new) = {}
  PROVE  Near(PutBackFrom(k, records, c), PutBackFrom(k, records, d), nodes, gone, new)
<1>0. Len(records) \in Nat /\ k \in Nat /\ k <= Len(records)
  OBVIOUS
<1>1. PICK f : IsPuttingBack(f, k, records, c) /\ PutBackFrom(k, records, c) = f[k]
  BY PutBackFromIs
<1>2. PICK g : IsPuttingBack(g, k, records, d) /\ PutBackFrom(k, records, d) = g[k]
  BY PutBackFromIs
<1> DEFINE G == {i \in k..Len(records) :
                   f[i] \in Chart /\ g[i] \in Chart /\ Near(f[i], g[i], nodes, gone, new)}
<1>3. Len(records) \in G
  BY <1>0, <1>1, <1>2 DEF IsPuttingBack
<1>4. ASSUME NEW i \in k..(Len(records) - 1), i + 1 \in G PROVE i \in G
  <2>1. i \in k..Len(records) /\ i + 1 \in DOMAIN records /\ records[i + 1] \in Record
    BY <1>0
  <2>2. PICK u \in Chart, v \in Chart, record \in Record :
           u = f[i + 1] /\ v = g[i + 1] /\ record = records[i + 1]
    BY <1>4, <2>1
  <2>3. f[i] = PutBack(record, u) /\ g[i] = PutBack(record, v)
    BY <1>1, <1>2, <2>2 DEF IsPuttingBack
  <2>4. Near(u, v, nodes, gone, new) /\ Mentioned(record) \intersect (gone \union new) = {}
    BY <1>4, <2>1, <2>2
  <2>5. Near(PutBack(record, u), PutBack(record, v), nodes, gone, new)
    BY <2>4, PutBackNear
  <2>6. PutBack(record, u) \in Chart /\ PutBack(record, v) \in Chart
    BY PutBackKeeps DEF Restores
  <2> QED BY <2>1, <2>3, <2>5, <2>6
<1>5. k \in G
  <2> HIDE DEF G
  <2>1. k..Len(records) \subseteq G
    BY <1>0, <1>3, <1>4, Downwards
  <2> QED BY <1>0, <2>1
<1> QED BY <1>1, <1>2, <1>5

\* A record that can be put back in a chart can be in one that differs so.
LEMMA StillListed ==
  ASSUME NEW c \in Chart, NEW d \in Chart, NEW nodes \in SUBSET Node, NEW gone, NEW new,
         Near(c, d, nodes, gone, new), NEW records \in Seq(Record), NEW i \in DOMAIN records,
         \A j \in DOMAIN records : Mentioned(records[j]) \intersect (gone \union new) = {},
         Mentioned(records[i]) \subseteq nodes,
         ~ CannotBePutBack(records[i], PutBackFrom(i, records, c))
  PROVE  ~ CannotBePutBack(records[i], PutBackFrom(i, records, d))
<1>1. i \in 0..Len(records)
  OBVIOUS
<1>2. PICK u \in Chart, v \in Chart :
         u = PutBackFrom(i, records, c) /\ v = PutBackFrom(i, records, d)
  BY <1>1, PutBackFromType
<1>3. Near(u, v, nodes, gone, new)
  BY <1>1, <1>2, PutBackFromNear
<1>4. PICK r \in Node, p \in Node \union {NoNode} :
         r = records[i].replacement /\ p = records[i].parent
  <2>1. PICK record \in Record : record = records[i]
    OBVIOUS
  <2> QED BY <2>1 DEF Record
<1>5. ASSUME p # NoNode PROVE r \in ToSet(v.children[p])
  <2>1. p \in nodes /\ p \in Node /\ r \notin gone
    BY <1>4, <1>5, NodeAssumption DEF Mentioned
  <2>2. PICK k \in Seq(Node), l \in Seq(Node) : k = u.children[p] /\ l = v.children[p]
    BY <2>1 DEF Chart
  <2>3. r \in ToSet(k)
    BY <1>2, <1>4, <1>5, <2>2 DEF CannotBePutBack
  <2>4. Kept(l, new) = Kept(k, gone)
    BY <1>3, <2>1, <2>2 DEF Near
  <2>5. ToSet(Kept(k, gone)) = ToSet(k) \ gone /\ ToSet(Kept(l, new)) \subseteq ToSet(l)
    BY KeptMembers
  <2> QED BY <2>1, <2>2, <2>3, <2>4, <2>5
<1> QED BY <1>2, <1>4, <1>5 DEF CannotBePutBack

\* Putting back moves no node in or out, whatever joined later stays as it was built.
PutsBack(c, u, known) ==
  /\ u \in Chart /\ u.nodes = c.nodes
  /\ \A n \in Node \ Nodes(c) : u.parent[n] = c.parent[n]
  /\ \A p \in Nodes(c) : ToSet(u.children[p]) \subseteq Nodes(c)
  /\ \A p \in Node \ known : u.children[p] = c.children[p]

LEMMA PutBackFromKeeps ==
  ASSUME NEW c \in Chart, NEW records \in Seq(Record), NEW k \in 0..Len(records),
         NEW known \in SUBSET Node, Nodes(c) \subseteq known,
         \A p \in Nodes(c) : ToSet(c.children[p]) \subseteq Nodes(c),
         \A i \in DOMAIN records : Mentioned(records[i]) \subseteq Nodes(c)
  PROVE  PutsBack(c, PutBackFrom(k, records, c), known)
<1>0. Len(records) \in Nat /\ k \in Nat /\ k <= Len(records)
  OBVIOUS
<1>1. PICK f : IsPuttingBack(f, k, records, c) /\ PutBackFrom(k, records, c) = f[k]
  BY PutBackFromIs
<1> DEFINE G == {i \in k..Len(records) : PutsBack(c, f[i], known)}
<1>3. Len(records) \in G
  <2>1. PutsBack(c, c, known)
    BY DEF PutsBack
  <2> QED BY <1>0, <1>1, <2>1 DEF IsPuttingBack
<1>4. ASSUME NEW i \in k..(Len(records) - 1), i + 1 \in G PROVE i \in G
  <2>1. i \in k..Len(records) /\ i + 1 \in DOMAIN records /\ records[i + 1] \in Record
    BY <1>0
  <2>2. PICK u \in Chart, record \in Record : u = f[i + 1] /\ record = records[i + 1]
    BY <1>4, <2>1 DEF PutsBack
  <2>3. f[i] = PutBack(record, u)
    BY <1>1, <2>2 DEF IsPuttingBack
  <2>4. PutsBack(c, u, known)
    BY <1>4, <2>2
  <2>5. Mentioned(record) \subseteq Nodes(c)
    BY <2>1, <2>2
  <2>6. PICK v : v = PutBack(record, u)
    OBVIOUS
  <2>7. PICK n \in Node, r \in Node, q \in Node \union {NoNode} :
          n = record.node /\ r = record.replacement /\ q = record.parent
    BY DEF Record
  <2>8. /\ v \in Chart /\ v.nodes = u.nodes /\ v.parent = [u.parent EXCEPT ![n] = q]
        /\ \A p \in Node \ {q} : v.children[p] = u.children[p]
        /\ q \in Node => v.children[q] = Renamed(u.children[q], r, n)
    <3>1. Restores(u, v, record)
      BY <2>6, PutBackKeeps
    <3> QED BY <2>7, <3>1 DEF Restores
  <2>9. n \in Nodes(c) /\ q \in known \union {NoNode}
    BY <2>5, <2>7, NodeAssumption DEF Mentioned
  <2>10. \A m \in Node \ Nodes(c) : v.parent[m] = c.parent[m]
    <3>1. u.parent \in [Node -> Node \union {NoNode}]
      BY DEF Chart
    <3> QED BY <2>4, <2>8, <2>9, <3>1 DEF PutsBack
  <2>11. ASSUME NEW p \in Nodes(c) PROVE ToSet(v.children[p]) \subseteq Nodes(c)
    <3>0. p \in Node /\ ToSet(u.children[p]) \subseteq Nodes(c) /\ u.children[p] \in Seq(Node)
      BY <2>4 DEF PutsBack, Chart
    <3>1. CASE p # q
      BY <2>8, <3>0, <3>1
    <3>2. CASE p = q
      <4>1. PICK l \in Seq(Node) : l = u.children[p]
        BY <3>0
      <4>2. ToSet(Renamed(l, r, n)) \subseteq ToSet(l) \union {n}
        BY RenamedMembers
      <4> QED BY <2>8, <2>9, <3>0, <3>2, <4>1, <4>2
    <3> QED BY <3>1, <3>2
  <2>12. \A p \in Node \ known : v.children[p] = c.children[p]
    BY <2>4, <2>8, <2>9, NodeAssumption DEF PutsBack
  <2>13. PutsBack(c, v, known)
    BY <2>4, <2>8, <2>10, <2>11, <2>12 DEF PutsBack
  <2> QED BY <2>1, <2>3, <2>6, <2>13
<1>5. k \in G
  <2> HIDE DEF G
  <2>1. k..Len(records) \subseteq G
    BY <1>0, <1>3, <1>4, Downwards
  <2> QED BY <1>0, <2>1
<1> QED BY <1>1, <1>5
-----------------------------------------------------------------------------
\* What the methods make of a chart.

\* The children a node is built with.
Built(n) == IF n \in Composite THEN Handed[n] ELSE <<>>

\* A node that did not join yet is as it was built, and so is what it was handed.
Unjoined(c, known) ==
  /\ Nodes(c) \subseteq known /\ known \subseteq Node
  /\ \A n \in Node \ known :
       c.children[n] = Built(n) /\ ToSet(Built(n)) \intersect known = {}

LEMMA BuiltType ==
  ASSUME NEW n \in Node
  PROVE  /\ Built(n) \in Seq(Node) /\ Built(n) \in Seq(Motion) /\ IsInjective(Built(n))
         /\ ToSet(Built(n)) \subseteq Motion /\ n \notin ToSet(Built(n))
         /\ \A m \in ToSet(Built(n)) : Built(m) = <<>>
         /\ \A m \in Node \ {n} : ToSet(Built(m)) \intersect ToSet(Built(n)) = {}
<1>0. ToSet(<<>>) = {} /\ IsInjective(<<>>)
  BY DEF ToSet, IsInjective
<1>1. Built(n) \in Seq(Motion) /\ IsInjective(Built(n))
  BY <1>0, HandedAssumption DEF Built
<1>2. ToSet(Built(n)) \subseteq Motion
  BY <1>1 DEF ToSet
<1>3. Built(n) \in Seq(Node)
  <2>1. Motion \subseteq Node
    BY NodeAssumption
  <2> QED BY <1>1, <2>1
<1>4. \A m \in ToSet(Built(n)) : m \notin Composite
  BY <1>2, NodeAssumption
<1>5. n \notin ToSet(Built(n))
  BY <1>0, <1>4 DEF Built
<1>6. \A m \in Node \ {n} : ToSet(Built(m)) \intersect ToSet(Built(n)) = {}
  BY <1>0, HandedAssumption DEF Built
<1> QED BY <1>1, <1>2, <1>3, <1>4, <1>5, <1>6 DEF Built

\* The parent lists the node that joins below it, and all it listed but what leaves.
ListsBelow(c, e, n, p, leaving) ==
  /\ e \in Chart /\ e.nodes = c.nodes /\ e.parent = c.parent
  /\ \A q \in Node \ {p} : e.children[q] = c.children[q]
  /\ p # NoNode => /\ IsInjective(e.children[p]) /\ n \in ToSet(e.children[p])
                   /\ ToSet(e.children[p]) \subseteq ToSet(c.children[p]) \union {n}
                   /\ ToSet(c.children[p]) \ leaving \subseteq ToSet(e.children[p])

SameStructure(d, f) ==
  d \in Chart /\ d.nodes = f.nodes /\ d.parent = f.parent /\ d.children = f.children

IsNew(n, known) == n \in Node \ known /\ \A q \in Composite : n \notin ToSet(Handed[q])

HasJoined(c, d, e, known, n, p, leaving) ==
  /\ WholeBut(d, leaving)
  /\ d.nodes = c.nodes \o <<n>> \o Built(n)
  /\ Nodes(d) = Nodes(c) \union {n} \union ToSet(Built(n))
  /\ \A m \in Node : d.parent[m] = IF m = n THEN p
                                   ELSE IF m \in ToSet(Built(n)) THEN n ELSE c.parent[m]
  /\ d.children = e.children
  /\ Unjoined(d, known \union Nodes(d))

LEMMA RegisteredChart ==
  ASSUME NEW e \in Chart, NEW n \in Node, NEW p \in Node \union {NoNode}
  PROVE  Registered(e, n, p) \in Chart
<1>1. PICK below : below = IF n \in Composite THEN Kept(e.children[n], Nodes(e)) ELSE <<>>
  OBVIOUS
<1>2. below \in Seq(Node)
  <2>1. e.children[n] \in Seq(Node)
    BY DEF Chart
  <2> QED BY <1>1, <2>1, KeptMembers
<1>3. Joins(e, Registered(e, n, p), n, p, below)
  BY <1>1, <1>2, RegisteredJoins
<1> QED BY <1>3 DEF Joins

LEMMA RegisteredIsWhole ==
  ASSUME NEW c, Whole(c), NEW known, Unjoined(c, known), NEW n, IsNew(n, known),
         NEW p \in Nodes(c) \union {NoNode}, NEW leaving,
         NEW e, ListsBelow(c, e, n, p, leaving),
         NEW d, SameStructure(d, Registered(e, n, p))
  PROVE  HasJoined(c, d, e, known, n, p, leaving)
<1>0. PICK f : f = Registered(e, n, p)
  OBVIOUS
<1>13. /\ e \in Chart /\ e.nodes = c.nodes /\ e.parent = c.parent
       /\ \A q \in Node \ {p} : e.children[q] = c.children[q]
       /\ p # NoNode => /\ IsInjective(e.children[p]) /\ n \in ToSet(e.children[p])
                        /\ ToSet(e.children[p]) \subseteq ToSet(c.children[p]) \union {n}
                        /\ ToSet(c.children[p]) \ leaving \subseteq ToSet(e.children[p])
  BY DEF ListsBelow
<1>1. /\ Nodes(c) \subseteq known /\ known \subseteq Node /\ n \notin Nodes(c) /\ n \in Node
      /\ c.children[n] = Built(n) /\ ToSet(Built(n)) \intersect known = {}
      /\ n # p /\ p \in known \union {NoNode}
      /\ \A q \in Composite : n \notin ToSet(Handed[q])
  BY NodeAssumption DEF Unjoined, IsNew
<1>2. PICK below \in Seq(Node) : below = Built(n)
  BY <1>1, BuiltType
<1>3. /\ IsInjective(below) /\ n \notin ToSet(below) /\ ToSet(below) \subseteq Motion
      /\ \A m \in ToSet(below) : Built(m) = <<>>
      /\ \A m \in Node \ {n} : ToSet(Built(m)) \intersect ToSet(below) = {}
      /\ ToSet(below) \subseteq Node
  BY <1>1, <1>2, BuiltType, NodeAssumption
<1>4. ToSet(below) \intersect (Nodes(c) \union {n}) = {}
  BY <1>1, <1>2, <1>3
<1>5. below = IF n \in Composite THEN Kept(e.children[n], Nodes(e)) ELSE <<>>
  <2>1. CASE n \in Composite
    <3>1. e.children[n] = below /\ Nodes(e) = Nodes(c)
      BY <1>1, <1>2, <1>13 DEF Nodes
    <3>2. Kept(below, Nodes(c)) = below
      BY <1>4, KeptAll
    <3> QED BY <2>1, <3>1, <3>2
  <2>2. CASE n \notin Composite
    BY <1>2, <2>2 DEF Built
  <2> QED BY <2>1, <2>2
<1>6. Joins(e, f, n, p, below)
  <2>1. p \in Node \union {NoNode}
    BY <1>1
  <2> QED BY <1>0, <1>1, <1>5, <1>13, <2>1, RegisteredJoins
<1>7. /\ d.nodes = c.nodes \o <<n>> \o below /\ d.children = e.children
      /\ d.parent = [m \in Node |-> IF m = n THEN p
                                    ELSE IF m \in ToSet(below) THEN n ELSE c.parent[m]]
  BY <1>0, <1>6, <1>13 DEF Joins, SameStructure
<1>8. /\ d.children[n] = below
      /\ \A q \in Nodes(c) \ {p} : d.children[q] = c.children[q]
  BY <1>1, <1>2, <1>7, <1>13
<1>9. \A m \in ToSet(below) : d.children[m] = <<>>
  <2>1. \A m \in ToSet(below) : m \in Node \ known /\ m # p
    BY <1>1, <1>2, <1>3, NodeAssumption
  <2> QED BY <1>3, <1>7, <1>13, <2>1 DEF Unjoined
<1>10. WholeBut(d, leaving) /\ Nodes(d) = Nodes(c) \union {n} \union ToSet(below)
  <2>1. n \in Node \ Nodes(c)
    BY <1>1
  <2>2. Accepts(c, d, n, p, below, leaving)
    BY <1>7, <1>8, <1>9, <1>13 DEF Accepts, SameStructure
  <2>3. IsInjective(below)
    BY <1>3
  <2> QED BY <1>4, <2>1, <2>2, <2>3, JoinedIsWhole
<1>11. Unjoined(d, known \union Nodes(d))
  <2>1. Nodes(d) \subseteq Node
    BY <1>1, <1>3, <1>10
  <2>2. ASSUME NEW m \in Node \ (known \union Nodes(d))
        PROVE  d.children[m] = Built(m) /\ ToSet(Built(m)) \intersect (known \union Nodes(d)) = {}
    <3>1. m # p /\ m # n /\ d.children[m] = Built(m) /\ ToSet(Built(m)) \intersect known = {}
      <4>1. m \in Node \ known /\ m # p /\ m # n
        BY <1>1, <1>10, NodeAssumption
      <4>2. c.children[m] = Built(m) /\ ToSet(Built(m)) \intersect known = {}
        BY <4>1 DEF Unjoined
      <4>3. d.children[m] = c.children[m]
        BY <1>7, <1>13, <4>1
      <4> QED BY <4>1, <4>2, <4>3
    <3>2. n \notin ToSet(Built(m))
      <4>1. ToSet(<<>>) = {}
        BY DEF ToSet
      <4> QED BY <1>1, <4>1 DEF Built
    <3>3. ToSet(Built(m)) \intersect ToSet(below) = {}
      BY <1>3, <3>1
    <3> QED BY <1>1, <1>10, <3>1, <3>2, <3>3
  <2> QED BY <1>1, <2>1, <2>2 DEF Unjoined
<1>12. \A m \in Node : d.parent[m] = IF m = n THEN p
                                     ELSE IF m \in ToSet(Built(n)) THEN n ELSE c.parent[m]
  BY <1>2, <1>7
<1> QED BY <1>2, <1>7, <1>10, <1>11, <1>12 DEF HasJoined

\* What a method does to a chart, for the blocks that are open: some nodes leave, others
\* join at the end, and what was below the others is there but for those.
ChartStep(c, d, known, gone, new) ==
  /\ Whole(d) /\ Unjoined(d, known \union Nodes(d))
  /\ Nodes(c) \ gone \subseteq Nodes(d)
  /\ Near(c, d, Nodes(c) \ gone, gone, new)
  /\ \E added \in Seq(Node) : /\ d.nodes = Kept(c.nodes, gone) \o added
                              /\ ToSet(added) \intersect known = {}

LEMMA JoinedStep ==
  ASSUME NEW c, Whole(c), NEW known, Unjoined(c, known), NEW n, IsNew(n, known),
         NEW p \in Nodes(c) \union {NoNode}, NEW e, ListsBelow(c, e, n, p, {}),
         NEW d, SameStructure(d, Registered(e, n, p)),
         p # NoNode => Kept(e.children[p], {n}) = c.children[p]
  PROVE  ChartStep(c, d, known, {}, {n})
<1>1. HasJoined(c, d, e, known, n, p, {})
  BY RegisteredIsWhole
<1>2. /\ c \in Chart /\ Nodes(c) \subseteq Node
      /\ \A q \in Nodes(c) : c.children[q] \in Seq(Node) /\ ToSet(c.children[q]) \subseteq Nodes(c)
  BY WholeParents DEF Whole
<1>3. n \in Node /\ n \notin Nodes(c) /\ Nodes(c) \intersect ToSet(Built(n)) = {}
  BY DEF IsNew, Unjoined
<1>4. \A q \in Nodes(c) : Kept(c.children[q], {}) = c.children[q]
  BY <1>2, KeptAll
<1>5. ASSUME NEW q \in Nodes(c)
      PROVE  d.parent[q] = c.parent[q] /\ Kept(d.children[q], {n}) = Kept(c.children[q], {})
  <2>1. d.parent[q] = c.parent[q]
    BY <1>1, <1>2, <1>3 DEF HasJoined
  <2>2. d.children[q] = e.children[q]
    BY <1>1 DEF HasJoined
  <2>3. CASE q = p
    <3>1. p # NoNode
      BY <1>2, <2>3, NodeAssumption
    <3> QED BY <1>4, <2>1, <2>2, <2>3, <3>1
  <2>4. CASE q # p
    <3>1. e.children[q] = c.children[q]
      BY <1>2, <2>4 DEF ListsBelow
    <3>2. n \notin ToSet(c.children[q])
      BY <1>2, <1>3
    <3>3. Kept(c.children[q], {n}) = c.children[q]
      BY <1>2, <3>2, KeptAll
    <3> QED BY <1>4, <2>1, <2>2, <3>1, <3>3
  <2> QED BY <2>3, <2>4
<1>6. Near(c, d, Nodes(c) \ {}, {}, {n})
  BY <1>5 DEF Near
<1>7. \E added \in Seq(Node) : /\ d.nodes = Kept(c.nodes, {}) \o added
                               /\ ToSet(added) \intersect known = {}
  <2>1. c.nodes \in Seq(Node) /\ Built(n) \in Seq(Node)
    BY <1>2, <1>3, BuiltType DEF Chart
  <2>2. Kept(c.nodes, {}) = c.nodes
    BY <2>1, KeptAll
  <2>3. <<n>> \o Built(n) \in Seq(Node) /\ c.nodes \o <<n>> \o Built(n) = c.nodes \o (<<n>> \o Built(n))
    <3>1. <<n>> \in Seq(Node)
      BY <1>3
    <3>2. PICK l \in Seq(Node), one \in Seq(Node), b \in Seq(Node) :
             l = c.nodes /\ one = <<n>> /\ b = Built(n)
      BY <2>1, <3>1
    <3>3. (l \o one) \o b = l \o (one \o b) /\ one \o b \in Seq(Node)
      BY ConcatAssociative
    <3> QED BY <3>2, <3>3
  <2>4. d.nodes = Kept(c.nodes, {}) \o (<<n>> \o Built(n))
    BY <1>1, <2>2, <2>3 DEF HasJoined
  <2>5. ToSet(<<n>> \o Built(n)) \intersect known = {}
    <3>1. n \notin known /\ ToSet(Built(n)) \intersect known = {}
      BY DEF IsNew, Unjoined
    <3>2. PICK one \in Seq(Node) : one = <<n>> /\ ToSet(one) = {n}
      <4>1. <<n>> \in Seq(Node) /\ ToSet(<<n>>) = {n}
        BY <1>3 DEF ToSet
      <4> QED BY <4>1
    <3>3. ToSet(one \o Built(n)) = ToSet(one) \union ToSet(Built(n))
      BY <2>1, MembersOfBoth
    <3> QED BY <3>1, <3>2, <3>3
  <2> QED BY <2>3, <2>4, <2>5
<1>8. Whole(d) /\ Unjoined(d, known \union Nodes(d)) /\ Nodes(c) \ {} \subseteq Nodes(d)
  BY <1>1 DEF HasJoined, Whole
<1> QED BY <1>6, <1>7, <1>8 DEF ChartStep

LEMMA AddStep ==
  ASSUME NEW c, Whole(c), NEW known, Unjoined(c, known), NEW n, IsNew(n, known)
  PROVE  ChartStep(c, Registered(c, n, NoNode), known, {}, {n})
<1>1. c \in Chart /\ n \in Node
  BY DEF Whole, WholeBut, IsNew
<1>2. ListsBelow(c, c, n, NoNode, {})
  BY <1>1 DEF ListsBelow
<1>3. SameStructure(Registered(c, n, NoNode), Registered(c, n, NoNode))
  <2>1. NoNode \in Node \union {NoNode}
    OBVIOUS
  <2> QED BY <1>1, <2>1, RegisteredChart DEF SameStructure
<1>4. NoNode \in Nodes(c) \union {NoNode}
  OBVIOUS
<1> QED BY <1>2, <1>3, <1>4, JoinedStep

LEMMA PartsOfInjective ==
  ASSUME NEW S, NEW l \in Seq(S), NEW m \in Seq(S), IsInjective(l \o m)
  PROVE  IsInjective(l) /\ IsInjective(m) /\ ToSet(l) \intersect ToSet(m) = {}
<1>1. PICK b : b = l \o m
  OBVIOUS
<1>2. /\ Len(l) \in Nat /\ Len(m) \in Nat
      /\ \A i \in 1..Len(l) : b[i] = l[i]
      /\ \A i \in 1..Len(m) : b[Len(l) + i] = m[i]
      /\ DOMAIN b = 1..(Len(l) + Len(m)) /\ DOMAIN l = 1..Len(l) /\ DOMAIN m = 1..Len(m)
  BY <1>1
<1>3. \A i, j \in DOMAIN b : b[i] = b[j] => i = j
  BY <1>1 DEF IsInjective
<1>4. \A i \in DOMAIN l : i \in DOMAIN b /\ b[i] = l[i]
  BY <1>2
<1>5. \A i \in DOMAIN m : Len(l) + i \in DOMAIN b /\ b[Len(l) + i] = m[i]
  BY <1>2
<1>6. IsInjective(l)
  BY <1>3, <1>4 DEF IsInjective
<1>7. IsInjective(m)
  <2>1. ASSUME NEW i \in DOMAIN m, NEW j \in DOMAIN m, m[i] = m[j] PROVE i = j
    <3>1. Len(l) + i = Len(l) + j
      BY <1>3, <1>5, <2>1
    <3> QED BY <1>2, <3>1
  <2> QED BY <2>1 DEF IsInjective
<1>8. ASSUME NEW i \in DOMAIN l, NEW j \in DOMAIN m PROVE l[i] # m[j]
  <2>1. i # Len(l) + j
    BY <1>2
  <2> QED BY <1>3, <1>4, <1>5, <2>1
<1> QED BY <1>6, <1>7, <1>8 DEF ToSet

LEMMA InsertedMembers ==
  ASSUME NEW l \in Seq(Node), IsInjective(l), NEW n \in Node, n \notin ToSet(l),
         NEW i \in 1..(Len(l) + 1)
  PROVE  /\ InsertAt(l, i, n) \in Seq(Node) /\ IsInjective(InsertAt(l, i, n))
         /\ ToSet(InsertAt(l, i, n)) = ToSet(l) \union {n}
         /\ Kept(InsertAt(l, i, n), {n}) = l
<1>1. PICK a, b : a = SubSeq(l, 1, i - 1) /\ b = SubSeq(l, i, Len(l))
  OBVIOUS
<1>2. a \in Seq(Node) /\ b \in Seq(Node)
  BY <1>1
<1>3. l = a \o b
  <2>1. Len(a) = i - 1 /\ Len(b) = Len(l) - i + 1
    BY <1>1
  <2>2. \A k \in 1..(i - 1) : a[k] = l[k]
    BY <1>1
  <2>3. \A k \in 1..(Len(l) - i + 1) : b[k] = l[i + k - 1]
    BY <1>1
  <2>4. Len(a \o b) = Len(l) /\ a \o b \in Seq(Node)
    BY <1>2, <2>1
  <2>5. ASSUME NEW k \in 1..Len(l) PROVE (a \o b)[k] = l[k]
    <3>1. CASE k <= i - 1
      BY <1>2, <2>1, <2>2, <3>1
    <3>2. CASE k > i - 1
      <4>1. PICK j \in 1..(Len(l) - i + 1) : j = k - (i - 1)
        BY <3>2
      <4>2. (a \o b)[k] = b[j]
        BY <1>2, <2>1, <3>2, <4>1
      <4>3. i + j - 1 = k
        BY <4>1
      <4>4. b[j] = l[i + j - 1]
        BY <2>3
      <4>5. b[j] = l[k]
        BY <4>3, <4>4
      <4> QED BY <4>2, <4>5
    <3>3. k \in Int /\ i \in Int
      OBVIOUS
    <3>4. k <= i - 1 \/ k > i - 1
      BY <3>3
    <3> QED BY <3>1, <3>2, <3>4
  <2> QED BY <2>4, <2>5, SeqEqual
<1>4. /\ IsInjective(a) /\ IsInjective(b) /\ ToSet(a) \intersect ToSet(b) = {}
      /\ ToSet(l) = ToSet(a) \union ToSet(b)
  BY <1>2, <1>3, PartsOfInjective, MembersOfBoth
<1>5. InsertAt(l, i, n) = a \o <<n>> \o b
  BY <1>1 DEF InsertAt
<1>6. PICK m \in Seq(Node) : m = <<n>>
  <2>1. <<n>> \in Seq(Node)
    OBVIOUS
  <2> QED BY <2>1
<1>7. ToSet(m) = {n} /\ IsInjective(m)
  BY <1>6 DEF ToSet, IsInjective
<1>8. PICK k \in Seq(Node) : k = a \o m
  <2>1. a \o m \in Seq(Node)
    BY <1>2
  <2> QED BY <2>1
<1>9. ToSet(k) = ToSet(a) \union {n} /\ IsInjective(k)
  <2>1. ToSet(a \o m) = ToSet(a) \union ToSet(m)
        /\ (IsInjective(a) /\ IsInjective(m) /\ ToSet(a) \intersect ToSet(m) = {}
              => IsInjective(a \o m))
    BY <1>2, MembersOfBoth
  <2> QED BY <1>4, <1>7, <1>8, <2>1
<1>10. /\ ToSet(k \o b) = ToSet(k) \union ToSet(b)
       /\ IsInjective(k) /\ IsInjective(b) /\ ToSet(k) \intersect ToSet(b) = {}
              => IsInjective(k \o b)
  BY <1>2, MembersOfBoth
<1>11. InsertAt(l, i, n) = k \o b /\ k \o b \in Seq(Node)
  BY <1>2, <1>5, <1>6, <1>8
<1>12. Kept(k \o b, {n}) = l
  <2>1. Kept(k \o b, {n}) = Kept(k, {n}) \o Kept(b, {n})
    BY <1>2, KeptOfBoth
  <2>2. Kept(a \o m, {n}) = Kept(a, {n}) \o Kept(m, {n})
    BY <1>2, KeptOfBoth
  <2>3. Kept(a, {n}) = a /\ Kept(b, {n}) = b
    BY <1>2, <1>4, KeptAll
  <2>4. Kept(m, {n}) = <<>>
    BY <1>7, KeptNone
  <2>5. a \o <<>> = a
    BY <1>2, ConcatEmptySeq
  <2>6. Kept(k, {n}) = a
    BY <1>8, <2>2, <2>3, <2>4, <2>5
  <2> QED BY <1>3, <2>1, <2>3, <2>6
<1> QED BY <1>4, <1>9, <1>10, <1>11, <1>12

LEMMA InsertStep ==
  ASSUME NEW c, Whole(c), NEW known, Unjoined(c, known), NEW n, IsNew(n, known),
         NEW p \in Nodes(c), NEW i \in 1..(Len(c.children[p]) + 1)
  PROVE  ChartStep(c, Inserted(c, p, i, n), known, {}, {n})
<1>1. /\ c \in Chart /\ Nodes(c) \subseteq Node /\ p \in Node
      /\ c.children[p] \in Seq(Node) /\ ToSet(c.children[p]) \subseteq Nodes(c)
      /\ IsInjective(c.children[p])
  BY WholeParents DEF Whole, WholeBut
<1>2. n \in Node /\ n \notin Nodes(c)
  BY DEF IsNew, Unjoined
<1>3. PICK l \in Seq(Node) : l = c.children[p]
  BY <1>1
<1>4. PICK m : m = InsertAt(l, i, n)
  OBVIOUS
<1>5. m \in Seq(Node) /\ IsInjective(m) /\ ToSet(m) = ToSet(l) \union {n} /\ Kept(m, {n}) = l
  BY <1>1, <1>2, <1>3, <1>4, InsertedMembers
<1>6. PICK e : e = [c EXCEPT !.children[p] = m]
  OBVIOUS
<1>7. /\ e \in Chart /\ e.nodes = c.nodes /\ e.parent = c.parent
      /\ \A q \in Node \ {p} : e.children[q] = c.children[q]
      /\ e.children[p] = m
  BY <1>1, <1>5, <1>6 DEF Chart
<1>8. ListsBelow(c, e, n, p, {})
  BY <1>3, <1>5, <1>7 DEF ListsBelow
<1>9. PICK f \in Chart : f = Registered(e, n, p)
  BY <1>1, <1>2, <1>7, RegisteredChart
<1>10. SameStructure(Wired(f, p), f)
  BY WiredKeeps DEF SameStructure
<1>11. Inserted(c, p, i, n) = Wired(f, p)
  BY <1>3, <1>4, <1>6, <1>9 DEF Inserted
<1> QED BY <1>3, <1>5, <1>7, <1>8, <1>9, <1>10, <1>11, JoinedStep

LEMMA ChooseStep ==
  ASSUME NEW c, Whole(c), NEW known, Unjoined(c, known), NEW n \in Nodes(c),
         NEW child, IsNew(child, known), NEW e, NEW reads \in SUBSET Node,
         e = [c EXCEPT !.children[n] = Append(@, child), !.reads[n] = reads]
  PROVE  ChartStep(c, Registered(e, child, n), known, {}, {child})
<1>1. /\ c \in Chart /\ Nodes(c) \subseteq Node /\ n \in Node
      /\ c.children[n] \in Seq(Node) /\ ToSet(c.children[n]) \subseteq Nodes(c)
      /\ IsInjective(c.children[n])
  BY WholeParents DEF Whole, WholeBut
<1>2. child \in Node /\ child \notin Nodes(c)
  BY DEF IsNew, Unjoined
<1>3. PICK l \in Seq(Node) : l = c.children[n]
  BY <1>1
<1>4. PICK m : m = Append(l, child)
  OBVIOUS
<1>5. m \in Seq(Node) /\ IsInjective(m) /\ ToSet(m) = ToSet(l) \union {child}
      /\ child \notin ToSet(l)
  BY <1>1, <1>2, <1>3, <1>4, AppendMembers
<1>6. Kept(m, {child}) = l
  <2>1. Kept(m, {child}) = Kept(l, {child})
    BY <1>2, <1>4, KeptOfMore
  <2> QED BY <1>5, <2>1, KeptAll
<1>7. /\ e.nodes = c.nodes /\ e.parent = c.parent
      /\ e.children = [c.children EXCEPT ![n] = m]
      /\ e.reads = [c.reads EXCEPT ![n] = reads]
      /\ e = [nodes |-> e.nodes, parent |-> e.parent, children |-> e.children, reads |-> e.reads]
  BY <1>1, <1>3, <1>4 DEF Chart
<1>8. c.children \in [Node -> Seq(Node)] /\ c.reads \in [Node -> SUBSET Node]
      /\ c.nodes \in Seq(Node) /\ c.parent \in [Node -> Node \union {NoNode}]
  BY <1>1 DEF Chart
<1>9. e.children \in [Node -> Seq(Node)] /\ e.reads \in [Node -> SUBSET Node]
      /\ e.children[n] = m /\ \A q \in Node \ {n} : e.children[q] = c.children[q]
  BY <1>1, <1>5, <1>7, <1>8
<1>10. e \in Chart
  BY <1>7, <1>8, <1>9 DEF Chart
<1>11. ListsBelow(c, e, child, n, {})
  BY <1>3, <1>5, <1>7, <1>9, <1>10 DEF ListsBelow
<1>12. SameStructure(Registered(e, child, n), Registered(e, child, n))
  BY <1>1, <1>2, <1>10, RegisteredChart DEF SameStructure
<1> QED BY <1>3, <1>6, <1>9, <1>11, <1>12, JoinedStep

\* What is below a node, with the node: whoever is below one of them is among them, the
\* parent of the node is not, and nor are nodes that only have parents among themselves.
LEMMA DescendantsOf ==
  ASSUME NEW c, Whole(c), NEW n \in Nodes(c), NEW gone, gone = {n} \union Descendants(c, n)
  PROVE  /\ gone \subseteq Nodes(c)
         /\ \A m \in Node : c.parent[m] \in gone => m \in gone
         /\ c.parent[n] \notin gone
         /\ \A others \in SUBSET Nodes(c) :
              /\ n \notin others
              /\ \A m \in others : c.parent[m] \in others \union {NoNode}
              => gone \intersect others = {}
<1> DEFINE Closed(below) == \A m \in Nodes(c) : c.parent[m] \in below \union {n} => m \in below
<1>1. /\ c \in Chart /\ Nodes(c) \subseteq Node /\ NoNode \notin Node
      /\ \A m \in Node : c.parent[m] # NoNode => m \in Nodes(c)
  BY WholeParents, NodeAssumption DEF Whole
<1>2. PICK D : D = Descendants(c, n)
  OBVIOUS
<1>3. D = {d \in Nodes(c) : \A below \in SUBSET Nodes(c) : Closed(below) => d \in below}
  BY <1>2 DEF Descendants, Parent
<1>4. gone = {n} \union D /\ gone \subseteq Nodes(c)
  BY <1>2, <1>3
<1>5. Closed(D)
  <2> SUFFICES ASSUME NEW m \in Nodes(c), c.parent[m] \in D \union {n},
                      NEW below \in SUBSET Nodes(c), Closed(below)
               PROVE  m \in below
    BY <1>3
  <2>1. c.parent[m] \in below \union {n}
    BY <1>3
  <2> QED BY <2>1
<1>6. \A m \in Node : c.parent[m] \in gone => m \in gone
  BY <1>1, <1>4, <1>5
<1>7. \A below \in SUBSET Nodes(c) : Closed(below) => D \subseteq below
  BY <1>3
<1>8. c.parent[n] \notin gone
  <2> DEFINE below == {d \in D : c.parent[d] \in gone}
  <2>1. Closed(below)
    BY <1>4, <1>5
  <2>2. D \subseteq below
    <3>1. below \in SUBSET Nodes(c)
      BY <1>3
    <3> HIDE DEF below, Closed
    <3> QED BY <1>7, <2>1, <3>1
  <2>3. PICK m \in gone : c.parent[m] \notin gone
    <3>1. gone \in SUBSET Nodes(c) /\ gone # {}
      BY <1>4
    <3> QED BY <3>1 DEF Whole, WholeBut
  <2>4. m = n
    BY <1>4, <2>2, <2>3
  <2> QED BY <2>3, <2>4
<1>9. ASSUME NEW others \in SUBSET Nodes(c), n \notin others,
             \A m \in others : c.parent[m] \in others \union {NoNode}
      PROVE  gone \intersect others = {}
  <2> DEFINE below == Nodes(c) \ others
  <2>1. Closed(below)
    BY <1>1, <1>9
  <2>2. D \subseteq below
    <3>1. below \in SUBSET Nodes(c)
      OBVIOUS
    <3> HIDE DEF below, Closed
    <3> QED BY <1>7, <2>1, <3>1
  <2> QED BY <1>4, <1>9, <2>2
<1> HIDE DEF Closed
<1> QED BY <1>4, <1>6, <1>8, <1>9

LEMMA UnjoinedWithout ==
  ASSUME NEW c \in Chart, NEW known, Unjoined(c, known), NEW gone \in SUBSET known,
         NEW d, d = Without(c, gone), Nodes(d) \subseteq known
  PROVE  Unjoined(d, known)
<1>1. known \subseteq Node
  BY DEF Unjoined
<1>2. ASSUME NEW m \in Node \ known PROVE d.children[m] = Built(m)
  <2>1. c.children[m] = Built(m) /\ ToSet(Built(m)) \intersect known = {}
    BY DEF Unjoined
  <2>2. Built(m) \in Seq(Node) /\ ToSet(Built(m)) \intersect gone = {}
    BY <2>1, BuiltType
  <2>3. Kept(Built(m), gone) = Built(m)
    BY <2>2, KeptAll
  <2>4. d.children[m] = Kept(c.children[m], gone)
    BY DEF Without
  <2> QED BY <2>1, <2>3, <2>4
<1> QED BY <1>1, <1>2 DEF Unjoined

\* Nodes leave, and what is left of the others is what was there.
LEMMA RemoveStep ==
  ASSUME NEW c, Whole(c), NEW known, Unjoined(c, known), NEW gone \in SUBSET Nodes(c),
         \A m \in Node : c.parent[m] \in gone => m \in gone
  PROVE  /\ ChartStep(c, Without(c, gone), known, gone, {})
         /\ Nodes(Without(c, gone)) \subseteq known
<1>1. /\ c \in Chart /\ Nodes(c) \subseteq Node /\ c.nodes \in Seq(Node)
      /\ \A q \in Nodes(c) : c.children[q] \in Seq(Node)
      /\ Nodes(c) \subseteq known
  BY WholeParents DEF Whole, Chart, Unjoined
<1>2. PICK d : d = Without(c, gone)
  OBVIOUS
<1>3. WholeBut(c, gone)
  BY DEF Whole, WholeBut
<1>4. Whole(d) /\ Nodes(d) = Nodes(c) \ gone
  <2>1. gone \in SUBSET Node
    BY <1>1
  <2> QED BY <1>2, <1>3, <2>1, WithoutIsWhole
<1>5. Unjoined(d, known)
  BY <1>1, <1>2, <1>4, UnjoinedWithout
<1>6. ASSUME NEW q \in Nodes(c) \ gone
      PROVE  d.parent[q] = c.parent[q] /\ Kept(d.children[q], {}) = Kept(c.children[q], gone)
  <2>1. q \in Node /\ c.children[q] \in Seq(Node)
    BY <1>1
  <2>2. d.parent[q] = c.parent[q] /\ d.children[q] = Kept(c.children[q], gone)
    BY <1>2, <2>1 DEF Without
  <2>3. Kept(c.children[q], gone) \in Seq(Node)
    BY <2>1, KeptMembers
  <2> QED BY <2>2, <2>3, KeptAll
<1>7. \E added \in Seq(Node) : /\ d.nodes = Kept(c.nodes, gone) \o added
                               /\ ToSet(added) \intersect known = {}
  <2>1. d.nodes = Kept(c.nodes, gone) /\ Kept(c.nodes, gone) \in Seq(Node)
    BY <1>1, <1>2, KeptMembers DEF Without
  <2>2. Kept(c.nodes, gone) \o <<>> = Kept(c.nodes, gone)
    BY <2>1, ConcatEmptySeq
  <2>3. <<>> \in Seq(Node) /\ ToSet(<<>>) = {}
    BY DEF ToSet
  <2> QED BY <2>1, <2>2, <2>3
<1>8. known \union Nodes(d) = known /\ Nodes(d) \subseteq known
  BY <1>1, <1>4
<1>9. ChartStep(c, d, known, gone, {})
  BY <1>4, <1>5, <1>6, <1>7, <1>8 DEF ChartStep, Near
<1> QED BY <1>2, <1>8, <1>9

\* A node takes the place of another one, which leaves with what is below it.
LEMMA SubstituteStep ==
  ASSUME NEW c, Whole(c), NEW known, Unjoined(c, known), NEW n \in Nodes(c),
         NEW r, IsNew(r, known), NEW gone, gone = {n} \union Descendants(c, n)
  PROVE  ChartStep(c, SubstitutedBy(c, n, r), known, gone, {r})
<1>1. /\ c \in Chart /\ Nodes(c) \subseteq Node /\ n \in Node /\ c.nodes \in Seq(Node)
      /\ Nodes(c) \subseteq known /\ known \subseteq Node /\ NoNode \notin Node
      /\ \A m \in Node : c.parent[m] \in Nodes(c) \union {NoNode}
      /\ \A m \in Node : c.parent[m] # NoNode => m \in ToSet(c.children[c.parent[m]])
      /\ \A q \in Nodes(c) : c.children[q] \in Seq(Node) /\ ToSet(c.children[q]) \subseteq Nodes(c)
      /\ \A q \in Nodes(c) : IsInjective(c.children[q])
  <2>1. Nodes(c) \subseteq known /\ known \subseteq Node
    BY DEF Unjoined
  <2>2. /\ c \in Chart /\ Nodes(c) \subseteq Node
        /\ \A m \in Node : c.parent[m] \in Nodes(c) \union {NoNode}
        /\ \A m \in Node : c.parent[m] # NoNode => m \in ToSet(c.children[c.parent[m]])
        /\ \A q \in Nodes(c) : c.children[q] \in Seq(Node) /\ ToSet(c.children[q]) \subseteq Nodes(c)
    BY WholeParents DEF Whole
  <2>3. \A q \in Nodes(c) : IsInjective(c.children[q])
    BY DEF Whole, WholeBut
  <2> QED BY <2>1, <2>2, <2>3, NodeAssumption DEF Chart
<1>2. /\ gone \subseteq Nodes(c) /\ n \in gone
      /\ \A m \in Node : c.parent[m] \in gone => m \in gone
      /\ c.parent[n] \notin gone
  BY DescendantsOf
<1>3. PICK p \in Nodes(c) \union {NoNode} : p = c.parent[n]
  BY <1>1
<1>4. r \in Node /\ r \notin Nodes(c) /\ p \in Node \union {NoNode} /\ p \notin gone
      /\ Built(r) \in Seq(Node) /\ ToSet(Built(r)) \subseteq Node
      /\ ToSet(Built(r)) \intersect Nodes(c) = {}
  <2>1. r \in Node \ known
    BY DEF IsNew
  <2>2. ToSet(Built(r)) \intersect known = {}
    BY <2>1 DEF Unjoined
  <2>3. Built(r) \in Seq(Node) /\ ToSet(Built(r)) \subseteq Motion
    BY <2>1, BuiltType
  <2> QED BY <1>1, <1>2, <1>3, <2>1, <2>2, <2>3, NodeAssumption
<1>5. PICK e : e = ListedInPlaceOf(c, p, n, r)
  OBVIOUS
<1>6. /\ e \in Chart /\ e.nodes = c.nodes /\ e.parent = c.parent
      /\ \A q \in Node \ {p} : e.children[q] = c.children[q]
      /\ p \in Node => e.children[p] = Renamed(c.children[p], n, r)
  <2>1. Lists(c, e, p, n, r)
    BY <1>1, <1>4, <1>5, ListedKeeps
  <2> QED BY <2>1 DEF Lists
<1>7. ListsBelow(c, e, r, p, gone)
  <2>1. CASE p = NoNode
    BY <1>6, <2>1 DEF ListsBelow
  <2>2. CASE p # NoNode
    <3>1. PICK l \in Seq(Node) : l = c.children[p]
      BY <1>1, <1>3, <2>2
    <3>2. IsInjective(l) /\ n \in ToSet(l) /\ r \notin ToSet(l)
      BY <1>1, <1>3, <1>4, <2>2, <3>1
    <3>3. IsInjective(Renamed(l, n, r)) /\ ToSet(Renamed(l, n, r)) = (ToSet(l) \ {n}) \union {r}
      BY <1>4, <3>2, RenamedSet
    <3>4. e.children[p] = Renamed(l, n, r)
      BY <1>4, <1>6, <2>2, <3>1
    <3> QED BY <1>2, <1>6, <3>1, <3>3, <3>4 DEF ListsBelow
  <2> QED BY <2>1, <2>2
<1>8. PICK f \in Chart : f = Registered(e, r, p)
  BY <1>4, <1>6, RegisteredChart
<1>9. PICK d : d = IF p = NoNode THEN f ELSE Wired(f, p)
  OBVIOUS
<1>10. SameStructure(d, f)
  BY <1>8, <1>9, WiredKeeps DEF SameStructure
<1>11. HasJoined(c, d, e, known, r, p, gone)
  BY <1>3, <1>7, <1>8, <1>10, RegisteredIsWhole
<1>12. /\ WholeBut(d, gone) /\ d \in Chart
       /\ d.nodes = c.nodes \o <<r>> \o Built(r)
       /\ Nodes(d) = Nodes(c) \union {r} \union ToSet(Built(r))
       /\ \A m \in Node : d.parent[m] = IF m = r THEN p
                                        ELSE IF m \in ToSet(Built(r)) THEN r ELSE c.parent[m]
       /\ d.children = e.children
       /\ Unjoined(d, known \union Nodes(d))
  BY <1>11 DEF HasJoined, WholeBut
<1>13. PICK w : w = Without(d, gone)
  OBVIOUS
<1>14. w = SubstitutedBy(c, n, r)
  BY <1>3, <1>5, <1>8, <1>9, <1>13 DEF SubstitutedBy, Parent
<1>15. gone \in SUBSET Node /\ \A m \in Node : d.parent[m] \in gone => m \in gone
  <2>1. ASSUME NEW m \in Node, d.parent[m] \in gone PROVE m \in gone
    <3>1. r \notin gone /\ p \notin gone
      BY <1>2, <1>4
    <3>2. d.parent[m] = c.parent[m]
      BY <1>12, <2>1, <3>1
    <3> QED BY <1>2, <2>1, <3>2
  <2> QED BY <1>1, <1>2, <2>1
<1>16. Whole(w) /\ Nodes(w) = Nodes(d) \ gone
  BY <1>12, <1>13, <1>15, WithoutIsWhole
<1>17. Unjoined(w, known \union Nodes(w))
  <2>1. known \union Nodes(w) = known \union Nodes(d)
    BY <1>1, <1>2, <1>12, <1>16
  <2>2. PICK all : all = known \union Nodes(d)
    OBVIOUS
  <2>3. Unjoined(d, all) /\ gone \in SUBSET all /\ Nodes(w) \subseteq all
    BY <1>1, <1>2, <1>12, <1>16, <2>2
  <2>4. Unjoined(w, all)
    BY <1>12, <1>13, <2>3, UnjoinedWithout
  <2> QED BY <2>1, <2>2, <2>4
<1>18. ASSUME NEW q \in Nodes(c) \ gone
       PROVE  w.parent[q] = c.parent[q] /\ Kept(w.children[q], {r}) = Kept(c.children[q], gone)
  <2>1. PICK l \in Seq(Node) : l = c.children[q]
    BY <1>1
  <2>2. w.parent[q] = c.parent[q] /\ w.children[q] = Kept(e.children[q], gone) /\ q \in Node
    BY <1>1, <1>4, <1>12, <1>13 DEF Without
  <2>3. r \notin ToSet(l)
    BY <1>1, <1>4, <2>1
  <2>4. CASE q # p
    <3>1. w.children[q] = Kept(l, gone)
      BY <1>6, <2>1, <2>2, <2>4
    <3>2. Kept(l, gone) \in Seq(Node) /\ ToSet(Kept(l, gone)) \intersect {r} = {}
      BY <2>3, KeptMembers
    <3>3. Kept(Kept(l, gone), {r}) = Kept(l, gone)
      BY <3>2, KeptAll
    <3> QED BY <2>1, <2>2, <3>1, <3>3
  <2>5. CASE q = p
    <3>1. PICK k \in Seq(Node) : k = Renamed(l, n, r)
      BY <1>1, <1>4, RenamedMembers
    <3>2. w.children[q] = Kept(k, gone)
      BY <1>6, <2>1, <2>2, <2>5, <3>1
    <3>3. Kept(Kept(k, gone), {r}) = Kept(k, gone \union {r})
      BY <3>1, KeptTwice
    <3>4. Len(k) = Len(l) /\ DOMAIN k = DOMAIN l
          /\ \A i \in DOMAIN l : k[i] = IF l[i] = n THEN r ELSE l[i]
      BY <3>1 DEF Renamed
    <3>5. \A i \in DOMAIN k : /\ k[i] \in gone \union {r} <=> l[i] \in gone
                              /\ k[i] \notin gone \union {r} => k[i] = l[i]
      BY <1>2, <2>3, <3>4 DEF ToSet
    <3>6. Kept(k, gone \union {r}) = Kept(l, gone)
      BY <3>1, <3>4, <3>5, KeptSame
    <3> QED BY <2>1, <2>2, <3>2, <3>3, <3>6
  <2> QED BY <2>4, <2>5
<1>19. \E added \in Seq(Node) : /\ w.nodes = Kept(c.nodes, gone) \o added
                                /\ ToSet(added) \intersect known = {}
  <2>1. PICK l \in Seq(Node), one \in Seq(Node), b \in Seq(Node) :
           l = c.nodes /\ one = <<r>> /\ b = Built(r)
    <3>1. <<r>> \in Seq(Node)
      BY <1>4
    <3> QED BY <1>1, <1>4, <3>1
  <2>2. (l \o one) \o b = l \o (one \o b) /\ one \o b \in Seq(Node)
    BY ConcatAssociative
  <2>3. PICK both \in Seq(Node) : both = one \o b
    BY <2>2
  <2>4. w.nodes = Kept(l \o both, gone)
    BY <1>12, <1>13, <2>1, <2>2, <2>3 DEF Without
  <2>5. Kept(l \o both, gone) = Kept(l, gone) \o Kept(both, gone) /\ Kept(both, gone) \in Seq(Node)
    <3>1. Kept(l \o both, gone) = Kept(l, gone) \o Kept(both, gone)
      <4>1. l \in Seq(Node) /\ both \in Seq(Node)
        OBVIOUS
      <4> QED BY ONLY <4>1, KeptOfBoth
    <3>2. Kept(both, gone) \in Seq(Node)
      BY KeptMembers
    <3> QED BY <3>1, <3>2
  <2>6. ToSet(Kept(both, gone)) \intersect known = {}
    <3>1. r \notin known /\ ToSet(b) \intersect known = {}
      BY <2>1 DEF IsNew, Unjoined
    <3>2. ToSet(one) = {r}
      BY <2>1 DEF ToSet
    <3>3. ToSet(both) = ToSet(one) \union ToSet(b)
      BY <2>3, MembersOfBoth
    <3>4. ToSet(Kept(both, gone)) \subseteq ToSet(both)
      BY KeptMembers
    <3> QED BY <3>1, <3>2, <3>3, <3>4
  <2> QED BY <2>1, <2>4, <2>5, <2>6
<1>20. Nodes(c) \ gone \subseteq Nodes(w)
  BY <1>12, <1>16
<1> QED BY <1>14, <1>16, <1>17, <1>18, <1>19, <1>20 DEF ChartStep, Near

\* A holder takes the place of a node and holds it; putting the node back undoes that.
Wraps(c, d, record, known, n, r) ==
  /\ Whole(d) /\ Unjoined(d, known \union Nodes(d))
  /\ record \in Record /\ record.node = n /\ record.replacement = r
  /\ Mentioned(record) \subseteq Nodes(d) /\ ~ CannotBePutBack(record, d)
  /\ d.nodes = Append(c.nodes, r) /\ Nodes(d) = Nodes(c) \union {r}
  /\ \A m \in Nodes(c) \ {n} : d.parent[m] = c.parent[m]
  /\ Near(c, PutBack(record, d), Nodes(c), {}, {})

LEMMA WrapStep ==
  ASSUME NEW c, Whole(c), NEW known, Unjoined(c, known), NEW n \in Nodes(c),
         NEW r \in Holder \ known
  PROVE  Wraps(c, WrappedIn(c, n, r), ReplacedNode(c, n, r), known, n, r)
<1>1. /\ c \in Chart /\ Nodes(c) \subseteq Node /\ n \in Node /\ c.nodes \in Seq(Node)
      /\ Nodes(c) \subseteq known /\ known \subseteq Node /\ NoNode \notin Node
      /\ \A m \in Node : c.parent[m] \in Nodes(c) \union {NoNode}
      /\ \A q \in Nodes(c) : c.children[q] \in Seq(Node) /\ ToSet(c.children[q]) \subseteq Nodes(c)
  <2>1. Nodes(c) \subseteq known /\ known \subseteq Node
    BY DEF Unjoined
  <2>2. /\ c \in Chart /\ Nodes(c) \subseteq Node
        /\ \A m \in Node : c.parent[m] \in Nodes(c) \union {NoNode}
        /\ \A q \in Nodes(c) : c.children[q] \in Seq(Node) /\ ToSet(c.children[q]) \subseteq Nodes(c)
    BY WholeParents DEF Whole
  <2> QED BY <2>1, <2>2, NodeAssumption DEF Chart
<1>2. /\ r \in Node /\ r \notin known /\ r \notin Nodes(c) /\ r \in Composite /\ Handed[r] = <<>>
      /\ Built(r) = <<>> /\ c.children[r] = <<>>
  <2>1. r \in Composite /\ Handed[r] = <<>> /\ r \in Node /\ r \notin known
    BY NodeAssumption DEF Holder
  <2>2. Built(r) = <<>>
    BY <2>1 DEF Built
  <2>3. c.children[r] = Built(r)
    BY <2>1 DEF Unjoined
  <2> QED BY <1>1, <2>1, <2>2, <2>3
<1>3. PICK p \in Nodes(c) \union {NoNode} : p = c.parent[n]
  BY <1>1
<1>4. p \in Node \union {NoNode} /\ p # r /\ n # r
  BY <1>1, <1>2
<1>5. PICK e : e = ListedInPlaceOf(c, p, n, r)
  OBVIOUS
<1>6. /\ e \in Chart /\ e.nodes = c.nodes /\ e.parent = c.parent /\ e.reads = c.reads
      /\ \A q \in Node \ {p} : e.children[q] = c.children[q]
      /\ p \in Node => e.children[p] = Renamed(c.children[p], n, r)
  <2>1. Lists(c, e, p, n, r)
    BY <1>1, <1>2, <1>4, <1>5, ListedKeeps
  <2> QED BY <2>1 DEF Lists
<1>7. PICK t : t = [e EXCEPT !.children[r] = <<n>> \o @, !.parent[n] = r, !.reads[n] = {}]
  OBVIOUS
<1>8. PICK one \in Seq(Node) : one = <<n>>
  <2>1. <<n>> \in Seq(Node)
    BY <1>1
  <2> QED BY <2>1
<1>9. one \o <<>> = one /\ ToSet(one) = {n}
  BY <1>8, ConcatEmptySeq DEF ToSet
<1>10. /\ t.nodes = e.nodes /\ t.children = [e.children EXCEPT ![r] = one]
       /\ t.parent = [e.parent EXCEPT ![n] = r]
       /\ t.reads = [e.reads EXCEPT ![n] = {}]
       /\ t = [nodes |-> t.nodes, parent |-> t.parent, children |-> t.children, reads |-> t.reads]
  <2>1. e.children[r] = <<>>
    BY <1>2, <1>4, <1>6
  <2>2. <<n>> \o e.children[r] = one
    BY <1>8, <1>9, <2>1
  <2>3. t = [e EXCEPT !.children = [e.children EXCEPT ![r] = <<n>> \o e.children[r]],
                      !.parent = [e.parent EXCEPT ![n] = r], !.reads = [e.reads EXCEPT ![n] = {}]]
    BY <1>6, <1>7 DEF Chart
  <2> QED BY <1>6, <2>2, <2>3 DEF Chart
<1>11. /\ t \in Chart /\ Nodes(t) = Nodes(c) /\ t.children[r] = one
       /\ \A q \in Node \ {r} : t.children[q] = e.children[q]
       /\ \A m \in Node : t.parent[m] = IF m = n THEN r ELSE c.parent[m]
  <2>1. /\ e.nodes \in Seq(Node) /\ e.children \in [Node -> Seq(Node)]
        /\ e.parent \in [Node -> Node \union {NoNode}] /\ e.reads \in [Node -> SUBSET Node]
    BY <1>6 DEF Chart
  <2>2. t.nodes \in Seq(Node) /\ t.children \in [Node -> Seq(Node)]
        /\ t.parent \in [Node -> Node \union {NoNode}] /\ t.reads \in [Node -> SUBSET Node]
    <3>1. t.nodes \in Seq(Node)
      BY <1>10, <2>1
    <3>2. t.children \in [Node -> Seq(Node)]
      <4>1. PICK g \in [Node -> Seq(Node)] : g = e.children
        BY <2>1
      <4>2. [g EXCEPT ![r] = one] \in [Node -> Seq(Node)]
        OBVIOUS
      <4> QED BY <1>10, <4>1, <4>2
    <3>3. t.parent \in [Node -> Node \union {NoNode}]
      <4>1. PICK g \in [Node -> Node \union {NoNode}] : g = e.parent
        BY <2>1
      <4>2. [g EXCEPT ![n] = r] \in [Node -> Node \union {NoNode}]
        BY <1>2
      <4> QED BY <1>10, <4>1, <4>2
    <3>4. t.reads \in [Node -> SUBSET Node]
      <4>1. PICK g \in [Node -> SUBSET Node] : g = e.reads
        BY <2>1
      <4>2. [g EXCEPT ![n] = {}] \in [Node -> SUBSET Node]
        OBVIOUS
      <4> QED BY <1>10, <4>1, <4>2
    <3> QED BY <3>1, <3>2, <3>3, <3>4
  <2>3. t \in Chart
    BY <1>10, <2>2 DEF Chart
  <2> QED BY <1>1, <1>2, <1>6, <1>10, <2>1, <2>3 DEF Nodes
<1>12. PICK f \in Chart : f = Registered(t, r, p)
  BY <1>2, <1>4, <1>11, RegisteredChart
<1>13. Joins(t, f, r, p, <<>>)
  <2>1. PICK below \in Seq(Node) : below = <<>>
    <3>1. <<>> \in Seq(Node)
      OBVIOUS
    <3> QED BY <3>1
  <2>2. ToSet(one) \subseteq Nodes(t)
    BY <1>9, <1>11
  <2>3. Kept(one, Nodes(t)) = <<>>
    BY <2>2, KeptNone
  <2>4. below = IF r \in Composite THEN Kept(t.children[r], Nodes(t)) ELSE <<>>
    BY <1>2, <1>11, <2>1, <2>3
  <2>5. Joins(t, Registered(t, r, p), r, p, below)
    BY <1>2, <1>4, <1>11, <2>4, RegisteredJoins
  <2> QED BY <1>12, <2>1, <2>5
<1>14. PICK d : d = IF p = NoNode THEN f ELSE Wired(f, p)
  OBVIOUS
<1>15. d \in Chart /\ d.nodes = f.nodes /\ d.parent = f.parent /\ d.children = f.children
  BY <1>12, <1>14, WiredKeeps
<1>16. d = WrappedIn(c, n, r)
  BY <1>3, <1>5, <1>7, <1>12, <1>14 DEF WrappedIn, Parent
<1>17. /\ d.nodes = Append(c.nodes, r)
       /\ \A m \in Node : d.parent[m] = IF m = n THEN r ELSE IF m = r THEN p ELSE c.parent[m]
       /\ d.children = t.children
  <2>1. ToSet(<<>>) = {}
    BY DEF ToSet
  <2>2. /\ f.nodes = t.nodes \o <<r>> \o <<>> /\ f.children = t.children
        /\ f.parent = [m \in Node |-> IF m = r THEN p
                                      ELSE IF m \in ToSet(<<>>) THEN r ELSE t.parent[m]]
    BY <1>13 DEF Joins
  <2>3. PICK l \in Seq(Node), new \in Seq(Node) : l = c.nodes /\ new = <<r>>
    <3>1. <<r>> \in Seq(Node)
      BY <1>2
    <3> QED BY <1>1, <3>1
  <2>4. l \o new \in Seq(Node) /\ l \o new = Append(l, r)
    BY <2>3
  <2>5. (l \o new) \o <<>> = l \o new
    BY <2>4, ConcatEmptySeq
  <2>6. t.nodes = l
    BY <1>6, <1>10, <2>3
  <2>7. f.nodes = Append(l, r)
    BY <2>2, <2>3, <2>4, <2>5, <2>6
  <2>8. \A m \in Node : f.parent[m] = IF m = n THEN r ELSE IF m = r THEN p ELSE c.parent[m]
    BY <1>4, <1>11, <2>1, <2>2
  <2> QED BY <1>15, <2>2, <2>3, <2>7, <2>8
<1>18. /\ d.children[r] = <<n>>
       /\ \A q \in Node \ {p, r} : d.children[q] = c.children[q]
       /\ p # NoNode => d.children[p] = Renamed(c.children[p], n, r)
  BY <1>2, <1>4, <1>6, <1>8, <1>11, <1>17
<1>19. Whole(d) /\ Nodes(d) = Nodes(c) \union {r}
  <2>1. r \in Node \ Nodes(c) /\ c.children[r] = <<>>
    BY <1>2
  <2>2. \A q \in Nodes(c) \ {p} : d.children[q] = c.children[q]
    BY <1>1, <1>2, <1>18
  <2> QED BY <1>3, <1>15, <1>17, <1>18, <2>1, <2>2, WrappedIsWhole
<1>20. Unjoined(d, known \union Nodes(d))
  <2>1. ASSUME NEW m \in Node \ (known \union Nodes(d))
        PROVE  d.children[m] = Built(m) /\ ToSet(Built(m)) \intersect (known \union Nodes(d)) = {}
    <3>1. m \in Node \ known /\ m # p /\ m # r
      BY <1>1, <1>19
    <3>2. c.children[m] = Built(m) /\ ToSet(Built(m)) \intersect known = {}
      BY <3>1 DEF Unjoined
    <3>3. r \notin ToSet(Built(m))
      <4>1. ToSet(Built(m)) \subseteq Motion
        BY BuiltType
      <4> QED BY <1>2, <4>1, NodeAssumption
    <3> QED BY <1>1, <1>18, <1>19, <3>1, <3>2, <3>3
  <2>2. known \union Nodes(d) \subseteq Node
    BY <1>1, <1>2, <1>19
  <2> QED BY <2>1, <2>2 DEF Unjoined
<1>21. PICK record : record = ReplacedNode(c, n, r)
  OBVIOUS
<1>22. /\ record.node = n /\ record.replacement = r /\ record.parent = p
       /\ record \in Record /\ Mentioned(record) \subseteq Nodes(d)
  <2>1. c.reads[n] \in SUBSET Node
    BY <1>1 DEF Chart
  <2>2. record.node = n /\ record.replacement = r /\ record.parent = p /\ record \in Record
    BY <1>1, <1>2, <1>3, <1>4, <1>21, <2>1 DEF ReplacedNode, Record, Parent
  <2> QED BY <1>3, <1>19, <2>2 DEF Mentioned
<1>23. PICK u : u = PutBack(record, d)
  OBVIOUS
<1>24. /\ u.parent = [d.parent EXCEPT ![n] = p]
       /\ \A q \in Node \ {p} : u.children[q] = d.children[q]
       /\ p \in Node => u.children[p] = Renamed(d.children[p], r, n)
  <2>1. Restores(d, u, record)
    BY <1>15, <1>22, <1>23, PutBackKeeps
  <2> QED BY <1>22, <2>1 DEF Restores
<1>25. ASSUME NEW q \in Nodes(c) PROVE u.parent[q] = c.parent[q] /\ u.children[q] = c.children[q]
  <2>1. u.parent[q] = c.parent[q]
    <3>1. d.parent \in [Node -> Node \union {NoNode}]
      BY <1>15 DEF Chart
    <3> QED BY <1>1, <1>2, <1>3, <1>17, <1>24, <3>1
  <2>2. CASE q # p
    BY <1>1, <1>2, <1>18, <1>24, <2>1, <2>2
  <2>3. CASE q = p
    <3>1. PICK l \in Seq(Node) : l = c.children[p]
      BY <1>1, <2>3
    <3>2. r \notin ToSet(l)
      BY <1>1, <1>2, <2>3, <3>1
    <3>3. PICK k \in Seq(Node) : k = Renamed(l, n, r)
      BY <1>1, <1>2, RenamedMembers
    <3>4. DOMAIN k = DOMAIN l /\ \A i \in DOMAIN l : k[i] = IF l[i] = n THEN r ELSE l[i]
      BY <3>3 DEF Renamed
    <3>5. PICK b \in Seq(Node) : b = Renamed(k, r, n)
      BY <1>1, <1>2, RenamedMembers
    <3>6. DOMAIN b = DOMAIN k /\ \A i \in DOMAIN k : b[i] = IF k[i] = r THEN n ELSE k[i]
      BY <3>5 DEF Renamed
    <3>7. \A i \in DOMAIN l : l[i] # r
      BY <3>2 DEF ToSet
    <3>8. DOMAIN b = DOMAIN l /\ \A i \in DOMAIN l : b[i] = l[i]
      BY <3>4, <3>6, <3>7
    <3>9. b = l
      <4>1. Len(b) = Len(l)
        BY <3>8
      <4> QED BY <3>8, <4>1, SeqEqual
    <3>10. u.children[p] = Renamed(k, r, n)
      BY <1>1, <1>18, <1>24, <2>3, <3>1, <3>3
    <3> QED BY <2>1, <2>3, <3>1, <3>5, <3>9, <3>10
  <2> QED BY <2>2, <2>3
<1>26. Near(c, u, Nodes(c), {}, {})
  BY <1>25 DEF Near
<1>27. \A m \in Nodes(c) \ {n} : d.parent[m] = c.parent[m]
  BY <1>1, <1>2, <1>17
<1>28. ~ CannotBePutBack(record, d)
  <2>1. d.parent[r] = p
    BY <1>2, <1>4, <1>17
  <2>2. p # NoNode => r \in ToSet(d.children[p])
    BY <1>2, <1>19, <2>1, WholeParents DEF Whole
  <2> QED BY <1>22, <2>2 DEF CannotBePutBack
<1>29. Wraps(c, d, record, known, n, r)
  BY <1>17, <1>19, <1>20, <1>22, <1>23, <1>26, <1>27, <1>28 DEF Wraps
<1> QED BY <1>16, <1>21, <1>29
-----------------------------------------------------------------------------
\* What holds of a chart, the open blocks and the records of replaced nodes together.

StartsWith(list, first) == \E rest \in Seq(Node) : list = first \o rest

\* What was compiled comes first, and is below what was compiled.
Begins(c, done) ==
  /\ StartsWith(c.nodes, done)
  /\ \A m \in ToSet(done) : c.parent[m] \in ToSet(done) \union {NoNode}

\* Below the nodes there were, there is in their order what there was, and more.
Within(was, u) ==
  \A p \in Nodes(was) : /\ u.parent[p] = was.parent[p]
                        /\ Kept(u.children[p], Node \ Nodes(was)) = was.children[p]

\* A block that is abandoned will find the nodes there were, and putting back the nodes
\* replaced since puts every node there was below its parent.
Reverts(b, c, records, done) ==
  /\ Whole(b.asItWas) /\ Begins(b.asItWas, done)
  /\ b.count = Len(b.asItWas.nodes) /\ b.replaced \in 0..Len(records)
  /\ \A i \in 1..b.replaced : Mentioned(records[i]) \subseteq Nodes(b.asItWas)
  /\ StartsWith(c.nodes, b.asItWas.nodes)
  /\ Within(b.asItWas, PutBackFrom(b.replaced, records, c))

Nested(within) ==
  \A i, j \in DOMAIN within : i < j =>
    /\ within[i].replaced <= within[j].replaced
    /\ StartsWith(within[j].asItWas.nodes, within[i].asItWas.nodes)

Recorded(c, records) ==
  /\ records \in Seq(Record)
  /\ \A i \in DOMAIN records : Mentioned(records[i]) \subseteq Nodes(c)

\* Each replacement will be where it is looked for when its turn comes.
Relists(c, records) ==
  \A i \in DOMAIN records : ~ CannotBePutBack(records[i], PutBackFrom(i, records, c))

Sound(c, known, within, records, done) ==
  /\ Whole(c) /\ Unjoined(c, known) /\ Recorded(c, records) /\ Relists(c, records)
  /\ done \in Seq(Node) /\ Begins(c, done)
  /\ \A j \in DOMAIN within : Reverts(within[j], c, records, done)
  /\ Nested(within)

LEMMA StartsWithMembers ==
  ASSUME NEW l, NEW first \in Seq(Node), StartsWith(l, first)
  PROVE  l \in Seq(Node) /\ ToSet(first) \subseteq ToSet(l) /\ Len(first) <= Len(l)
         /\ \A i \in 1..Len(first) : l[i] = first[i]
<1>1. PICK rest \in Seq(Node) : l = first \o rest
  BY DEF StartsWith
<1>2. ToSet(l) = ToSet(first) \union ToSet(rest)
  BY <1>1, MembersOfBoth
<1>3. l \in Seq(Node) /\ Len(first) <= Len(l) /\ \A i \in 1..Len(first) : l[i] = first[i]
  BY <1>1
<1> QED BY <1>2, <1>3

LEMMA StartsWithMore ==
  ASSUME NEW l, NEW first \in Seq(Node), StartsWith(l, first), NEW gone,
         ToSet(first) \intersect gone = {}, NEW added \in Seq(Node)
  PROVE  StartsWith(Kept(l, gone) \o added, first)
<1>1. PICK rest \in Seq(Node) : l = first \o rest
  BY DEF StartsWith
<1>2. Kept(first, gone) = first
  BY KeptAll
<1>3. PICK left \in Seq(Node) : left = Kept(rest, gone)
  <2>1. Kept(rest, gone) \in Seq(Node)
    BY KeptMembers
  <2> QED BY <2>1
<1>4. Kept(l, gone) = first \o left
  <2>1. Kept(first \o rest, gone) = Kept(first, gone) \o Kept(rest, gone)
    BY ONLY KeptOfBoth
  <2> QED BY <1>1, <1>2, <1>3, <2>1
<1>5. (first \o left) \o added = first \o (left \o added) /\ left \o added \in Seq(Node)
  BY ConcatAssociative
<1> QED BY <1>4, <1>5 DEF StartsWith

LEMMA StartsWithAll ==
  ASSUME NEW l \in Seq(Node)
  PROVE  /\ StartsWith(l, l) /\ StartsWith(l, <<>>)
         /\ \A n \in Node : StartsWith(Append(l, n), l)
<1>1. <<>> \in Seq(Node) /\ l \o <<>> = l /\ <<>> \o l = l
  BY ConcatEmptySeq
<1>2. ASSUME NEW n \in Node PROVE <<n>> \in Seq(Node) /\ Append(l, n) = l \o <<n>>
  OBVIOUS
<1>3. StartsWith(l, l) /\ StartsWith(l, <<>>)
  BY <1>1 DEF StartsWith
<1> QED BY <1>2, <1>3 DEF StartsWith

LEMMA StartsWithBoth ==
  ASSUME NEW l, NEW k \in Seq(Node), NEW first \in Seq(Node),
         StartsWith(l, k), StartsWith(k, first)
  PROVE  StartsWith(l, first)
<1>1. PICK a \in Seq(Node) : l = k \o a
  BY DEF StartsWith
<1>2. PICK b \in Seq(Node) : k = first \o b
  BY DEF StartsWith
<1>3. (first \o b) \o a = first \o (b \o a) /\ b \o a \in Seq(Node)
  BY ConcatAssociative
<1> QED BY <1>1, <1>2, <1>3 DEF StartsWith

\* Nodes that were not there join and leave without a difference to those that were.
LEMMA WithinNear ==
  ASSUME NEW was \in Chart, NEW u \in Chart, NEW v \in Chart, Within(was, u),
         NEW gone \in SUBSET Node, NEW new \in SUBSET Node,
         (gone \union new) \intersect Nodes(was) = {}, Near(u, v, Nodes(was), gone, new)
  PROVE  Within(was, v)
<1>1. PICK out : out = Node \ Nodes(was)
  OBVIOUS
<1>2. gone \union out = out /\ new \union out = out
  BY <1>1
<1>3. ASSUME NEW p \in Nodes(was)
      PROVE  v.parent[p] = was.parent[p] /\ Kept(v.children[p], out) = was.children[p]
  <2>1. p \in Node
    BY DEF Chart, Nodes, ToSet
  <2>2. PICK k \in Seq(Node), l \in Seq(Node) : k = u.children[p] /\ l = v.children[p]
    BY <2>1 DEF Chart
  <2>3. v.parent[p] = u.parent[p] /\ Kept(l, new) = Kept(k, gone)
    BY <2>2 DEF Near
  <2>4. u.parent[p] = was.parent[p] /\ Kept(k, out) = was.children[p]
    BY <1>1, <2>2 DEF Within
  <2>5. Kept(Kept(l, new), out) = Kept(l, new \union out)
    BY KeptTwice
  <2>6. Kept(Kept(k, gone), out) = Kept(k, gone \union out)
    BY KeptTwice
  <2>7. Kept(l, out) = Kept(k, out)
    BY <1>2, <2>3, <2>5, <2>6
  <2> QED BY <2>2, <2>3, <2>4, <2>7
<1> QED BY <1>1, <1>3 DEF Within

\* What Sound says of the chart, for the lemmas below.
LEMMA SoundChart ==
  ASSUME NEW c, NEW known, NEW within, NEW records, NEW done,
         Sound(c, known, within, records, done)
  PROVE  /\ c \in Chart /\ c.nodes \in Seq(Node) /\ Nodes(c) \subseteq Node
         /\ IsInjective(c.nodes) /\ Nodes(c) \subseteq known /\ known \subseteq Node
         /\ \A m \in Node : c.parent[m] \in Nodes(c) \union {NoNode}
         /\ \A m \in Node : m \notin Nodes(c) => c.parent[m] = NoNode
         /\ \A p \in Nodes(c) : c.children[p] \in Seq(Node) /\ ToSet(c.children[p]) \subseteq Nodes(c)
         /\ records \in Seq(Record)
         /\ \A i \in DOMAIN records : Mentioned(records[i]) \subseteq Nodes(c)
         /\ done \in Seq(Node) /\ ToSet(done) \subseteq Nodes(c)
         /\ \A j \in DOMAIN within :
              LET was == within[j].asItWas
              IN /\ was \in Chart /\ was.nodes \in Seq(Node) /\ Nodes(was) \subseteq Nodes(c)
                 /\ within[j].replaced \in 0..Len(records)
<1>1. Whole(c) /\ Unjoined(c, known) /\ Recorded(c, records)
      /\ done \in Seq(Node) /\ Begins(c, done)
      /\ \A j \in DOMAIN within : Reverts(within[j], c, records, done)
  BY DEF Sound
<1>2. /\ c \in Chart /\ Nodes(c) \subseteq Node /\ IsInjective(c.nodes)
      /\ \A m \in Node : c.parent[m] \in Nodes(c) \union {NoNode}
      /\ \A m \in Node : m \notin Nodes(c) => c.parent[m] = NoNode
      /\ \A p \in Nodes(c) : c.children[p] \in Seq(Node) /\ ToSet(c.children[p]) \subseteq Nodes(c)
  BY <1>1, WholeParents DEF Whole
<1>3. Nodes(c) \subseteq known /\ known \subseteq Node
  BY <1>1 DEF Unjoined
<1>4. ToSet(done) \subseteq Nodes(c)
  BY <1>1, StartsWithMembers DEF Begins, Nodes
<1>5. ASSUME NEW j \in DOMAIN within, NEW was, was = within[j].asItWas
      PROVE  /\ was \in Chart /\ was.nodes \in Seq(Node) /\ Nodes(was) \subseteq Nodes(c)
             /\ within[j].replaced \in 0..Len(records)
  <2>1. Whole(was) /\ StartsWith(c.nodes, was.nodes) /\ within[j].replaced \in 0..Len(records)
    BY <1>1, <1>5 DEF Reverts
  <2>2. was \in Chart /\ was.nodes \in Seq(Node)
    BY <2>1 DEF Whole, WholeBut, Chart
  <2>3. Nodes(was) \subseteq Nodes(c)
    BY <2>1, <2>2, StartsWithMembers DEF Nodes
  <2> QED BY <2>1, <2>2, <2>3
<1>6. c.nodes \in Seq(Node)
  BY <1>2 DEF Chart
<1> QED BY <1>1, <1>2, <1>3, <1>4, <1>5, <1>6 DEF Recorded

\* Putting back what was replaced since a block was opened keeps a chart a chart.
LEMMA SoundPutsBack ==
  ASSUME NEW c, NEW known, Whole(c), Unjoined(c, known), NEW records, Recorded(c, records),
         NEW k \in 0..Len(records)
  PROVE  PutsBack(c, PutBackFrom(k, records, c), known)
<1>1. /\ c \in Chart /\ known \in SUBSET Node /\ Nodes(c) \subseteq known
      /\ \A p \in Nodes(c) : ToSet(c.children[p]) \subseteq Nodes(c)
  BY WholeParents DEF Whole, Unjoined
<1> QED BY <1>1, PutBackFromKeeps DEF Recorded

\* The compiled nodes stay first when others join at the end or leave.
LEMMA BeginsNear ==
  ASSUME NEW c, NEW done \in Seq(Node), Begins(c, done), ToSet(done) \subseteq Nodes(c),
         NEW d, NEW gone, NEW new, Near(c, d, Nodes(c) \ gone, gone, new),
         ToSet(done) \intersect gone = {},
         NEW added \in Seq(Node), d.nodes = Kept(c.nodes, gone) \o added
  PROVE  Begins(d, done)
<1>1. StartsWith(d.nodes, done)
  BY StartsWithMore DEF Begins
<1>2. \A m \in ToSet(done) : d.parent[m] = c.parent[m]
  BY DEF Near
<1> QED BY <1>1, <1>2 DEF Begins

\* A method keeps what abandoning a block relies on, if neither what leaves nor what
\* joins was there when the block was opened.
LEMMA StepReverts ==
  ASSUME NEW c, NEW known, NEW within, NEW records, NEW done,
         Sound(c, known, within, records, done), NEW d, NEW gone, NEW new \in SUBSET Node,
         ChartStep(c, d, known, gone, new), gone \subseteq Nodes(c), new \intersect known = {},
         \A i \in DOMAIN records : Mentioned(records[i]) \intersect gone = {},
         NEW j \in DOMAIN within, gone \intersect Nodes(within[j].asItWas) = {}
  PROVE  Reverts(within[j], d, records, done)
<1>1. PICK b : b = within[j]
  OBVIOUS
<1>2. Reverts(b, c, records, done)
  BY <1>1 DEF Sound
<1>3. PICK was \in Chart : was = b.asItWas
  BY <1>1, SoundChart
<1>4. PICK k \in 0..Len(records) : k = b.replaced
  BY <1>1, SoundChart
<1>5. /\ was.nodes \in Seq(Node) /\ Nodes(was) \subseteq Nodes(c) /\ Nodes(c) \subseteq known
      /\ Nodes(c) \subseteq Node /\ c \in Chart /\ records \in Seq(Record)
      /\ \A i \in DOMAIN records : Mentioned(records[i]) \subseteq Nodes(c)
  BY <1>1, <1>3, SoundChart
<1>6. /\ d \in Chart /\ Near(c, d, Nodes(c) \ gone, gone, new)
      /\ \E added \in Seq(Node) : d.nodes = Kept(c.nodes, gone) \o added
  BY DEF ChartStep, Whole, WholeBut
<1>7. StartsWith(d.nodes, was.nodes)
  <2>1. ToSet(was.nodes) \intersect gone = {}
    BY <1>1, <1>3 DEF Nodes
  <2>2. StartsWith(c.nodes, was.nodes)
    BY <1>2, <1>3 DEF Reverts
  <2> QED BY <1>5, <1>6, <2>1, <2>2, StartsWithMore
<1>8. Near(c, d, Nodes(was), gone, new)
  BY <1>1, <1>3, <1>5, <1>6 DEF Near
<1>9. PICK u, v : u = PutBackFrom(k, records, c) /\ v = PutBackFrom(k, records, d)
  OBVIOUS
<1>10. Near(u, v, Nodes(was), gone, new)
  <2>1. \A i \in DOMAIN records : Mentioned(records[i]) \intersect (gone \union new) = {}
    BY <1>5
  <2>2. Nodes(was) \in SUBSET Node
    BY <1>5
  <2> QED BY <1>5, <1>6, <1>8, <1>9, <2>1, <2>2, PutBackFromNear
<1>11. u \in Chart /\ v \in Chart
  BY <1>5, <1>6, <1>9, PutBackFromType
<1>12. Within(was, v)
  <2>1. Within(was, u)
    BY <1>2, <1>3, <1>4, <1>9 DEF Reverts
  <2>2. (gone \union new) \intersect Nodes(was) = {} /\ gone \in SUBSET Node
    BY <1>1, <1>3, <1>5
  <2> QED BY <1>10, <1>11, <2>1, <2>2, WithinNear
<1> QED BY <1>1, <1>2, <1>3, <1>4, <1>7, <1>9, <1>12 DEF Reverts

\* A method that changes the chart keeps all of it.
LEMMA StepIsSound ==
  ASSUME NEW c, NEW known, NEW within, NEW records, NEW done,
         Sound(c, known, within, records, done), NEW d, NEW gone, NEW new \in SUBSET Node,
         ChartStep(c, d, known, gone, new), gone \subseteq Nodes(c), new \intersect known = {},
         \A i \in DOMAIN records : Mentioned(records[i]) \intersect gone = {},
         \A j \in DOMAIN within : gone \intersect Nodes(within[j].asItWas) = {},
         gone \intersect ToSet(done) = {}
  PROVE  Sound(d, known \union Nodes(d), within, records, done)
<1>1. \A j \in DOMAIN within : Reverts(within[j], d, records, done)
  BY StepReverts
<1>2. Whole(d) /\ Unjoined(d, known \union Nodes(d)) /\ Nodes(c) \ gone \subseteq Nodes(d)
  BY DEF ChartStep
<1>3. /\ done \in Seq(Node) /\ ToSet(done) \subseteq Nodes(c) /\ records \in Seq(Record)
      /\ \A i \in DOMAIN records : Mentioned(records[i]) \subseteq Nodes(c)
  BY SoundChart
<1>4. Begins(d, done)
  <2>1. Begins(c, done)
    BY DEF Sound
  <2>2. PICK added \in Seq(Node) : d.nodes = Kept(c.nodes, gone) \o added
    BY DEF ChartStep
  <2>3. Near(c, d, Nodes(c) \ gone, gone, new)
    BY DEF ChartStep
  <2> QED BY <1>3, <2>1, <2>2, <2>3, BeginsNear
<1>5. Recorded(d, records)
  BY <1>2, <1>3 DEF Recorded
<1>6. Relists(d, records)
  <2>1. PICK nodes \in SUBSET Node : nodes = Nodes(c) \ gone
    BY SoundChart
  <2>2. c \in Chart /\ d \in Chart /\ Nodes(c) \subseteq known
    BY <1>2, SoundChart DEF Whole, WholeBut
  <2>3. Near(c, d, nodes, gone, new)
    BY <2>1 DEF ChartStep
  <2>4. \A i \in DOMAIN records : /\ Mentioned(records[i]) \intersect (gone \union new) = {}
                                 /\ Mentioned(records[i]) \subseteq nodes
    BY <1>3, <2>1, <2>2
  <2>5. Relists(c, records)
    BY DEF Sound
  <2> QED BY <1>3, <2>2, <2>3, <2>4, <2>5, StillListed DEF Relists
<1> QED BY <1>1, <1>2, <1>3, <1>4, <1>5, <1>6 DEF Sound

\* What is there when a block is opened is what it finds.
LEMMA OpenedReverts ==
  ASSUME NEW c, NEW known, NEW within, NEW records, NEW done,
         Sound(c, known, within, records, done), NEW b,
         b = [count |-> Len(c.nodes), replaced |-> Len(records), asItWas |-> c]
  PROVE  Reverts(b, c, records, done)
<1>1. b.asItWas = c /\ b.count = Len(c.nodes) /\ b.replaced = Len(records)
  OBVIOUS
<1>2. /\ c \in Chart /\ c.nodes \in Seq(Node) /\ records \in Seq(Record)
      /\ \A p \in Nodes(c) : c.children[p] \in Seq(Node) /\ ToSet(c.children[p]) \subseteq Nodes(c)
      /\ \A i \in DOMAIN records : Mentioned(records[i]) \subseteq Nodes(c)
  BY SoundChart
<1>3. Len(records) \in 0..Len(records) /\ DOMAIN records = 1..Len(records)
  BY <1>2
<1>4. StartsWith(c.nodes, c.nodes)
  BY <1>2, StartsWithAll
<1>5. PutBackFrom(Len(records), records, c) = c
  BY <1>2, PutBackNothing
<1>6. ASSUME NEW p \in Nodes(c) PROVE Kept(c.children[p], Node \ Nodes(c)) = c.children[p]
  <2>1. PICK out : out = Node \ Nodes(c)
    OBVIOUS
  <2>2. c.children[p] \in Seq(Node) /\ ToSet(c.children[p]) \intersect out = {}
    BY <1>2, <2>1
  <2> QED BY <2>1, <2>2, KeptAll
<1>7. Within(c, c)
  BY <1>6 DEF Within
<1>8. Whole(c) /\ Begins(c, done)
  BY DEF Sound
<1> QED BY <1>1, <1>2, <1>3, <1>4, <1>5, <1>7, <1>8 DEF Reverts

LEMMA OpenIsSound ==
  ASSUME NEW c, NEW known, NEW within, NEW records, NEW done,
         Sound(c, known, within, records, done), NEW b,
         b = [count |-> Len(c.nodes), replaced |-> Len(records), asItWas |-> c],
         NEW l \in Nat, \A j \in DOMAIN within : j \in Nat /\ j < l, NEW more,
         DOMAIN more \subseteq DOMAIN within \union {l},
         \A j \in DOMAIN more : more[j] = IF j = l THEN b ELSE within[j]
  PROVE  Sound(c, known, more, records, done)
<1>1. Reverts(b, c, records, done) /\ b.asItWas = c /\ b.replaced = Len(records)
  BY OpenedReverts
<1>2. ASSUME NEW j \in DOMAIN more PROVE Reverts(more[j], c, records, done)
  BY <1>1 DEF Sound
<1>3. ASSUME NEW i \in DOMAIN more, NEW j \in DOMAIN more, i < j
      PROVE  /\ more[i].replaced <= more[j].replaced
             /\ StartsWith(more[j].asItWas.nodes, more[i].asItWas.nodes)
  <2>1. i # l
    BY <1>3
  <2>2. i \in DOMAIN within /\ more[i] = within[i]
    BY <2>1
  <2>3. CASE j # l
    <3>1. j \in DOMAIN within /\ more[j] = within[j] /\ Nested(within)
      BY <2>3 DEF Sound
    <3> QED BY <1>3, <2>2, <3>1 DEF Nested
  <2>4. CASE j = l
    <3>1. more[j] = b
      BY <2>4
    <3>2. Reverts(within[i], c, records, done)
      BY <2>2 DEF Sound
    <3>3. within[i].replaced <= Len(records) /\ StartsWith(c.nodes, within[i].asItWas.nodes)
      BY <2>2, <3>2, SoundChart DEF Reverts
    <3> QED BY <1>1, <2>2, <3>1, <3>3
  <2> QED BY <2>3, <2>4
<1> QED BY <1>2, <1>3 DEF Sound, Nested

LEMMA FrontMembers ==
  ASSUME NEW S, NEW s \in Seq(S), s # <<>>
  PROVE  /\ Front(s) \in Seq(S) /\ DOMAIN Front(s) = 1..(Len(s) - 1)
         /\ Len(s) \in Nat \ {0} /\ Len(s) \in DOMAIN s /\ DOMAIN s = 1..Len(s)
         /\ Last(s) = s[Len(s)]
         /\ \A j \in DOMAIN Front(s) : j \in DOMAIN s /\ Front(s)[j] = s[j]
<1>1. Len(s) \in Nat \ {0} /\ DOMAIN s = 1..Len(s)
  BY EmptySeq
<1>2. PICK f : f = SubSeq(s, 1, Len(s) - 1)
  OBVIOUS
<1>3. f \in Seq(S) /\ Len(f) = Len(s) - 1 /\ \A j \in 1..(Len(s) - 1) : f[j] = s[j]
  BY <1>1, <1>2
<1>4. f = Front(s)
  BY <1>2 DEF Front
<1> QED BY <1>1, <1>3, <1>4 DEF Last

\* A block is closed, the outermost with the records.
LEMMA FewerIsSound ==
  ASSUME NEW c, NEW known, NEW within, NEW records, NEW done,
         Sound(c, known, within, records, done), NEW fewer,
         DOMAIN fewer \subseteq DOMAIN within, \A j \in DOMAIN fewer : fewer[j] = within[j]
  PROVE  Sound(c, known, fewer, records, done)
BY DEF Sound, Nested

LEMMA OutermostIsSound ==
  ASSUME NEW c, NEW known, NEW within, NEW records, NEW done,
         Sound(c, known, within, records, done)
  PROVE  /\ Sound(c, known, <<>>, <<>>, done)
         /\ Sound(c, known, <<>>, <<>>, c.nodes)
<1>1. PICK none : none = <<>>
  OBVIOUS
<1>2. none \in Seq(Record) /\ DOMAIN none = {}
  BY <1>1
<1>3. Recorded(c, none) /\ Relists(c, none) /\ Nested(none)
  BY <1>2 DEF Recorded, Relists, Nested
<1>4. Sound(c, known, none, none, done)
  BY <1>2, <1>3 DEF Sound
<1>5. /\ c.nodes \in Seq(Node) /\ Nodes(c) \subseteq Node
      /\ \A m \in Node : c.parent[m] \in Nodes(c) \union {NoNode}
  BY SoundChart
<1>6. Begins(c, c.nodes)
  BY <1>5, StartsWithAll DEF Begins, Nodes
<1>7. Sound(c, known, none, none, c.nodes)
  BY <1>2, <1>3, <1>5, <1>6 DEF Sound
<1> QED BY <1>1, <1>4, <1>7

\* A node is replaced by its holder: what was recorded puts it back.
LEMMA WrapReverts ==
  ASSUME NEW c, NEW known, NEW within, NEW records, NEW done,
         Sound(c, known, within, records, done), NEW d, NEW record, NEW n, NEW r,
         Wraps(c, d, record, known, n, r), n \in Nodes(c), r \notin known,
         NEW j \in DOMAIN within
  PROVE  Reverts(within[j], d, Append(records, record), done)
<1>1. PICK b : b = within[j]
  OBVIOUS
<1>2. Reverts(b, c, records, done)
  BY <1>1 DEF Sound
<1>3. PICK was \in Chart : was = b.asItWas
  BY <1>1, SoundChart
<1>4. PICK k \in 0..Len(records) : k = b.replaced
  BY <1>1, SoundChart
<1>5. /\ was.nodes \in Seq(Node) /\ Nodes(was) \subseteq Nodes(c) /\ Nodes(c) \subseteq known
      /\ Nodes(c) \subseteq Node /\ c \in Chart /\ c.nodes \in Seq(Node) /\ records \in Seq(Record)
      /\ \A i \in DOMAIN records : Mentioned(records[i]) \subseteq Nodes(c)
  BY <1>1, <1>3, SoundChart
<1>6. /\ record \in Record /\ record.replacement = r /\ d.nodes = Append(c.nodes, r)
      /\ Near(c, PutBack(record, d), Nodes(c), {}, {}) /\ d \in Chart
  BY DEF Wraps, Whole, WholeBut
<1>7. PICK back : back = PutBack(record, d)
  OBVIOUS
<1>8. /\ back \in Chart /\ back.nodes = d.nodes
  <2>1. Restores(d, back, record)
    BY <1>6, <1>7, PutBackKeeps
  <2> QED BY <2>1 DEF Restores
<1>9. StartsWith(d.nodes, was.nodes)
  <2>1. r \in Node
    BY <1>6 DEF Record
  <2>2. StartsWith(d.nodes, c.nodes)
    BY <1>5, <1>6, <2>1, StartsWithAll
  <2>3. StartsWith(c.nodes, was.nodes)
    BY <1>2, <1>3 DEF Reverts
  <2> QED BY <1>5, <2>2, <2>3, StartsWithBoth
<1>10. Near(c, back, Nodes(was), {}, {})
  BY <1>5, <1>6, <1>7 DEF Near
<1>11. PICK u, v : u = PutBackFrom(k, records, c) /\ v = PutBackFrom(k, records, back)
  OBVIOUS
<1>12. Near(u, v, Nodes(was), {}, {})
  <2>1. \A i \in DOMAIN records : Mentioned(records[i]) \intersect ({} \union {}) = {}
    OBVIOUS
  <2>2. Nodes(was) \in SUBSET Node
    BY <1>5
  <2> QED BY <1>5, <1>8, <1>10, <1>11, <2>1, <2>2, PutBackFromNear
<1>13. PICK more \in Seq(Record) : more = Append(records, record)
  <2>1. Append(records, record) \in Seq(Record)
    BY <1>5, <1>6
  <2> QED BY <2>1
<1>14. /\ Len(more) = Len(records) + 1 /\ DOMAIN more = 1..(Len(records) + 1)
       /\ \A i \in DOMAIN records : more[i] = records[i]
       /\ more[Len(records) + 1] = record /\ DOMAIN records = 1..Len(records)
       /\ Len(records) \in Nat
  BY <1>5, <1>13
<1>15. v = PutBackFrom(k, more, d)
  BY <1>5, <1>6, <1>7, <1>11, <1>13, PutBackLatestFirst
<1>16. u \in Chart /\ v \in Chart
  BY <1>5, <1>8, <1>11, PutBackFromType
<1>17. Within(was, v)
  <2>1. Within(was, u)
    BY <1>2, <1>3, <1>4, <1>11 DEF Reverts
  <2>2. {} \in SUBSET Node /\ ({} \union {}) \intersect Nodes(was) = {}
    OBVIOUS
  <2> QED BY <1>12, <1>16, <2>1, <2>2, WithinNear
<1>18. k \in 0..Len(more)
  BY <1>14
<1>19. \A i \in 1..k : more[i] = records[i]
  BY <1>14
<1>20. \A i \in 1..k : Mentioned(more[i]) \subseteq Nodes(was)
  BY <1>2, <1>3, <1>4, <1>19 DEF Reverts
<1>21. Reverts(b, d, more, done)
  BY <1>2, <1>3, <1>4, <1>9, <1>15, <1>17, <1>18, <1>20 DEF Reverts
<1> QED BY <1>1, <1>13, <1>21

LEMMA WrapIsSound ==
  ASSUME NEW c, NEW known, NEW within, NEW records, NEW done,
         Sound(c, known, within, records, done), NEW d, NEW record, NEW n, NEW r,
         Wraps(c, d, record, known, n, r), n \in Nodes(c), r \notin known,
         n \notin ToSet(done)
  PROVE  Sound(d, known \union Nodes(d), within, Append(records, record), done)
<1>1. \A j \in DOMAIN within : Reverts(within[j], d, Append(records, record), done)
  BY WrapReverts
<1>2. /\ Whole(d) /\ Unjoined(d, known \union Nodes(d)) /\ record \in Record
      /\ record.replacement = r /\ Mentioned(record) \subseteq Nodes(d)
      /\ ~ CannotBePutBack(record, d)
      /\ d.nodes = Append(c.nodes, r) /\ Nodes(d) = Nodes(c) \union {r}
      /\ \A m \in Nodes(c) \ {n} : d.parent[m] = c.parent[m]
  BY DEF Wraps
<1>3. /\ c.nodes \in Seq(Node) /\ records \in Seq(Record) /\ done \in Seq(Node)
      /\ ToSet(done) \subseteq Nodes(c) /\ Nodes(c) \subseteq known
      /\ \A i \in DOMAIN records : Mentioned(records[i]) \subseteq Nodes(c)
  BY SoundChart
<1>4. Begins(d, done)
  <2>1. r \in Node
    BY <1>2 DEF Record
  <2>2. StartsWith(d.nodes, c.nodes)
    BY <1>2, <1>3, <2>1, StartsWithAll
  <2>3. Begins(c, done)
    BY DEF Sound
  <2>4. StartsWith(d.nodes, done)
    BY <1>3, <2>2, <2>3, StartsWithBoth DEF Begins
  <2> QED BY <1>2, <1>3, <2>3, <2>4 DEF Begins
<1>5. PICK more : more = Append(records, record)
  OBVIOUS
<1>6. /\ more \in Seq(Record) /\ DOMAIN more = 1..(Len(records) + 1)
      /\ \A i \in DOMAIN records : more[i] = records[i]
      /\ more[Len(records) + 1] = record /\ DOMAIN records = 1..Len(records)
      /\ Len(records) \in Nat
  BY <1>2, <1>3, <1>5
<1>7. Recorded(d, more)
  <2>1. ASSUME NEW i \in DOMAIN more PROVE Mentioned(more[i]) \subseteq Nodes(d)
    <3>1. CASE i \in DOMAIN records
      BY <1>2, <1>3, <1>6, <3>1
    <3>2. CASE i = Len(records) + 1
      BY <1>2, <1>6, <3>2
    <3> QED BY <1>6, <3>1, <3>2
  <2> QED BY <1>6, <2>1 DEF Recorded
<1>8. Relists(d, more)
  <2>1. PICK back : back = PutBack(record, d)
    OBVIOUS
  <2>2. /\ c \in Chart /\ d \in Chart /\ back \in Chart /\ Nodes(c) \in SUBSET Node
        /\ Near(c, back, Nodes(c), {}, {})
    <3>1. d \in Chart /\ Near(c, back, Nodes(c), {}, {})
      BY <2>1 DEF Wraps, Whole, WholeBut
    <3>2. back \in Chart
      BY <1>2, <2>1, <3>1, PutBackKeeps DEF Restores
    <3> QED BY <3>1, <3>2, SoundChart
  <2>3. ASSUME NEW i \in DOMAIN records
        PROVE  ~ CannotBePutBack(more[i], PutBackFrom(i, more, d))
    <3>1. ~ CannotBePutBack(records[i], PutBackFrom(i, records, c))
      BY DEF Sound, Relists
    <3>2. \A j \in DOMAIN records : Mentioned(records[j]) \intersect ({} \union {}) = {}
      OBVIOUS
    <3>3. ~ CannotBePutBack(records[i], PutBackFrom(i, records, back))
      BY <1>3, <2>2, <3>1, <3>2, StillListed
    <3>4. PutBackFrom(i, more, d) = PutBackFrom(i, records, back)
      <4>1. i \in 0..Len(records)
        BY <1>6
      <4> QED BY <1>2, <1>3, <1>5, <2>1, <4>1, PutBackLatestFirst
    <3> QED BY <1>6, <3>3, <3>4
  <2>4. PutBackFrom(Len(records) + 1, more, d) = d
    <3>1. Len(more) = Len(records) + 1
      BY <1>6
    <3> QED BY <1>6, <3>1, PutBackNothing
  <2>5. ASSUME NEW i \in DOMAIN more
        PROVE  ~ CannotBePutBack(more[i], PutBackFrom(i, more, d))
    <3>1. CASE i \in DOMAIN records
      BY <2>3, <3>1
    <3>2. CASE i = Len(records) + 1
      BY <1>2, <1>6, <2>4, <3>2
    <3> QED BY <1>6, <3>1, <3>2
  <2> QED BY <2>5 DEF Relists
<1> QED BY <1>1, <1>2, <1>3, <1>4, <1>5, <1>7, <1>8 DEF Sound

LEMMA CompiledIsSound ==
  ASSUME NEW c, NEW known, NEW within, NEW records, NEW done,
         Sound(c, known, within, records, done), DOMAIN within = {}
  PROVE  Sound(c, known, within, records, c.nodes)
<1>1. /\ c.nodes \in Seq(Node) /\ Nodes(c) \subseteq Node
      /\ \A m \in Node : c.parent[m] \in Nodes(c) \union {NoNode}
  BY SoundChart
<1>2. Begins(c, c.nodes)
  BY <1>1, StartsWithAll DEF Begins, Nodes
<1> QED BY <1>1, <1>2 DEF Sound

\* What a chart is to a block that put every node back and dropped the others.
GivesBack(was, c, u, d, known, gone) ==
  /\ d = Without(u, gone) /\ gone = Nodes(c) \ Nodes(was) /\ u \in Chart
  /\ d.nodes = was.nodes /\ d.parent = was.parent
  /\ \A p \in Nodes(was) : d.children[p] = was.children[p]
  /\ Whole(d) /\ Unjoined(d, known)

\* The same nodes below the same parents are as whole.
LEMMA SameIsWhole ==
  ASSUME NEW was, Whole(was), NEW d \in Chart, d.nodes = was.nodes, d.parent = was.parent,
         \A p \in Nodes(was) : d.children[p] = was.children[p]
  PROVE  Whole(d)
<1>1. Nodes(d) = Nodes(was)
  BY DEF Nodes
<1>2. \A m \in Node : was.parent[m] # NoNode =>
        was.parent[m] \in Nodes(was) /\ d.children[was.parent[m]] = was.children[was.parent[m]]
  BY DEF Whole, WholeBut
<1> QED BY <1>1, <1>2 DEF Whole, WholeBut

LEMMA AbandonedChart ==
  ASSUME NEW c, NEW known, NEW within, NEW records, NEW done,
         Sound(c, known, within, records, done), NEW b, Reverts(b, c, records, done),
         NEW u, u = PutBackFrom(b.replaced, records, c),
         NEW d, d = DroppedFrom(u, b.count)
  PROVE  GivesBack(b.asItWas, c, u, d, known, Nodes(c) \ Nodes(b.asItWas))
<1>1. PICK was : was = b.asItWas
  OBVIOUS
<1>2. /\ c \in Chart /\ c.nodes \in Seq(Node) /\ IsInjective(c.nodes) /\ Nodes(c) \subseteq Node
      /\ Nodes(c) \subseteq known /\ known \subseteq Node
      /\ \A m \in Node : m \notin Nodes(c) => c.parent[m] = NoNode
  BY SoundChart
<1>3. /\ Whole(was) /\ b.count = Len(was.nodes) /\ b.replaced \in 0..Len(records)
      /\ StartsWith(c.nodes, was.nodes) /\ Within(was, u)
  BY <1>1 DEF Reverts
<1>4. /\ was \in Chart /\ was.nodes \in Seq(Node) /\ Nodes(was) \subseteq Node
      /\ was.parent \in [Node -> Node \union {NoNode}]
      /\ \A m \in Node : m \notin Nodes(was) => was.parent[m] = NoNode
  BY <1>3, WholeParents DEF Whole, Chart
<1>5. PutsBack(c, u, known)
  BY <1>3, SoundPutsBack DEF Sound
<1>6. /\ u \in Chart /\ u.nodes = c.nodes
      /\ \A n \in Node \ Nodes(c) : u.parent[n] = c.parent[n]
      /\ \A p \in Nodes(c) : ToSet(u.children[p]) \subseteq Nodes(c)
      /\ \A p \in Node \ known : u.children[p] = c.children[p]
  BY <1>5 DEF PutsBack
<1>7. PICK first \in Seq(Node), rest \in Seq(Node) : first = was.nodes /\ c.nodes = first \o rest
  BY <1>3, <1>4 DEF StartsWith
<1>8. PICK gone : gone = Nodes(c) \ Nodes(was)
  OBVIOUS
<1>9. ToSet(first) = Nodes(was) /\ ToSet(rest) = gone /\ Nodes(was) \subseteq Nodes(c)
  <2>1. IsInjective(first \o rest)
    BY <1>2, <1>7
  <2>2. ToSet(first) \intersect ToSet(rest) = {}
    BY <2>1, PartsOfInjective
  <2>3. ToSet(first \o rest) = ToSet(first) \union ToSet(rest)
    BY MembersOfBoth
  <2> QED BY <1>7, <1>8, <2>2, <2>3 DEF Nodes
<1>10. {u.nodes[i] : i \in (b.count + 1)..Len(u.nodes)} = gone
  <2>1. PICK l \in Seq(Node) : l = first \o rest
    <3>1. first \o rest \in Seq(Node)
      OBVIOUS
    <3> QED BY <3>1
  <2>2. /\ Len(l) = Len(first) + Len(rest) /\ Len(first) \in Nat /\ Len(rest) \in Nat
        /\ \A i \in 1..Len(rest) : l[Len(first) + i] = rest[i]
        /\ DOMAIN rest = 1..Len(rest)
    BY <2>1
  <2>3. ASSUME NEW i \in (Len(first) + 1)..Len(l) PROVE l[i] \in ToSet(rest)
    <3>1. PICK j \in 1..Len(rest) : j = i - Len(first)
      <4>1. i - Len(first) \in 1..Len(rest)
        BY <2>2
      <4> QED BY <4>1
    <3>2. i = Len(first) + j
      BY <2>2, <3>1
    <3> QED BY <2>2, <3>2 DEF ToSet
  <2>4. ASSUME NEW n \in ToSet(rest)
        PROVE  \E i \in (Len(first) + 1)..Len(l) : l[i] = n
    <3>1. PICK j \in 1..Len(rest) : rest[j] = n
      BY <2>2 DEF ToSet
    <3>2. Len(first) + j \in (Len(first) + 1)..Len(l) /\ l[Len(first) + j] = n
      BY <2>2, <3>1
    <3> QED BY <3>2
  <2>5. {l[i] : i \in (Len(first) + 1)..Len(l)} = ToSet(rest)
    BY <2>3, <2>4
  <2> QED BY <1>3, <1>6, <1>7, <1>9, <2>1, <2>5
<1>11. d = Without(u, gone)
  BY <1>10 DEF DroppedFrom
<1>12. d.nodes = was.nodes
  <2>1. Kept(first \o rest, gone) = Kept(first, gone) \o Kept(rest, gone)
    BY ONLY KeptOfBoth
  <2>2. Kept(first, gone) = first
    BY <1>8, <1>9, KeptAll
  <2>3. Kept(rest, gone) = <<>>
    BY <1>9, KeptNone
  <2>4. first \o <<>> = first
    BY ConcatEmptySeq
  <2>5. d.nodes = Kept(first \o rest, gone)
    BY <1>6, <1>7, <1>11 DEF Without
  <2> QED BY <1>7, <2>1, <2>2, <2>3, <2>4, <2>5
<1>13. d.parent = was.parent
  <2>1. d.parent = [n \in Node |-> IF n \in gone THEN NoNode ELSE u.parent[n]]
    BY <1>11 DEF Without
  <2>2. ASSUME NEW n \in Node
        PROVE  (IF n \in gone THEN NoNode ELSE u.parent[n]) = was.parent[n]
    <3>1. CASE n \in gone
      BY <1>4, <1>8, <3>1
    <3>2. CASE n \in Nodes(was)
      <4>1. u.parent[n] = was.parent[n]
        BY <1>3, <3>2 DEF Within
      <4> QED BY <1>8, <3>2, <4>1
    <3>3. CASE n \notin Nodes(c)
      BY <1>2, <1>4, <1>6, <1>8, <1>9, <3>3
    <3> QED BY <1>8, <3>1, <3>2, <3>3
  <2>3. was.parent = [n \in Node |-> was.parent[n]]
    BY <1>4
  <2> QED BY <2>1, <2>2, <2>3
<1>14. ASSUME NEW p \in Nodes(was) PROVE d.children[p] = was.children[p]
  <2>1. p \in Node /\ p \in Nodes(c) /\ p \notin gone
    BY <1>4, <1>8, <1>9
  <2>2. PICK l \in Seq(Node) : l = u.children[p]
    BY <1>6, <2>1 DEF Chart
  <2>3. d.children[p] = Kept(l, gone)
    BY <1>11, <2>1, <2>2 DEF Without
  <2>4. PICK out : out = Node \ Nodes(was)
    OBVIOUS
  <2>5. Kept(l, out) = was.children[p]
    BY <1>3, <2>2, <2>4 DEF Within
  <2>6. ToSet(l) \subseteq Nodes(c)
    BY <1>6, <2>1, <2>2
  <2>7. \A i \in DOMAIN l : l[i] \in gone <=> l[i] \in out
    BY <1>2, <1>8, <2>4, <2>6 DEF ToSet
  <2>8. Kept(l, gone) = Kept(l, out)
    BY <2>7, KeptSame
  <2> QED BY <2>3, <2>5, <2>8
<1>15. d \in Chart
  <2>1. /\ u.reads \in [Node -> SUBSET Node] /\ u.children \in [Node -> Seq(Node)]
    BY <1>6 DEF Chart
  <2>2. /\ d.reads = u.reads
        /\ d.children = [p \in Node |-> IF p \in gone THEN u.children[p] ELSE Kept(u.children[p], gone)]
        /\ d = [nodes |-> d.nodes, parent |-> d.parent, children |-> d.children, reads |-> d.reads]
    BY <1>11 DEF Without
  <2>3. \A p \in Node : u.children[p] \in Seq(Node) /\ Kept(u.children[p], gone) \in Seq(Node)
    BY <2>1, KeptMembers
  <2>4. d.children \in [Node -> Seq(Node)]
    BY <2>2, <2>3
  <2> QED BY <1>4, <1>12, <1>13, <2>1, <2>2, <2>4 DEF Chart
<1>16. Whole(d)
  BY <1>3, <1>12, <1>13, <1>14, <1>15, SameIsWhole
<1>17. Unjoined(d, known)
  <2>1. Unjoined(u, known)
    <3>1. Nodes(u) = Nodes(c)
      BY <1>6 DEF Nodes
    <3>2. Unjoined(c, known)
      BY DEF Sound
    <3> QED BY <1>6, <3>1, <3>2 DEF Unjoined
  <2>2. gone \in SUBSET known /\ Nodes(d) \subseteq known
    BY <1>2, <1>8, <1>9, <1>12 DEF Nodes
  <2> QED BY <1>6, <1>11, <2>1, <2>2, UnjoinedWithout
<1> QED BY <1>1, <1>6, <1>8, <1>11, <1>12, <1>13, <1>14, <1>16, <1>17 DEF GivesBack

\* A block outside the one that is abandoned keeps what it relies on.
LEMMA AbandonReverts ==
  ASSUME NEW c, NEW known, NEW within, NEW records, NEW done,
         Sound(c, known, within, records, done), NEW l \in DOMAIN within,
         NEW j \in DOMAIN within, within[j].replaced <= within[l].replaced,
         StartsWith(within[l].asItWas.nodes, within[j].asItWas.nodes),
         NEW b, b = within[l], NEW u, u = PutBackFrom(b.replaced, records, c),
         NEW d, d = DroppedFrom(u, b.count)
  PROVE  Reverts(within[j], d, SubSeq(records, 1, b.replaced), done)
<1>1. PICK o : o = within[j]
  OBVIOUS
<1>2. Reverts(b, c, records, done) /\ Reverts(o, c, records, done)
  BY <1>1 DEF Sound
<1>3. PICK was \in Chart : was = o.asItWas
  BY <1>1, SoundChart
<1>4. PICK before \in Chart : before = b.asItWas
  BY SoundChart
<1>5. PICK k \in 0..Len(records) : k = o.replaced
  BY <1>1, SoundChart
<1>6. PICK m \in 0..Len(records) : m = b.replaced
  BY SoundChart
<1>7. /\ was.nodes \in Seq(Node) /\ before.nodes \in Seq(Node) /\ records \in Seq(Record)
      /\ Nodes(was) \subseteq Node /\ c \in Chart /\ Nodes(c) \subseteq Node
      /\ Nodes(before) \subseteq Nodes(c)
      /\ \A i \in DOMAIN records : Mentioned(records[i]) \subseteq Nodes(c)
  <2>1. was.nodes \in Seq(Node) /\ Nodes(was) \subseteq Nodes(c)
    BY <1>1, <1>3, SoundChart
  <2>2. before.nodes \in Seq(Node) /\ Nodes(before) \subseteq Nodes(c)
    BY <1>4, SoundChart
  <2> QED BY <2>1, <2>2, SoundChart
<1>8. k <= m /\ StartsWith(before.nodes, was.nodes) /\ k \in 0..m
  <2>1. k <= m /\ StartsWith(before.nodes, was.nodes)
    BY <1>1, <1>3, <1>4, <1>5, <1>6
  <2> QED BY <2>1
<1>9. PICK first \in Seq(Record) : first = SubSeq(records, 1, m)
  <2>1. SubSeq(records, 1, m) \in Seq(Record)
    BY <1>7
  <2> QED BY <2>1
<1>10. Len(first) = m /\ DOMAIN first = 1..m /\ \A i \in 1..m : i \in DOMAIN records /\ first[i] = records[i]
  BY <1>7, <1>9
<1>11. PICK gone : gone = Nodes(c) \ Nodes(before)
  OBVIOUS
<1>12. GivesBack(before, c, u, d, known, gone)
  BY <1>2, <1>4, <1>11, AbandonedChart
<1>13. /\ d = Without(u, gone) /\ d.nodes = before.nodes /\ d.parent = before.parent
       /\ Whole(d) /\ Unjoined(d, known) /\ u \in Chart /\ d \in Chart
  BY <1>12 DEF GivesBack, Whole, WholeBut
<1>14. Nodes(was) \subseteq Nodes(before)
  BY <1>7, <1>8, StartsWithMembers DEF Nodes
<1>15. \A i \in DOMAIN first : Mentioned(first[i]) \subseteq Nodes(before)
  BY <1>2, <1>4, <1>6, <1>10 DEF Reverts
<1>16. Near(u, d, Nodes(was), gone, {})
  <2>1. ASSUME NEW p \in Nodes(was)
        PROVE  d.parent[p] = u.parent[p] /\ Kept(d.children[p], {}) = Kept(u.children[p], gone)
    <3>1. p \in Node /\ p \notin gone
      BY <1>7, <1>11, <1>14
    <3>2. d.parent[p] = u.parent[p] /\ d.children[p] = Kept(u.children[p], gone)
      BY <1>13, <3>1 DEF Without
    <3>3. PICK n \in Seq(Node) : n = d.children[p]
      BY <1>13, <3>1 DEF Chart
    <3>4. Kept(n, {}) = n
      BY KeptAll
    <3> QED BY <3>2, <3>3, <3>4
  <2> QED BY <2>1 DEF Near
<1>17. PICK v, w : v = PutBackFrom(k, first, u) /\ w = PutBackFrom(k, first, d)
  OBVIOUS
<1>18. k \in 0..Len(first)
  BY <1>8, <1>10
<1>19. Near(v, w, Nodes(was), gone, {})
  <2>1. \A i \in DOMAIN first : Mentioned(first[i]) \intersect (gone \union {}) = {}
    BY <1>11, <1>15
  <2>2. Nodes(was) \in SUBSET Node
    BY <1>7
  <2> QED BY <1>13, <1>16, <1>17, <1>18, <2>1, <2>2, PutBackFromNear
<1>20. v = PutBackFrom(k, records, c)
  BY <1>6, <1>7, <1>8, <1>9, <1>17, PutBackInTurn
<1>22. v \in Chart /\ w \in Chart
  BY <1>13, <1>17, <1>18, PutBackFromType
<1>23. Within(was, w)
  <2>1. Within(was, v)
    BY <1>2, <1>3, <1>5, <1>20 DEF Reverts
  <2>2. (gone \union {}) \intersect Nodes(was) = {} /\ gone \in SUBSET Node /\ {} \in SUBSET Node
    BY <1>7, <1>11, <1>14
  <2> QED BY <1>19, <1>22, <2>1, <2>2, WithinNear
<1>24. \A i \in 1..k : Mentioned(first[i]) \subseteq Nodes(was)
  <2>1. \A i \in 1..k : i \in 1..m
    BY <1>8
  <2> QED BY <1>2, <1>3, <1>5, <1>10, <2>1 DEF Reverts
<1>25. StartsWith(d.nodes, was.nodes)
  BY <1>8, <1>13
<1>26. Reverts(o, d, first, done)
  BY <1>2, <1>3, <1>5, <1>17, <1>18, <1>23, <1>24, <1>25 DEF Reverts
<1> QED BY <1>1, <1>6, <1>9, <1>26

\* A block is abandoned.
LEMMA AbandonIsSound ==
  ASSUME NEW c, NEW known, NEW within, NEW records, NEW done,
         Sound(c, known, within, records, done), NEW l \in DOMAIN within,
         \A j \in DOMAIN within : j \in Nat /\ j <= l, NEW b, b = within[l],
         NEW u, u = PutBackFrom(b.replaced, records, c),
         NEW d, d = DroppedFrom(u, b.count), NEW f, DOMAIN f \subseteq DOMAIN within \ {l},
         \A j \in DOMAIN f : f[j] = within[j]
  PROVE  /\ Sound(d, known, f, SubSeq(records, 1, b.replaced), done)
         /\ GivesBack(b.asItWas, c, u, d, known, Nodes(c) \ Nodes(b.asItWas))
<1>1. Reverts(b, c, records, done) /\ Nested(within)
  BY DEF Sound
<1>2. PICK first : first = SubSeq(records, 1, b.replaced)
  OBVIOUS
<1>3. ASSUME NEW j \in DOMAIN f PROVE Reverts(f[j], d, first, done)
  <2>1. j \in DOMAIN within /\ j < l
    OBVIOUS
  <2>2. within[j].replaced <= within[l].replaced
        /\ StartsWith(within[l].asItWas.nodes, within[j].asItWas.nodes)
    BY <1>1, <2>1 DEF Nested
  <2> QED BY <1>2, <2>1, <2>2, AbandonReverts
<1>4. PICK gone : gone = Nodes(c) \ Nodes(b.asItWas)
  OBVIOUS
<1>5. GivesBack(b.asItWas, c, u, d, known, gone)
  BY <1>1, <1>4, AbandonedChart
<1>6. /\ Whole(d) /\ Unjoined(d, known) /\ d.nodes = b.asItWas.nodes
      /\ d.parent = b.asItWas.parent /\ d = Without(u, gone) /\ u \in Chart
  BY <1>5 DEF GivesBack
<1>7. Begins(d, done)
  BY <1>1, <1>6 DEF Reverts, Begins
<1>8. PICK m \in 0..Len(records) : m = b.replaced
  BY <1>1 DEF Reverts
<1>9. records \in Seq(Record)
  BY SoundChart
<1>10. /\ first \in Seq(Record) /\ DOMAIN first = 1..m
       /\ \A i \in 1..m : i \in DOMAIN records /\ first[i] = records[i]
  BY <1>2, <1>8, <1>9
<1>11. Nodes(d) = Nodes(b.asItWas)
  BY <1>6 DEF Nodes
<1>12. \A i \in DOMAIN first : Mentioned(first[i]) \subseteq Nodes(d)
  BY <1>1, <1>8, <1>10, <1>11 DEF Reverts
<1>13. Recorded(d, first)
  BY <1>10, <1>12 DEF Recorded
<1>14. Relists(d, first)
  <2>1. PICK nodes \in SUBSET Node : nodes = Nodes(d)
    <3>1. Nodes(d) \subseteq Node
      BY <1>6 DEF Whole, WholeBut, Chart, Nodes, ToSet
    <3> QED BY <3>1
  <2>2. Near(u, d, nodes, gone, {})
    <3>1. ASSUME NEW p \in nodes
          PROVE  d.parent[p] = u.parent[p] /\ Kept(d.children[p], {}) = Kept(u.children[p], gone)
      <4>1. p \in Node /\ p \notin gone
        BY <1>4, <1>11, <2>1
      <4>2. d.parent[p] = u.parent[p] /\ d.children[p] = Kept(u.children[p], gone)
        BY <1>6, <4>1 DEF Without
      <4>3. PICK n \in Seq(Node) : n = d.children[p]
        BY <1>6, <4>1 DEF Whole, WholeBut, Chart
      <4>4. Kept(n, {}) = n
        BY KeptAll
      <4> QED BY <4>2, <4>3, <4>4
    <3> QED BY <3>1 DEF Near
  <2>3. ASSUME NEW i \in DOMAIN first
        PROVE  ~ CannotBePutBack(first[i], PutBackFrom(i, first, d))
    <3>1. ~ CannotBePutBack(records[i], PutBackFrom(i, records, c))
      BY <1>10 DEF Sound, Relists
    <3>2. PutBackFrom(i, records, c) = PutBackFrom(i, first, u)
      <4>1. i \in 0..m
        BY <1>10
      <4> QED BY <1>2, <1>8, <1>9, <4>1, PutBackInTurn
    <3>3. ~ CannotBePutBack(first[i], PutBackFrom(i, first, u))
      BY <1>10, <3>1, <3>2
    <3>4. \A j \in DOMAIN first : Mentioned(first[j]) \intersect (gone \union {}) = {}
      BY <1>4, <1>11, <1>12
    <3>5. d \in Chart
      BY <1>6 DEF Whole, WholeBut
    <3> QED BY <1>6, <1>10, <1>12, <2>1, <2>2, <3>3, <3>4, <3>5, StillListed
  <2> QED BY <2>3 DEF Relists
<1>15. Nested(f)
  BY <1>1 DEF Nested
<1>16. done \in Seq(Node)
  BY DEF Sound
<1> QED BY <1>2, <1>3, <1>4, <1>5, <1>6, <1>7, <1>13, <1>14, <1>15, <1>16 DEF Sound
-----------------------------------------------------------------------------
\* What a block finds again.  Nodes from before a block may leave in it, and so may nodes
\* of a record: then nothing is left of what the block relies on but how many nodes it
\* counted.

\* The blocks that would find their nodes, and whether the records would find theirs.
Found(c, blocksOpen) == {j \in DOMAIN blocksOpen : Nodes(blocksOpen[j].asItWas) \subseteq Nodes(c)}
FoundBlocks(c, blocksOpen) == [j \in Found(c, blocksOpen) |-> blocksOpen[j]]
RecordsFound(c, records) == \A i \in DOMAIN records : Mentioned(records[i]) \subseteq Nodes(c)

\* Nodes only move to the front: what a block found is not beyond its count.
Drops(b, c, known, records, done) ==
  /\ b.count \in Nat /\ b.replaced \in 0..Len(records)
  /\ ToSet(done) \subseteq Nodes(b.asItWas) /\ Nodes(b.asItWas) \subseteq known
  /\ \A i \in DOMAIN c.nodes : c.nodes[i] \in Nodes(b.asItWas) => i <= b.count

\* The chart is whole; what a block relies on holds for those that find their nodes.
Standing(c, known, blocksOpen, records, done) ==
  /\ Sound(c, known, <<>>, <<>>, done)
  /\ records \in Seq(Record) /\ \A i \in DOMAIN records : Mentioned(records[i]) \subseteq known
  /\ \E S : blocksOpen \in Seq(S)
  /\ \A j \in DOMAIN blocksOpen : Drops(blocksOpen[j], c, known, records, done)
  /\ \A i, j \in DOMAIN blocksOpen : i < j => blocksOpen[i].replaced <= blocksOpen[j].replaced
  /\ RecordsFound(c, records) => Sound(c, known, FoundBlocks(c, blocksOpen), records, done)

LEMMA NoBlocks ==
  ASSUME NEW c, NEW known, NEW done, Sound(c, known, <<>>, <<>>, done)
  PROVE  Standing(c, known, <<>>, <<>>, done)
<1>1. PICK none : none = <<>>
  OBVIOUS
<1>2. none \in Seq(Record) /\ none \in Seq({}) /\ DOMAIN none = {}
  BY <1>1
<1>3. DOMAIN FoundBlocks(c, none) = {}
  BY <1>2 DEF FoundBlocks, Found
<1>4. Sound(c, known, none, none, done)
  BY <1>1
<1>5. Sound(c, known, FoundBlocks(c, none), none, done)
  BY <1>3, <1>4, FewerIsSound
<1>6. Standing(c, known, none, none, done)
  BY <1>1, <1>2, <1>4, <1>5 DEF Standing
<1> QED BY <1>1, <1>6

\* Nodes that were known and are there yet are no later than before.
LEMMA StepAdvances ==
  ASSUME NEW c, c.nodes \in Seq(Node), NEW known, NEW d, NEW gone, NEW new,
         ChartStep(c, d, known, gone, new),
         NEW i \in DOMAIN d.nodes, d.nodes[i] \in known
  PROVE  d.nodes[i] \notin gone /\ \E j \in DOMAIN c.nodes : j >= i /\ c.nodes[j] = d.nodes[i]
<1>1. PICK added \in Seq(Node) : /\ d.nodes = Kept(c.nodes, gone) \o added
                                 /\ ToSet(added) \intersect known = {}
  BY DEF ChartStep
<1>2. PICK k \in Seq(Node) : k = Kept(c.nodes, gone) /\ ToSet(k) = ToSet(c.nodes) \ gone
  BY KeptMembers
<1>3. d.nodes = k \o added
  BY <1>1, <1>2
<1>4. i \in DOMAIN k /\ d.nodes[i] = k[i]
  <2>1. CASE i \in DOMAIN k
    BY <1>3, <2>1
  <2>2. CASE i \notin DOMAIN k
    <3>1. i - Len(k) \in DOMAIN added /\ d.nodes[i] = added[i - Len(k)]
      BY <1>3, <2>2
    <3>2. d.nodes[i] \in ToSet(added)
      BY <3>1 DEF ToSet
    <3> QED BY <1>1, <3>2
  <2> QED BY <2>1, <2>2
<1>5. d.nodes[i] \notin gone
  <2>1. k[i] \in ToSet(k)
    BY <1>4 DEF ToSet
  <2> QED BY <1>2, <1>4, <2>1
<1>6. \E j \in DOMAIN c.nodes : j >= i /\ c.nodes[j] = k[i]
  BY <1>2, <1>4, KeptEarlier
<1> QED BY <1>4, <1>5, <1>6

LEMMA StandingStep ==
  ASSUME NEW c, NEW known, NEW within, NEW records, NEW done,
         Standing(c, known, within, records, done), NEW d, NEW gone, NEW new \in SUBSET Node,
         ChartStep(c, d, known, gone, new), gone \subseteq Nodes(c), new \intersect known = {},
         gone \intersect ToSet(done) = {}
  PROVE  Standing(d, known \union Nodes(d), within, records, done)
<1>1. PICK more : more = known \union Nodes(d)
  OBVIOUS
<1>2. /\ Sound(c, known, <<>>, <<>>, done) /\ records \in Seq(Record)
      /\ \A i \in DOMAIN records : Mentioned(records[i]) \subseteq known
      /\ \A j \in DOMAIN within : Drops(within[j], c, known, records, done)
  BY DEF Standing
<1>3. c.nodes \in Seq(Node)
  BY <1>2, SoundChart
<1>4. Sound(d, more, <<>>, <<>>, done)
  <2>1. PICK none : none = <<>> /\ DOMAIN none = {}
    OBVIOUS
  <2>2. Sound(c, known, none, none, done)
    BY <1>2, <2>1
  <2>3. Sound(d, known \union Nodes(d), none, none, done)
    BY <2>1, <2>2, StepIsSound
  <2> QED BY <1>1, <2>1, <2>3
<1>5. ASSUME NEW n \in Nodes(d), n \in known PROVE n \in Nodes(c) \ gone
  <2>1. PICK i \in DOMAIN d.nodes : d.nodes[i] = n
    BY DEF Nodes, ToSet
  <2>2. n \notin gone /\ \E j \in DOMAIN c.nodes : c.nodes[j] = n
    BY <1>3, <1>5, <2>1, StepAdvances
  <2> QED BY <2>2 DEF Nodes, ToSet
<1>6. ASSUME NEW j \in DOMAIN within PROVE Drops(within[j], d, more, records, done)
  <2>1. PICK b : b = within[j]
    OBVIOUS
  <2>2. Drops(b, c, known, records, done)
    BY <1>2, <2>1
  <2>3. ASSUME NEW i \in DOMAIN d.nodes, d.nodes[i] \in Nodes(b.asItWas) PROVE i <= b.count
    <3>1. d.nodes[i] \in known
      BY <2>2, <2>3 DEF Drops
    <3>2. PICK m \in DOMAIN c.nodes : m >= i /\ c.nodes[m] = d.nodes[i]
      BY <1>3, <3>1, StepAdvances
    <3>3. m <= b.count /\ b.count \in Nat
      BY <2>2, <2>3, <3>2 DEF Drops
    <3>4. m \in Nat /\ i \in Nat
      <4>1. d.nodes \in Seq(Node)
        BY DEF ChartStep, Whole, WholeBut, Chart
      <4> QED BY <1>3, <4>1
    <3> QED BY <3>2, <3>3, <3>4
  <2> QED BY <1>1, <2>1, <2>2, <2>3 DEF Drops
<1>7. ASSUME RecordsFound(d, records)
      PROVE  Sound(d, more, FoundBlocks(d, within), records, done)
  <2>1. \A i \in DOMAIN records : Mentioned(records[i]) \subseteq Nodes(c) \ gone
    BY <1>2, <1>5, <1>7 DEF RecordsFound
  <2>2. \A j \in Found(d, within) : Nodes(within[j].asItWas) \subseteq Nodes(c) \ gone
    BY <1>2, <1>5 DEF Found, Drops
  <2>3. Sound(c, known, FoundBlocks(c, within), records, done)
    BY <2>1 DEF RecordsFound, Standing
  <2>4. PICK fewer : fewer = FoundBlocks(d, within)
    OBVIOUS
  <2>5. DOMAIN fewer = Found(d, within) /\ \A j \in DOMAIN fewer : fewer[j] = within[j]
    BY <2>4 DEF FoundBlocks
  <2>6. /\ DOMAIN fewer \subseteq DOMAIN FoundBlocks(c, within)
        /\ \A j \in DOMAIN fewer : fewer[j] = FoundBlocks(c, within)[j]
    BY <2>2, <2>5 DEF FoundBlocks, Found
  <2>7. Sound(c, known, fewer, records, done)
    BY <2>3, <2>6, FewerIsSound
  <2>8. /\ \A i \in DOMAIN records : Mentioned(records[i]) \intersect gone = {}
        /\ \A j \in DOMAIN fewer : gone \intersect Nodes(fewer[j].asItWas) = {}
    BY <2>1, <2>2, <2>5
  <2>9. Sound(d, known \union Nodes(d), fewer, records, done)
    BY <2>7, <2>8, StepIsSound
  <2> QED BY <1>1, <2>4, <2>9
<1>8. \A i \in DOMAIN records : Mentioned(records[i]) \subseteq more
  BY <1>1, <1>2
<1>9. /\ \E S : within \in Seq(S)
      /\ \A i, j \in DOMAIN within : i < j => within[i].replaced <= within[j].replaced
  BY DEF Standing
<1>10. Standing(d, more, within, records, done)
  BY <1>2, <1>4, <1>6, <1>7, <1>8, <1>9 DEF Standing
<1> QED BY <1>1, <1>10

LEMMA StandingWrap ==
  ASSUME NEW c, NEW known, NEW within, NEW records, NEW done,
         Standing(c, known, within, records, done), NEW d, NEW record, NEW n, NEW r,
         Wraps(c, d, record, known, n, r), n \in Nodes(c), r \notin known,
         n \notin ToSet(done)
  PROVE  Standing(d, known \union Nodes(d), within, Append(records, record), done)
<1>1. PICK more, recorded : more = known \union Nodes(d) /\ recorded = Append(records, record)
  OBVIOUS
<1>2. /\ Sound(c, known, <<>>, <<>>, done) /\ records \in Seq(Record)
      /\ \A i \in DOMAIN records : Mentioned(records[i]) \subseteq known
      /\ \A j \in DOMAIN within : Drops(within[j], c, known, records, done)
  BY DEF Standing
<1>3. c.nodes \in Seq(Node) /\ Nodes(c) \subseteq known
  BY <1>2, SoundChart
<1>4. /\ record \in Record /\ r \in Node /\ d.nodes = Append(c.nodes, r)
      /\ Mentioned(record) \subseteq Nodes(d) /\ Nodes(d) = Nodes(c) \union {r}
  BY DEF Wraps, Record
<1>5. /\ recorded \in Seq(Record) /\ Len(recorded) = Len(records) + 1 /\ Len(records) \in Nat
      /\ DOMAIN recorded = 1..(Len(records) + 1) /\ DOMAIN records = 1..Len(records)
      /\ \A i \in DOMAIN records : recorded[i] = records[i]
      /\ recorded[Len(records) + 1] = record
  BY <1>1, <1>2, <1>4
<1>6. Sound(d, more, <<>>, <<>>, done)
  <2>1. Sound(d, known \union Nodes(d), <<>>, Append(<<>>, record), done)
    BY <1>2, WrapIsSound
  <2> QED BY <1>1, <2>1, OutermostIsSound
<1>7. ASSUME NEW i \in DOMAIN recorded PROVE Mentioned(recorded[i]) \subseteq more
  <2>1. CASE i \in DOMAIN records
    BY <1>1, <1>2, <1>5, <2>1
  <2>2. CASE i = Len(records) + 1
    BY <1>1, <1>4, <1>5, <2>2
  <2> QED BY <1>5, <2>1, <2>2
<1>8. ASSUME NEW j \in DOMAIN within PROVE Drops(within[j], d, more, recorded, done)
  <2>1. PICK b : b = within[j]
    OBVIOUS
  <2>2. Drops(b, c, known, records, done)
    BY <1>2, <2>1
  <2>3. ASSUME NEW i \in DOMAIN d.nodes, d.nodes[i] \in Nodes(b.asItWas) PROVE i <= b.count
    <3>1. d.nodes[i] \in known
      BY <2>2, <2>3 DEF Drops
    <3>2. i \in DOMAIN c.nodes /\ c.nodes[i] = d.nodes[i]
      BY <1>3, <1>4, <3>1
    <3> QED BY <2>2, <2>3, <3>2 DEF Drops
  <2>4. b.replaced \in 0..Len(recorded)
    BY <1>5, <2>2 DEF Drops
  <2> QED BY <1>1, <2>1, <2>2, <2>3, <2>4 DEF Drops
<1>9. ASSUME RecordsFound(d, recorded)
      PROVE  Sound(d, more, FoundBlocks(d, within), recorded, done)
  <2>1. \A i \in DOMAIN records : Mentioned(records[i]) \subseteq Nodes(c)
    <3>1. \A i \in DOMAIN records : Mentioned(records[i]) \subseteq Nodes(d)
      BY <1>5, <1>9 DEF RecordsFound
    <3> QED BY <1>2, <1>4, <3>1
  <2>2. \A j \in Found(d, within) : Nodes(within[j].asItWas) \subseteq Nodes(c)
    BY <1>2, <1>4 DEF Found, Drops
  <2>3. Sound(c, known, FoundBlocks(c, within), records, done)
    BY <2>1 DEF RecordsFound, Standing
  <2>4. PICK fewer : fewer = FoundBlocks(d, within)
    OBVIOUS
  <2>5. /\ DOMAIN fewer \subseteq DOMAIN FoundBlocks(c, within)
        /\ \A j \in DOMAIN fewer : fewer[j] = FoundBlocks(c, within)[j]
    BY <2>2, <2>4 DEF FoundBlocks, Found
  <2>6. Sound(c, known, fewer, records, done)
    BY <2>3, <2>5, FewerIsSound
  <2>7. Sound(d, known \union Nodes(d), fewer, Append(records, record), done)
    BY <2>6, WrapIsSound
  <2> QED BY <1>1, <2>4, <2>7
<1>10. /\ \E S : within \in Seq(S)
       /\ \A i, j \in DOMAIN within : i < j => within[i].replaced <= within[j].replaced
  BY DEF Standing
<1>11. Standing(d, more, within, recorded, done)
  BY <1>5, <1>6, <1>7, <1>8, <1>9, <1>10 DEF Standing
<1> QED BY <1>1, <1>11

LEMMA StandingOpen ==
  ASSUME NEW c, NEW known, NEW within, NEW records, NEW done,
         Standing(c, known, within, records, done), NEW b,
         b = [count |-> Len(c.nodes), replaced |-> Len(records), asItWas |-> c]
  PROVE  Standing(c, known, Append(within, b), records, done)
<1>1. PICK S : within \in Seq(S)
  BY DEF Standing
<1>2. PICK more : more = Append(within, b)
  OBVIOUS
<1>3. PICK l : l = Len(within) + 1
  OBVIOUS
<1>4. /\ more \in Seq(S \union {b}) /\ DOMAIN more = 1..l /\ DOMAIN within = 1..(l - 1)
      /\ l \in Nat /\ more[l] = b /\ \A j \in DOMAIN within : more[j] = within[j]
  <2>1. within \in Seq(S \union {b})
    BY <1>1
  <2> QED BY <1>2, <1>3, <2>1
<1>5. /\ Sound(c, known, <<>>, <<>>, done) /\ records \in Seq(Record)
      /\ \A j \in DOMAIN within : Drops(within[j], c, known, records, done)
      /\ \A i, j \in DOMAIN within : i < j => within[i].replaced <= within[j].replaced
  BY DEF Standing
<1>6. /\ c.nodes \in Seq(Node) /\ Nodes(c) \subseteq known /\ ToSet(done) \subseteq Nodes(c)
  BY <1>5, SoundChart
<1>7. Drops(b, c, known, records, done)
  BY <1>5, <1>6 DEF Drops
<1>8. ASSUME NEW j \in DOMAIN more PROVE Drops(more[j], c, known, records, done)
  BY <1>4, <1>5, <1>7
<1>9. ASSUME NEW i \in DOMAIN more, NEW j \in DOMAIN more, i < j
      PROVE  more[i].replaced <= more[j].replaced
  <2>1. i \in DOMAIN within
    BY <1>4, <1>9
  <2>2. CASE j = l
    BY <1>4, <1>5, <2>1, <2>2 DEF Drops
  <2>3. CASE j # l
    BY <1>4, <1>5, <1>9, <2>1, <2>3
  <2> QED BY <2>2, <2>3
<1>10. ASSUME RecordsFound(c, records)
       PROVE  Sound(c, known, FoundBlocks(c, more), records, done)
  <2>1. PICK f, g : f = FoundBlocks(c, within) /\ g = FoundBlocks(c, more)
    OBVIOUS
  <2>2. Sound(c, known, f, records, done)
    BY <1>10, <2>1 DEF Standing
  <2>3. /\ DOMAIN f = Found(c, within) /\ DOMAIN g = Found(c, more)
        /\ \A j \in DOMAIN f : f[j] = within[j]
        /\ \A j \in DOMAIN g : g[j] = more[j]
    BY <2>1 DEF FoundBlocks
  <2>4. \A j \in DOMAIN f : j \in Nat /\ j < l
    BY <1>4, <2>3 DEF Found
  <2>5. DOMAIN g \subseteq DOMAIN f \union {l}
    BY <1>4, <2>3 DEF Found
  <2>6. \A j \in DOMAIN g : g[j] = IF j = l THEN b ELSE f[j]
    BY <1>4, <2>3, <2>5 DEF Found
  <2>7. Sound(c, known, g, records, done)
    BY <1>4, <2>2, <2>4, <2>5, <2>6, OpenIsSound
  <2> QED BY <2>1, <2>7
<1>11. Standing(c, known, more, records, done)
  <2>1. \E T : more \in Seq(T)
    BY <1>4
  <2> QED BY <1>5, <1>8, <1>9, <1>10, <2>1 DEF Standing
<1> QED BY <1>2, <1>11

LEMMA StandingFewer ==
  ASSUME NEW c, NEW known, NEW within, NEW records, NEW done,
         Standing(c, known, within, records, done), within # <<>>
  PROVE  Standing(c, known, Front(within), records, done)
<1>1. PICK S : within \in Seq(S)
  BY DEF Standing
<1>2. PICK f : f = Front(within)
  OBVIOUS
<1>3. f \in Seq(S) /\ \A j \in DOMAIN f : j \in DOMAIN within /\ f[j] = within[j]
  BY <1>1, <1>2, FrontMembers
<1>4. ASSUME RecordsFound(c, records) PROVE Sound(c, known, FoundBlocks(c, f), records, done)
  <2>1. Sound(c, known, FoundBlocks(c, within), records, done)
    BY <1>4 DEF Standing
  <2>2. /\ DOMAIN FoundBlocks(c, f) \subseteq DOMAIN FoundBlocks(c, within)
        /\ \A j \in DOMAIN FoundBlocks(c, f) : FoundBlocks(c, f)[j] = FoundBlocks(c, within)[j]
    BY <1>3 DEF FoundBlocks, Found
  <2> QED BY <2>1, <2>2, FewerIsSound
<1>5. \A j \in DOMAIN f : Drops(f[j], c, known, records, done)
  BY <1>3 DEF Standing
<1>6. \A i, j \in DOMAIN f : i < j => f[i].replaced <= f[j].replaced
  BY <1>3 DEF Standing
<1>7. Standing(c, known, f, records, done)
  BY <1>3, <1>4, <1>5, <1>6 DEF Standing
<1> QED BY <1>2, <1>7

LEMMA StandingCompiled ==
  ASSUME NEW c, NEW known, NEW records, NEW done, Standing(c, known, <<>>, records, done)
  PROVE  Standing(c, known, <<>>, records, c.nodes)
<1>1. PICK none : none = <<>> /\ DOMAIN none = {}
  OBVIOUS
<1>2. Standing(c, known, none, records, done)
  BY <1>1
<1>3. Sound(c, known, <<>>, <<>>, c.nodes)
  BY <1>2, OutermostIsSound DEF Standing
<1>4. ASSUME RecordsFound(c, records)
      PROVE  Sound(c, known, FoundBlocks(c, none), records, c.nodes)
  <2>1. Sound(c, known, FoundBlocks(c, none), records, done)
    BY <1>2, <1>4 DEF Standing
  <2>2. DOMAIN FoundBlocks(c, none) = {}
    BY <1>1 DEF FoundBlocks, Found
  <2> QED BY <2>1, <2>2, CompiledIsSound
<1>5. Standing(c, known, none, records, c.nodes)
  BY <1>1, <1>2, <1>3, <1>4 DEF Standing
<1> QED BY <1>1, <1>5

\* A block is abandoned that finds its nodes, as the records do.
LEMMA StandingAbandon ==
  ASSUME NEW c, NEW known, NEW within, NEW records, NEW done,
         Standing(c, known, within, records, done), within # <<>>, RecordsFound(c, records),
         NEW b, b = Last(within), Nodes(b.asItWas) \subseteq Nodes(c),
         NEW u, u = PutBackFrom(b.replaced, records, c), NEW d, d = DroppedFrom(u, b.count)
  PROVE  /\ Standing(d, known, Front(within), SubSeq(records, 1, b.replaced), done)
         /\ GivesBack(b.asItWas, c, u, d, known, Nodes(c) \ Nodes(b.asItWas))
         /\ Relists(c, records) /\ b.replaced \in 0..Len(records)
<1>1. PICK S : within \in Seq(S)
  BY DEF Standing
<1>2. PICK l : l = Len(within)
  OBVIOUS
<1>3. PICK f : f = Front(within)
  OBVIOUS
<1>4. /\ f \in Seq(S) /\ DOMAIN f = 1..(l - 1) /\ DOMAIN within = 1..l
      /\ l \in DOMAIN within /\ l \in Nat /\ b = within[l]
      /\ \A j \in DOMAIN f : j \in DOMAIN within /\ f[j] = within[j]
  BY <1>1, <1>2, <1>3, FrontMembers
<1>5. PICK g, h : g = FoundBlocks(c, within) /\ h = FoundBlocks(d, f)
  OBVIOUS
<1>6. Sound(c, known, g, records, done)
  BY <1>5 DEF Standing
<1>7. /\ DOMAIN g = Found(c, within) /\ DOMAIN h = Found(d, f)
      /\ \A j \in DOMAIN g : g[j] = within[j]
      /\ \A j \in DOMAIN h : h[j] = f[j]
  BY <1>5 DEF FoundBlocks
<1>8. l \in DOMAIN g /\ b = g[l] /\ \A j \in DOMAIN g : j \in Nat /\ j <= l
  BY <1>4, <1>7 DEF Found
<1>9. Reverts(b, c, records, done)
  BY <1>6, <1>8 DEF Sound
<1>10. PICK first : first = SubSeq(records, 1, b.replaced)
  OBVIOUS
<1>11. GivesBack(b.asItWas, c, u, d, known, Nodes(c) \ Nodes(b.asItWas))
  BY <1>6, <1>9, AbandonedChart
<1>12. d.nodes = b.asItWas.nodes /\ Nodes(d) = Nodes(b.asItWas)
  BY <1>11 DEF GivesBack, Nodes
<1>13. DOMAIN h \subseteq DOMAIN g \ {l} /\ \A j \in DOMAIN h : h[j] = g[j]
  <2>1. ASSUME NEW j \in DOMAIN h PROVE j \in DOMAIN g \ {l} /\ h[j] = g[j]
    <3>1. j \in DOMAIN within /\ f[j] = within[j] /\ j # l
      BY <1>4, <1>7 DEF Found
    <3>2. Nodes(within[j].asItWas) \subseteq Nodes(c)
      BY <1>7, <1>12, <3>1 DEF Found
    <3> QED BY <1>7, <3>1, <3>2 DEF Found
  <2> QED BY <2>1
<1>14. Sound(d, known, h, first, done)
  BY <1>6, <1>8, <1>10, <1>13, AbandonIsSound
<1>15. Sound(d, known, <<>>, <<>>, done)
  BY <1>14, OutermostIsSound
<1>16. PICK m \in 0..Len(records) : m = b.replaced
  BY <1>9 DEF Reverts
<1>17. /\ first \in Seq(Record) /\ Len(first) = m /\ DOMAIN first = 1..m
       /\ \A i \in 1..m : i \in DOMAIN records /\ first[i] = records[i]
  <2>1. records \in Seq(Record)
    BY DEF Standing
  <2> QED BY <1>10, <1>16, <2>1
<1>18. \A i \in DOMAIN first : Mentioned(first[i]) \subseteq known
  BY <1>17 DEF Standing
<1>19. c.nodes \in Seq(Node) /\ d.nodes \in Seq(Node) /\ Len(d.nodes) <= Len(c.nodes)
       /\ \A i \in 1..Len(d.nodes) : c.nodes[i] = d.nodes[i]
  <2>1. c.nodes \in Seq(Node)
    BY <1>6, SoundChart
  <2>2. d.nodes \in Seq(Node)
    BY <1>15, SoundChart
  <2>3. StartsWith(c.nodes, d.nodes)
    BY <1>9, <1>12 DEF Reverts
  <2> QED BY <2>1, <2>2, <2>3, StartsWithMembers
<1>20. ASSUME NEW j \in DOMAIN f PROVE Drops(f[j], d, known, first, done)
  <2>1. PICK o : o = f[j]
    OBVIOUS
  <2>2. j \in DOMAIN within /\ o = within[j] /\ j < l
    BY <1>4, <2>1
  <2>3. Drops(o, c, known, records, done) /\ o.replaced <= b.replaced
    BY <1>4, <2>2 DEF Standing
  <2>4. o.replaced \in 0..Len(first)
    BY <1>16, <1>17, <2>3 DEF Drops
  <2>5. ASSUME NEW i \in DOMAIN d.nodes, d.nodes[i] \in Nodes(o.asItWas) PROVE i <= o.count
    <3>1. i \in DOMAIN c.nodes /\ c.nodes[i] = d.nodes[i]
      BY <1>19
    <3> QED BY <2>3, <2>5, <3>1 DEF Drops
  <2> QED BY <2>1, <2>3, <2>4, <2>5 DEF Drops
<1>21. \A i, j \in DOMAIN f : i < j => f[i].replaced <= f[j].replaced
  BY <1>4 DEF Standing
<1>22. Standing(d, known, f, first, done)
  BY <1>4, <1>5, <1>14, <1>15, <1>17, <1>18, <1>20, <1>21 DEF Standing
<1>23. Relists(c, records)
  BY <1>6 DEF Sound
<1> QED BY <1>3, <1>10, <1>11, <1>16, <1>22, <1>23

\* Whatever leaves, nodes that are there keep their place or move to the front.
LEMMA WithoutType ==
  ASSUME NEW c \in Chart, NEW gone
  PROVE  /\ Without(c, gone) \in Chart /\ Without(c, gone).nodes = Kept(c.nodes, gone)
         /\ Nodes(Without(c, gone)) = Nodes(c) \ gone
<1>1. PICK d : d = Without(c, gone)
  OBVIOUS
<1>2. c.nodes \in Seq(Node) /\ \A p \in Node : c.children[p] \in Seq(Node)
  BY DEF Chart
<1>3. Kept(c.nodes, gone) \in Seq(Node) /\ ToSet(Kept(c.nodes, gone)) = ToSet(c.nodes) \ gone
  BY <1>2, KeptMembers
<1>4. \A p \in Node : Kept(c.children[p], gone) \in Seq(Node)
  BY <1>2, KeptMembers
<1>5. /\ d.nodes = Kept(c.nodes, gone)
      /\ d.parent = [n \in Node |-> IF n \in gone THEN NoNode ELSE c.parent[n]]
      /\ d.children = [p \in Node |-> IF p \in gone THEN c.children[p]
                                      ELSE Kept(c.children[p], gone)]
      /\ d = [nodes |-> d.nodes, parent |-> d.parent, children |-> d.children,
              reads |-> c.reads]
  BY <1>1 DEF Without
<1>6. d.parent \in [Node -> Node \union {NoNode}]
  BY <1>5 DEF Chart
<1>7. d.children \in [Node -> Seq(Node)]
  BY <1>2, <1>4, <1>5
<1>8. c.reads \in [Node -> SUBSET Node]
  BY DEF Chart
<1>9. d \in Chart
  <2>1. PICK l \in Seq(Node), p \in [Node -> Node \union {NoNode}],
             s \in [Node -> Seq(Node)], r \in [Node -> SUBSET Node] :
           l = d.nodes /\ p = d.parent /\ s = d.children /\ r = c.reads
    BY <1>3, <1>5, <1>6, <1>7, <1>8
  <2>2. d = [nodes |-> l, parent |-> p, children |-> s, reads |-> r]
    BY <1>5, <2>1
  <2> QED BY <2>2 DEF Chart
<1> QED BY <1>1, <1>3, <1>5, <1>9 DEF Nodes

\* A block that is abandoned drops none of the nodes it found, nor what was compiled.
LEMMA DroppedNodes ==
  ASSUME NEW c \in Chart, NEW known, NEW records \in Seq(Record), NEW done \in Seq(Node),
         StartsWith(c.nodes, done), NEW b, Drops(b, c, known, records, done),
         NEW u, u = PutBackFrom(b.replaced, records, c), NEW d, d = DroppedFrom(u, b.count)
  PROVE  /\ d \in Chart /\ StartsWith(d.nodes, done) /\ Nodes(d) \subseteq Nodes(c)
         /\ Nodes(b.asItWas) \intersect Nodes(c) \subseteq Nodes(d)
         /\ b.count = Len(c.nodes) => d.nodes = c.nodes
<1>1. PICK gone : gone = {u.nodes[i] : i \in (b.count + 1)..Len(u.nodes)}
  OBVIOUS
<1>2. u \in Chart /\ u.nodes = c.nodes /\ c.nodes \in Seq(Node)
  BY PutBackFromType DEF Drops, Chart
<1>3. /\ d \in Chart /\ d.nodes = Kept(c.nodes, gone) /\ Nodes(d) = Nodes(c) \ gone
  <2>1. d = Without(u, gone)
    BY <1>1 DEF DroppedFrom
  <2>2. d \in Chart /\ d.nodes = Kept(u.nodes, gone) /\ Nodes(d) = Nodes(u) \ gone
    BY <1>2, <2>1, WithoutType
  <2>3. Nodes(u) = Nodes(c)
    BY <1>2 DEF Nodes
  <2> QED BY <1>2, <2>2, <2>3
<1>4. gone \intersect Nodes(b.asItWas) = {}
  <2>1. ASSUME NEW i \in (b.count + 1)..Len(c.nodes) PROVE c.nodes[i] \notin Nodes(b.asItWas)
    <3>1. b.count \in Nat /\ i \in DOMAIN c.nodes /\ ~ (i <= b.count)
      BY <1>2 DEF Drops
    <3> QED BY <3>1 DEF Drops
  <2> QED BY <1>1, <1>2, <2>1
<1>5. StartsWith(d.nodes, done)
  <2>1. ToSet(done) \intersect gone = {}
    BY <1>4 DEF Drops
  <2>2. PICK none \in Seq(Node), k \in Seq(Node) : none = <<>> /\ k = d.nodes
    <3>1. d.nodes \in Seq(Node) /\ <<>> \in Seq(Node)
      BY <1>3 DEF Chart
    <3> QED BY <3>1
  <2>3. StartsWith(Kept(c.nodes, gone) \o none, done)
    BY <2>1, StartsWithMore
  <2>4. k \o none = k
    BY <2>2, ConcatEmptySeq
  <2> QED BY <1>3, <2>2, <2>3, <2>4
<1>6. b.count = Len(c.nodes) => d.nodes = c.nodes
  <2>1. ASSUME b.count = Len(c.nodes) PROVE d.nodes = c.nodes
    <3>1. gone = {}
      BY <1>1, <1>2, <2>1
    <3> QED BY <1>2, <1>3, <3>1, KeptAll
  <2> QED BY <2>1
<1> QED BY <1>3, <1>4, <1>5, <1>6
-----------------------------------------------------------------------------
\* The statechart between its steps.

OtherTypes ==
  /\ opened \in 0..MaxModifications /\ firstTick \in BOOLEAN /\ controlled \subseteq Motion

ChartInv ==
  /\ chart \in Chart /\ Nodes(chart) \subseteq joined /\ joined \subseteq Node
  /\ compiled \in Seq(Node) /\ StartsWith(chart.nodes, compiled)
  /\ phase # "torn" => Standing(chart, joined, open, replaced, compiled)
  /\ waiting \subseteq ToSet(compiled) \intersect Chooser
  /\ EveryNodeIsCompiledOrAwaited

LEMMA StandingChart ==
  ASSUME NEW c, NEW known, NEW within, NEW records, NEW done,
         Standing(c, known, within, records, done)
  PROVE  /\ c \in Chart /\ Nodes(c) \subseteq known /\ known \subseteq Node
         /\ done \in Seq(Node) /\ StartsWith(c.nodes, done) /\ ToSet(done) \subseteq Nodes(c)
         /\ Whole(c) /\ Unjoined(c, known) /\ Begins(c, done)
         /\ Sound(c, known, <<>>, <<>>, done)
<1>1. Sound(c, known, <<>>, <<>>, done)
  BY DEF Standing
<1>2. Whole(c) /\ Unjoined(c, known) /\ Begins(c, done) /\ StartsWith(c.nodes, done)
  BY <1>1 DEF Sound, Begins
<1> QED BY <1>1, <1>2, SoundChart

LEMMA InitChart == Init => ChartInv
<1> SUFFICES ASSUME Init PROVE ChartInv
  OBVIOUS
<1>1. PICK none : none = <<>>
  OBVIOUS
<1>2. /\ chart = [nodes |-> none, parent |-> [n \in Node |-> NoNode],
                  children |-> [n \in Node |-> Built(n)], reads |-> [n \in Node |-> {}]]
      /\ joined = {} /\ open = none /\ replaced = none /\ compiled = none /\ waiting = {}
      /\ ~ isCompiled
  BY <1>1 DEF Init, Built
<1>3. none \in Seq(Node) /\ none \in Seq(Record) /\ DOMAIN none = {} /\ ToSet(none) = {}
      /\ IsInjective(none)
  BY <1>1 DEF ToSet, IsInjective
<1>4. \A n \in Node : Built(n) \in Seq(Node) /\ IsInjective(Built(n))
  BY BuiltType
<1>5. chart \in Chart
  <2>1. [n \in Node |-> Built(n)] \in [Node -> Seq(Node)]
    BY <1>4
  <2> QED BY <1>2, <1>3, <2>1 DEF Chart
<1>6. Nodes(chart) = {} /\ IsInjective(chart.nodes) /\ \A n \in Node : chart.parent[n] = NoNode
  BY <1>2, <1>3 DEF Nodes
<1>7. Whole(chart)
  BY <1>5, <1>6 DEF Whole, WholeBut
<1>8. Unjoined(chart, joined)
  BY <1>2, <1>6 DEF Unjoined
<1>9. Recorded(chart, none) /\ Relists(chart, none) /\ Nested(none)
  BY <1>3 DEF Recorded, Relists, Nested
<1>10. Begins(chart, compiled)
  <2>1. StartsWith(none, none)
    BY <1>3, StartsWithAll
  <2> QED BY <1>2, <1>3, <2>1 DEF Begins
<1>11. Sound(chart, joined, none, none, compiled)
  BY <1>2, <1>3, <1>7, <1>8, <1>9, <1>10 DEF Sound
<1>12. Standing(chart, joined, open, replaced, compiled)
  BY <1>1, <1>2, <1>11, NoBlocks
<1> QED BY <1>2, <1>12, StandingChart DEF ChartInv, EveryNodeIsCompiledOrAwaited

\* A block that ends: everything is compiled, or waits for it, or nothing has changed.
LEMMA Exit_Chart ==
  ASSUME NEW hasChanged \in BOOLEAN, Exit(hasChanged),
         chart' \in Chart, Nodes(chart') \subseteq joined', joined' \subseteq Node,
         compiled \in Seq(Node), StartsWith(chart'.nodes, compiled),
         phase' # "torn" => Standing(chart', joined', open', replaced', compiled),
         waiting' \subseteq ToSet(compiled) \intersect Chooser,
         isCompiled /\ ~ hasChanged
           => compiled = chart'.nodes /\ controlled = Nodes(chart') \intersect Motion
  PROVE  ChartInv'
<1>1. CASE Compile /\ open' = <<>>
  <2>1. compiled' = chart'.nodes /\ controlled' = Nodes(chart') \intersect Motion
    BY <1>1 DEF Compile
  <2>2. compiled' \in Seq(Node) /\ StartsWith(chart'.nodes, compiled')
    BY <2>1, StartsWithAll DEF Chart
  <2>3. phase' # "torn" => Standing(chart', joined', open', replaced', compiled')
    <3>1. ASSUME phase' # "torn" PROVE Standing(chart', joined', <<>>, replaced', chart'.nodes)
      <4>1. Standing(chart', joined', <<>>, replaced', compiled)
        BY <1>1, <3>1
      <4> QED BY <4>1, StandingCompiled
    <3> QED BY <1>1, <2>1, <3>1
  <2>4. ToSet(compiled) \subseteq ToSet(compiled')
    BY <2>1, StartsWithMembers
  <2> QED BY <2>1, <2>2, <2>3, <2>4 DEF ChartInv, EveryNodeIsCompiledOrAwaited
<1>2. CASE Wait
  BY <1>2 DEF Wait, ChartInv, EveryNodeIsCompiledOrAwaited
<1>3. CASE changed' = hasChanged /\ UNCHANGED <<isCompiled, compiled, controlled>>
  BY <1>3 DEF ChartInv, EveryNodeIsCompiledOrAwaited
<1> QED BY <1>1, <1>2, <1>3 DEF Exit, CompileAgain

LEMMA ExitStanding ==
  ASSUME NEW hasChanged \in BOOLEAN, Exit(hasChanged),
         Standing(chart', joined', open', replaced', compiled),
         waiting' \subseteq ToSet(compiled) \intersect Chooser,
         isCompiled /\ ~ hasChanged
           => compiled = chart'.nodes /\ controlled = Nodes(chart') \intersect Motion
  PROVE  ChartInv'
BY StandingChart, Exit_Chart

\* The index of a node is below the count exactly of the compiled ones.
LEMMA CoversCompiled ==
  ASSUME ChartInv, NEW n, ~ Covers(n)
  PROVE  n \notin ToSet(compiled)
<1>1. compiled \in Seq(Node) /\ StartsWith(chart.nodes, compiled)
  BY DEF ChartInv
<1>2. chart.nodes \in Seq(Node) /\ Len(compiled) <= Len(chart.nodes)
      /\ \A i \in 1..Len(compiled) : chart.nodes[i] = compiled[i]
  BY <1>1, StartsWithMembers
<1>3. ASSUME NEW i \in DOMAIN compiled, compiled[i] = n PROVE FALSE
  <2>1. i \in 1..Len(compiled) /\ i \in DOMAIN chart.nodes /\ i <= Len(compiled)
    BY <1>1, <1>2
  <2> QED BY <1>2, <1>3, <2>1 DEF Covers
<1> QED BY <1>3 DEF ToSet

\* What leaves was not compiled, and with it leaves what is below it.
Free(gone) ==
  /\ gone \subseteq Nodes(chart)
  /\ \A m \in Node : chart.parent[m] \in gone => m \in gone
  /\ gone \intersect ToSet(compiled) = {}

LEMMA LeavingIsFree ==
  ASSUME ChartInv, phase # "torn", NEW n \in Nodes(chart), ~ Covers(n),
         NEW gone, gone = {n} \union Descendants(chart, n)
  PROVE  Free(gone)
<1>1. Whole(chart) /\ Begins(chart, compiled) /\ ToSet(compiled) \subseteq Nodes(chart)
  BY StandingChart DEF ChartInv
<1>2. \A others \in SUBSET Nodes(chart) :
              /\ n \notin others
              /\ \A m \in others : chart.parent[m] \in others \union {NoNode}
              => gone \intersect others = {}
  BY <1>1, DescendantsOf
<1>3. n \notin ToSet(compiled) => gone \intersect ToSet(compiled) = {}
  BY <1>1, <1>2 DEF Begins
<1>4. gone \subseteq Nodes(chart) /\ \A m \in Node : chart.parent[m] \in gone => m \in gone
  BY <1>1, DescendantsOf
<1> QED BY <1>3, <1>4, CoversCompiled DEF Free

\* A method that changes the chart, in a block or as one of its own.
LEMMA Step_Chart ==
  ASSUME ChartInv, NEW c, NEW gone, NEW new \in SUBSET Node,
         ChartStep(chart, c, joined, gone, new), Free(gone), new \intersect joined = {},
         Changed(c), UNCHANGED replaced
  PROVE  ChartInv'
<1>1. phase # "torn"
  BY DEF Changed, CanModify
<1>2. Standing(c, joined \union Nodes(c), open, replaced, compiled)
  BY <1>1, StandingStep DEF ChartInv, Free
<1>3. /\ chart' = c /\ joined' = joined \union Nodes(c) /\ open' = open /\ waiting' = waiting
      /\ Exit(TRUE)
  BY DEF Changed
<1>4. Standing(chart', joined', open', replaced', compiled)
  BY <1>2, <1>3
<1> QED BY <1>3, <1>4, ExitStanding DEF ChartInv

LEMMA NothingIsFree ==
  ASSUME ChartInv
  PROVE  Free({})
<1>1. \A m \in Node : chart.parent[m] \notin {}
  OBVIOUS
<1> QED BY <1>1 DEF Free

LEMMA FreshIsNew ==
  ASSUME ChartInv, NEW n \in Fresh
  PROVE  IsNew(n, joined) /\ {n} \in SUBSET Node /\ {n} \intersect joined = {}
BY DEF Fresh, IsNew

LEMMA AddNode_Chart ==
  ASSUME ChartInv, NEW n, AddNode(n)
  PROVE  ChartInv'
<1>1. n \in Fresh /\ Changed(Registered(chart, n, NoNode)) /\ UNCHANGED replaced
  BY DEF AddNode
<1>2. Whole(chart) /\ Unjoined(chart, joined)
  BY <1>1, StandingChart DEF ChartInv, Changed, CanModify
<1>3. PICK c : c = Registered(chart, n, NoNode)
  OBVIOUS
<1>4. ChartStep(chart, c, joined, {}, {n})
  BY <1>1, <1>2, <1>3, FreshIsNew, AddStep
<1> QED BY <1>1, <1>3, <1>4, FreshIsNew, NothingIsFree, Step_Chart

LEMMA InsertAtPosition_Chart ==
  ASSUME ChartInv, NEW p, NEW i, NEW n, InsertAtPosition(p, i, n)
  PROVE  ChartInv'
<1>1. /\ n \in Fresh /\ p \in Nodes(chart) /\ i \in 1..(Len(chart.children[p]) + 1)
      /\ Changed(Inserted(chart, p, i, n)) /\ UNCHANGED replaced
  BY DEF InsertAtPosition
<1>2. Whole(chart) /\ Unjoined(chart, joined)
  BY <1>1, StandingChart DEF ChartInv, Changed, CanModify
<1>3. PICK c : c = Inserted(chart, p, i, n)
  OBVIOUS
<1>4. ChartStep(chart, c, joined, {}, {n})
  BY <1>1, <1>2, <1>3, FreshIsNew, InsertStep
<1> QED BY <1>1, <1>3, <1>4, FreshIsNew, NothingIsFree, Step_Chart

LEMMA Replace_Chart ==
  ASSUME ChartInv, NEW n, NEW r, Replace(n, r)
  PROVE  ChartInv'
<1>1. PICK gone : gone = {n} \union Descendants(chart, n)
  OBVIOUS
<1>2. /\ n \in Nodes(chart) /\ ~ Covers(n) /\ r \in Fresh
      /\ Changed(SubstitutedBy(chart, n, r)) /\ UNCHANGED replaced
  BY DEF Replace, CanBeReplaced
<1>3. phase # "torn"
  BY <1>2 DEF Changed, CanModify
<1>4. Whole(chart) /\ Unjoined(chart, joined)
  BY <1>3, StandingChart DEF ChartInv
<1>5. PICK c : c = SubstitutedBy(chart, n, r)
  OBVIOUS
<1>6. ChartStep(chart, c, joined, gone, {r})
  BY <1>1, <1>2, <1>4, <1>5, FreshIsNew, SubstituteStep
<1>7. Free(gone)
  BY <1>1, <1>2, <1>3, LeavingIsFree
<1> QED BY <1>2, <1>5, <1>6, <1>7, FreshIsNew, Step_Chart

LEMMA ReplaceByHolder_Chart ==
  ASSUME ChartInv, NEW n, NEW r, ReplaceByHolder(n, r)
  PROVE  ChartInv'
<1>1. PICK c, record : c = WrappedIn(chart, n, r) /\ record = ReplacedNode(chart, n, r)
  OBVIOUS
<1>2. /\ n \in Nodes(chart) /\ ~ Covers(n) /\ r \in Holder \ joined
      /\ replaced' = IF open = <<>> THEN <<>> ELSE Append(replaced, record)
      /\ Changed(c)
  BY <1>1 DEF ReplaceByHolder, CanBeReplaced
<1>3. Standing(chart, joined, open, replaced, compiled)
  BY <1>2 DEF ChartInv, Changed, CanModify
<1>4. Whole(chart) /\ Unjoined(chart, joined)
  BY <1>3, StandingChart
<1>5. Wraps(chart, c, record, joined, n, r)
  BY <1>1, <1>2, <1>4, WrapStep
<1>6. Standing(c, joined \union Nodes(c), open, Append(replaced, record), compiled)
  BY <1>2, <1>3, <1>5, CoversCompiled, StandingWrap
<1>7. /\ chart' = c /\ joined' = joined \union Nodes(c) /\ open' = open /\ waiting' = waiting
      /\ Exit(TRUE)
  BY <1>2 DEF Changed
<1>8. Standing(chart', joined', open', replaced', compiled)
  <2>1. CASE open = <<>>
    <3>1. Standing(c, joined \union Nodes(c), <<>>, <<>>, compiled)
      BY <1>6, StandingChart, NoBlocks
    <3> QED BY <1>2, <1>7, <2>1, <3>1
  <2>2. CASE open # <<>>
    BY <1>2, <1>6, <1>7, <2>2
  <2> QED BY <2>1, <2>2
<1> QED BY <1>7, <1>8, ExitStanding DEF ChartInv

LEMMA RemoveNode_Chart ==
  ASSUME ChartInv, NEW n, RemoveNode(n)
  PROVE  ChartInv'
<1>1. PICK gone : gone = {n} \union Descendants(chart, n)
  OBVIOUS
<1>2. /\ n \in Nodes(chart) /\ ~ Covers(n) /\ chart' = Without(chart, gone) /\ CanModify
      /\ UNCHANGED <<joined, blocks, compiler, control, waiting>>
  BY <1>1 DEF RemoveNode
<1>3. Standing(chart, joined, open, replaced, compiled) /\ phase # "torn"
  BY <1>2 DEF ChartInv, CanModify
<1>4. Whole(chart) /\ Unjoined(chart, joined)
  BY <1>3, StandingChart
<1>5. PICK c : c = Without(chart, gone)
  OBVIOUS
<1>6. Free(gone)
  BY <1>1, <1>2, <1>3, LeavingIsFree
<1>7. ChartStep(chart, c, joined, gone, {}) /\ Nodes(c) \subseteq joined
  BY <1>4, <1>5, <1>6, RemoveStep DEF Free
<1>8. Standing(c, joined \union Nodes(c), open, replaced, compiled)
  <2>1. {} \in SUBSET Node /\ {} \intersect joined = {}
    OBVIOUS
  <2> QED BY <1>3, <1>6, <1>7, <2>1, StandingStep DEF Free
<1>9. joined \union Nodes(c) = joined
  BY <1>7
<1>10. /\ open' = open /\ replaced' = replaced /\ compiled' = compiled /\ joined' = joined
       /\ waiting' = waiting /\ isCompiled' = isCompiled /\ changed' = changed
  BY <1>2 DEF blocks, compiler
<1>11. Standing(chart', joined', open', replaced', compiled')
  BY <1>2, <1>5, <1>8, <1>9, <1>10
<1>12. ~ (isCompiled /\ ~ changed)
  <2>1. n \notin ToSet(compiled)
    BY <1>2, CoversCompiled
  <2> QED BY <1>2, <2>1 DEF ChartInv, EveryNodeIsCompiledOrAwaited, Nodes
<1> QED BY <1>10, <1>11, <1>12, StandingChart DEF ChartInv, EveryNodeIsCompiledOrAwaited

LEMMA CloseBlock_Chart ==
  ASSUME ControlInv, ChartInv, CloseBlock
  PROVE  ChartInv'
<1>1. /\ open' = Front(open) /\ replaced' = (IF open' = <<>> THEN <<>> ELSE replaced)
      /\ chart' = chart /\ joined' = joined /\ waiting' = waiting /\ Exit(changed)
      /\ Len(open) > (IF phase = "choosing" THEN 1 ELSE 0) /\ CanModify
  BY DEF CloseBlock, InCallersBlock
<1>2. open # <<>>
  BY <1>1
<1>3. Standing(chart, joined, open', replaced, compiled)
  BY <1>1, <1>2, StandingFewer DEF ChartInv, CanModify
<1>4. Standing(chart', joined', open', replaced', compiled)
  <2>1. CASE open' = <<>>
    <3>1. Standing(chart, joined, <<>>, <<>>, compiled)
      BY <1>3, StandingChart, NoBlocks
    <3> QED BY <1>1, <2>1, <3>1
  <2>2. CASE open' # <<>>
    BY <1>1, <1>3, <2>2
  <2> QED BY <2>1, <2>2
<1>5. changed \in BOOLEAN
  BY DEF ControlInv, ControlTypes
<1> QED BY <1>1, <1>4, <1>5, ExitStanding DEF ChartInv, EveryNodeIsCompiledOrAwaited

LEMMA FinishChoosing_Chart ==
  ASSUME ControlInv, ChartInv, FinishChoosing
  PROVE  ChartInv'
<1>1. /\ open' = <<>> /\ replaced' = <<>> /\ chart' = chart /\ joined' = joined
      /\ waiting' = waiting /\ Exit(changed) /\ phase = "choosing"
  BY DEF FinishChoosing
<1>2. Standing(chart, joined, <<>>, <<>>, compiled)
  BY <1>1, StandingChart, NoBlocks DEF ChartInv
<1>3. Standing(chart', joined', open', replaced', compiled)
  BY <1>1, <1>2
<1>4. changed \in BOOLEAN
  BY DEF ControlInv, ControlTypes
<1> QED BY <1>1, <1>3, <1>4, ExitStanding DEF ChartInv, EveryNodeIsCompiledOrAwaited

\* A block that finds its nodes gives back the chart it found.
LEMMA AbandonGivesBack ==
  ASSUME ChartInv, CanModify, open # <<>>, FindsItsNodes(Last(open)),
         NEW u, u = PutBackFrom(Last(open).replaced, replaced, chart),
         NEW d, d = DroppedFrom(u, Last(open).count)
  PROVE  /\ \E gone, known : GivesBack(Last(open).asItWas, chart, u, d, known, gone)
         /\ Standing(d, joined, Front(open), SubSeq(replaced, 1, Last(open).replaced), compiled)
         /\ Stuck(Last(open)) = {}
<1>1. PICK b : b = Last(open)
  OBVIOUS
<1>2. Standing(chart, joined, open, replaced, compiled)
  BY DEF ChartInv, CanModify
<1>3. RecordsFound(chart, replaced) /\ Nodes(b.asItWas) \subseteq Nodes(chart)
  BY <1>1 DEF FindsItsNodes, RecordsFound
<1>4. /\ Standing(d, joined, Front(open), SubSeq(replaced, 1, b.replaced), compiled)
      /\ GivesBack(b.asItWas, chart, u, d, joined, Nodes(chart) \ Nodes(b.asItWas))
      /\ Relists(chart, replaced) /\ b.replaced \in 0..Len(replaced)
  BY <1>1, <1>2, <1>3, StandingAbandon
<1>5. \A i \in (b.replaced + 1)..Len(replaced) : i \in DOMAIN replaced
  <2>1. replaced \in Seq(Record)
    BY <1>2 DEF Standing
  <2> QED BY <1>4, <2>1
<1>6. Stuck(b) = {}
  BY <1>4, <1>5 DEF Stuck, Relists
<1> QED BY <1>1, <1>4, <1>6

\* Any block drops only what it did not find, and nothing if it changed no number of nodes.
LEMMA AbandonDrops ==
  ASSUME ChartInv, CanModify, open # <<>>,
         NEW u, u = PutBackFrom(Last(open).replaced, replaced, chart),
         NEW d, d = DroppedFrom(u, Last(open).count)
  PROVE  /\ d \in Chart /\ StartsWith(d.nodes, compiled) /\ Nodes(d) \subseteq Nodes(chart)
         /\ Nodes(Last(open).asItWas) \intersect Nodes(chart) \subseteq Nodes(d)
         /\ Last(open).count = Len(chart.nodes) => d.nodes = chart.nodes
<1>1. PICK b : b = Last(open)
  OBVIOUS
<1>2. Standing(chart, joined, open, replaced, compiled)
  BY DEF ChartInv, CanModify
<1>3. Drops(b, chart, joined, replaced, compiled)
  <2>1. PICK S : open \in Seq(S)
    BY <1>2 DEF Standing
  <2>2. PICK l : l \in DOMAIN open /\ Last(open) = open[l]
    BY <2>1, FrontMembers
  <2> QED BY <1>1, <1>2, <2>2 DEF Standing
<1>4. replaced \in Seq(Record)
  BY <1>2 DEF Standing
<1>5. chart \in Chart /\ compiled \in Seq(Node) /\ StartsWith(chart.nodes, compiled)
  BY DEF ChartInv
<1>6. PICK c \in Chart, records \in Seq(Record), done \in Seq(Node), known \in SUBSET Node :
         c = chart /\ records = replaced /\ done = compiled /\ known = joined
  BY <1>4, <1>5 DEF ChartInv
<1>7. /\ StartsWith(c.nodes, done) /\ Drops(b, c, known, records, done)
      /\ u = PutBackFrom(b.replaced, records, c) /\ d = DroppedFrom(u, b.count)
  BY <1>1, <1>3, <1>5, <1>6
<1>8. /\ d \in Chart /\ StartsWith(d.nodes, done) /\ Nodes(d) \subseteq Nodes(c)
      /\ Nodes(b.asItWas) \intersect Nodes(c) \subseteq Nodes(d)
      /\ b.count = Len(c.nodes) => d.nodes = c.nodes
  BY <1>7, DroppedNodes
<1> QED BY <1>1, <1>6, <1>8

LEMMA AbandonBlock_Chart ==
  ASSUME ControlInv, ChartInv, AbandonBlock
  PROVE  ChartInv'
<1> DEFINE hasChanged == changed \/ Last(open).count # Len(chart.nodes)
<1>1. PICK u, d : u = PutBackFrom(Last(open).replaced, replaced, chart)
                  /\ d = DroppedFrom(u, Last(open).count)
  OBVIOUS
<1>2. /\ Exit(hasChanged) /\ waiting' = waiting /\ joined' = joined /\ chart' = d
      /\ CanModify /\ open # <<>> /\ open' = Front(open)
      /\ replaced' = SubSeq(replaced, 1, Last(open).replaced)
      /\ phase' # "torn" => FindsItsNodes(Last(open))
  BY <1>1 DEF AbandonBlock
<1>3. hasChanged \in BOOLEAN
  BY DEF ControlInv, ControlTypes
<1>4. /\ d \in Chart /\ StartsWith(d.nodes, compiled) /\ Nodes(d) \subseteq Nodes(chart)
      /\ Last(open).count = Len(chart.nodes) => d.nodes = chart.nodes
  BY <1>1, <1>2, AbandonDrops
<1>5. chart' \in Chart /\ Nodes(chart') \subseteq joined' /\ joined' \subseteq Node
      /\ compiled \in Seq(Node) /\ StartsWith(chart'.nodes, compiled)
  BY <1>2, <1>4 DEF ChartInv
<1>6. phase' # "torn" => Standing(chart', joined', open', replaced', compiled)
  BY <1>1, <1>2, AbandonGivesBack
<1>7. isCompiled /\ ~ hasChanged
        => compiled = chart'.nodes /\ controlled = Nodes(chart') \intersect Motion
  <2>1. ~ hasChanged => changed = FALSE /\ chart'.nodes = chart.nodes
    BY <1>2, <1>4 DEF ControlInv, ControlTypes
  <2> QED BY <2>1 DEF ChartInv, EveryNodeIsCompiledOrAwaited, Nodes
<1>8. waiting' \subseteq ToSet(compiled) \intersect Chooser
  BY <1>2 DEF ChartInv
<1> HIDE DEF hasChanged
<1> QED BY <1>2, <1>3, <1>5, <1>6, <1>7, <1>8, Exit_Chart

\* Replaced nodes that were put back before another one could not be.
LEMMA StuckChart ==
  ASSUME ChartInv, FailToPutBack
  PROVE  chart' \in Chart /\ chart'.nodes = chart.nodes
<1>1. PICK i \in Stuck(Last(open)) : chart' = PutBackFrom(i - 1, replaced, chart)
  BY DEF FailToPutBack
<1>2. /\ replaced \in Seq(Record) /\ chart \in Chart
      /\ \A j \in DOMAIN open : open[j].replaced \in Nat
  BY DEF FailToPutBack, CanModify, ChartInv, Standing, Drops
<1>3. PICK S : open \in Seq(S) /\ open # <<>>
  BY DEF FailToPutBack, CanModify, ChartInv, Standing
<1>4. Last(open).replaced \in Nat
  BY <1>2, <1>3, FrontMembers
<1>5. i \in (Last(open).replaced + 1)..Len(replaced)
  BY <1>1 DEF Stuck
<1>6. i - 1 \in 0..Len(replaced)
  BY <1>2, <1>4, <1>5
<1> QED BY <1>1, <1>2, <1>6, PutBackFromType

LEMMA FailToPutBack_Chart ==
  ASSUME ChartInv, FailToPutBack
  PROVE  ChartInv'
<1>1. /\ UNCHANGED <<joined, isCompiled, compiled, changed, controlled, waiting>>
      /\ phase' = "torn"
  BY DEF FailToPutBack, control
<1>2. chart' \in Chart /\ chart'.nodes = chart.nodes
  BY StuckChart
<1> QED BY <1>1, <1>2 DEF ChartInv, EveryNodeIsCompiledOrAwaited, Nodes

LEMMA ChooseChild_Chart ==
  ASSUME ChartInv, NEW n, NEW child, ChooseChild(n, child)
  PROVE  ChartInv'
<1>1. PICK adopted, reads :
         /\ reads = chart.reads[n] \union {child}
         /\ adopted = [chart EXCEPT !.children[n] = Append(@, child), !.reads[n] = reads]
  OBVIOUS
<1>2. /\ n \in waiting /\ child \in Fresh /\ chart' = Registered(adopted, child, n)
      /\ joined' = joined \union Nodes(chart') /\ changed' = TRUE /\ waiting' = waiting \ {n}
      /\ UNCHANGED <<blocks, isCompiled, compiled>> /\ phase = "choosing"
  BY <1>1 DEF ChooseChild
<1>3. Standing(chart, joined, open, replaced, compiled)
  BY <1>2 DEF ChartInv
<1>4. Whole(chart) /\ Unjoined(chart, joined)
  BY <1>3, StandingChart
<1>5. chart \in Chart /\ n \in Nodes(chart) /\ n \in Node /\ child \in Node
  <2>1. chart \in Chart /\ ToSet(compiled) \subseteq Nodes(chart) /\ Nodes(chart) \subseteq Node
    BY <1>3, StandingChart
  <2> QED BY <1>2, <2>1 DEF ChartInv, Fresh
<1>6. reads \in SUBSET Node
  <2>1. chart.reads[n] \in SUBSET Node
    BY <1>5 DEF Chart
  <2> QED BY <1>1, <1>5, <2>1
<1>7. PICK c : c = Registered(adopted, child, n)
  OBVIOUS
<1>8. ChartStep(chart, c, joined, {}, {child})
  BY <1>1, <1>2, <1>4, <1>5, <1>6, <1>7, FreshIsNew, ChooseStep
<1>9. Standing(c, joined \union Nodes(c), open, replaced, compiled)
  BY <1>2, <1>3, <1>8, FreshIsNew, NothingIsFree, StandingStep DEF Free
<1>10. Standing(chart', joined', open', replaced', compiled')
  BY <1>2, <1>7, <1>9 DEF blocks
<1> QED BY <1>2, <1>10, StandingChart DEF ChartInv, EveryNodeIsCompiledOrAwaited

LEMMA OpenBlock_Chart ==
  ASSUME ControlInv, ChartInv, Modify \/ LetWaitingNodesChoose
  PROVE  ChartInv'
<1>1. /\ UNCHANGED <<chart, joined, replaced, isCompiled, compiled, changed, controlled, waiting>>
      /\ phase # "torn"
  BY DEF Modify, LetWaitingNodesChoose, compiler, control, CanModify
<1>2. open' \in {open, Append(open, Block)}
  <2>1. CASE Modify
    BY <2>1 DEF Modify
  <2>2. CASE LetWaitingNodesChoose
    <3>1. open = <<>> /\ open' \in {open, <<Block>>}
      BY <2>2 DEF LetWaitingNodesChoose, ControlInv, OpenBlocks
    <3>2. Append(<<>>, Block) = <<Block>>
      OBVIOUS
    <3> QED BY <3>1, <3>2
  <2> QED BY <2>1, <2>2
<1>3. PICK b : b = Block
  OBVIOUS
<1>4. b = [count |-> Len(chart.nodes), replaced |-> Len(replaced), asItWas |-> chart]
  BY <1>3 DEF Block
<1>5. Standing(chart, joined, open', replaced, compiled)
  <2>1. Standing(chart, joined, open, replaced, compiled)
    BY <1>1 DEF ChartInv
  <2>2. Standing(chart, joined, Append(open, b), replaced, compiled)
    BY <1>4, <2>1, StandingOpen
  <2> QED BY <1>2, <1>3, <2>1, <2>2
<1> QED BY <1>1, <1>5, StandingChart DEF ChartInv, EveryNodeIsCompiledOrAwaited

LEMMA Compile_Chart ==
  ASSUME ChartInv, ExecutorCompile \/ BeginTick
  PROVE  ChartInv'
<1>1. /\ chart' = chart /\ open = <<>> /\ UNCHANGED <<joined, blocks, waiting>>
      /\ Compile \/ UNCHANGED <<isCompiled, compiled, changed, controlled>>
      /\ phase # "torn"
  BY DEF ExecutorCompile, BeginTick
<1>2. UNCHANGED <<open, replaced>>
  BY <1>1 DEF blocks
<1>3. Standing(chart, joined, open, replaced, compiled)
  BY <1>1 DEF ChartInv
<1>4. CASE UNCHANGED <<isCompiled, compiled, changed, controlled>>
  BY <1>1, <1>2, <1>3, <1>4, StandingChart DEF ChartInv, EveryNodeIsCompiledOrAwaited
<1>5. CASE Compile
  <2>1. compiled' = chart.nodes /\ controlled' = Nodes(chart) \intersect Motion
    BY <1>1, <1>5 DEF Compile
  <2>2. Standing(chart, joined, <<>>, replaced, compiled)
    BY <1>1, <1>3
  <2>3. Standing(chart, joined, <<>>, replaced, chart.nodes)
    BY <2>2, StandingCompiled
  <2>4. Standing(chart', joined', open', replaced', compiled')
    BY <1>1, <1>2, <2>1, <2>3
  <2>5. ToSet(compiled) \subseteq ToSet(compiled')
    <3>1. ToSet(compiled) \subseteq Nodes(chart)
      BY <2>2, StandingChart
    <3> QED BY <2>1, <3>1 DEF Nodes
  <2> QED BY <1>1, <2>1, <2>4, <2>5, StandingChart DEF ChartInv, EveryNodeIsCompiledOrAwaited
<1> QED BY <1>1, <1>4, <1>5

LEMMA Others_Chart ==
  ASSUME ChartInv,
         \/ WorldChanges \/ Settle \/ EndTick \/ UNCHANGED vars
         \/ \E n \in Node : GiveUp(n)
  PROVE  ChartInv'
<1>1. /\ UNCHANGED <<chart, joined, open, replaced, isCompiled, compiled, controlled>>
      /\ changed' \in {changed, TRUE}
      /\ phase' # "torn" => phase # "torn"
  BY DEF WorldChanges, Settle, EndTick, vars, GiveUp, blocks, compiler, control
<1>2. waiting' \subseteq waiting \union (ToSet(compiled) \intersect Chooser)
  BY DEF WorldChanges, Settle, EndTick, vars, GiveUp
<1>3. phase' # "torn" => Standing(chart', joined', open', replaced', compiled')
  BY <1>1 DEF ChartInv
<1>4. /\ chart' \in Chart /\ Nodes(chart') \subseteq joined' /\ joined' \subseteq Node
      /\ compiled' \in Seq(Node) /\ StartsWith(chart'.nodes, compiled')
  BY <1>1 DEF ChartInv
<1>5. waiting' \subseteq ToSet(compiled') \intersect Chooser
  BY <1>1, <1>2 DEF ChartInv
<1>6. EveryNodeIsCompiledOrAwaited'
  <2>1. CASE changed' = TRUE
    BY <2>1 DEF EveryNodeIsCompiledOrAwaited
  <2>2. CASE changed' = changed
    BY <1>1, <2>2 DEF ChartInv, EveryNodeIsCompiledOrAwaited
  <2> QED BY <1>1, <2>1, <2>2
<1> QED BY <1>3, <1>4, <1>5, <1>6 DEF ChartInv

LEMMA NextChart == ControlInv /\ ChartInv /\ [Next]_vars => ChartInv'
<1> SUFFICES ASSUME ControlInv, ChartInv, [Next]_vars PROVE ChartInv'
  OBVIOUS
<1>1. CASE Change
  <2>1. ASSUME NEW n \in Node, AddNode(n) \/ RemoveNode(n) PROVE ChartInv'
    BY <2>1, AddNode_Chart, RemoveNode_Chart
  <2>2. ASSUME NEW p \in Node, NEW n \in Node, NEW i, InsertAtPosition(p, i, n) PROVE ChartInv'
    BY <2>2, InsertAtPosition_Chart
  <2>3. ASSUME NEW n \in Node, NEW r \in Node, ReplaceByHolder(n, r) \/ Replace(n, r)
        PROVE  ChartInv'
    BY <2>3, ReplaceByHolder_Chart, Replace_Chart
  <2> QED BY <1>1, <2>1, <2>2, <2>3, OpenBlock_Chart, CloseBlock_Chart, AbandonBlock_Chart,
             FailToPutBack_Chart, Others_Chart DEF Change
<1>2. CASE Tick
  <2>1. ASSUME NEW n \in Node, NEW child \in Node, ChooseChild(n, child) PROVE ChartInv'
    BY <2>1, ChooseChild_Chart
  <2> QED BY <1>2, <2>1, OpenBlock_Chart, Compile_Chart, FinishChoosing_Chart, Others_Chart
          DEF Tick
<1>3. CASE UNCHANGED vars
  BY <1>3, Others_Chart
<1> QED BY <1>1, <1>2, <1>3 DEF Next

LEMMA ChartHolds == Spec => []ChartInv
<1>1. ControlInv /\ ChartInv /\ [Next]_vars => ChartInv'
  BY NextChart
<1> QED BY InitChart, <1>1, ControlHolds, PTL DEF Spec

LEMMA OtherTypesHold == Spec => []OtherTypes
<1>1. ASSUME Init PROVE OtherTypes
  <2>1. opened = 0 /\ firstTick = FALSE /\ controlled = {}
    BY <1>1 DEF Init
  <2>2. opened \in 0..MaxModifications
    BY <2>1, BoundAssumption
  <2>3. firstTick \in BOOLEAN
    BY <2>1
  <2> QED BY <2>1, <2>2, <2>3 DEF OtherTypes
<1>2. ASSUME OtherTypes, [Next]_vars PROVE OtherTypes'
  <2>1. opened' \in 0..MaxModifications
    <3>1. opened' = opened \/ Modify
      BY <1>2, ChangedOrOther
         DEF Changed, CloseBlock, AbandonBlock, FailToPutBack, FinishChoosing, WorldChanges, ExecutorCompile,
             BeginTick, Settle, LetWaitingNodesChoose, EndTick, vars, RemoveNode, GiveUp,
             ChooseChild, blocks
    <3>2. Modify => opened < MaxModifications /\ opened' = opened + 1
      BY DEF Modify
    <3> QED BY <1>2, <3>1, <3>2, BoundAssumption DEF OtherTypes
  <2>2. firstTick' \in BOOLEAN
    <3>1. firstTick' = firstTick \/ firstTick' \in BOOLEAN
      BY <1>2, ChangedOrOther
         DEF Changed, CloseBlock, AbandonBlock, FailToPutBack, FinishChoosing, WorldChanges, ExecutorCompile,
             BeginTick, Settle, LetWaitingNodesChoose, EndTick, vars, RemoveNode, GiveUp,
             ChooseChild, Modify
    <3> QED BY <1>2, <3>1 DEF OtherTypes
  <2>3. controlled' \subseteq Motion
    <3>1. \A hasChanged : Exit(hasChanged) =>
            controlled' = controlled \/ controlled' = Nodes(chart') \intersect Motion
      BY DEF Exit, CompileAgain, Compile, Wait
    <3>2. controlled' = controlled \/ controlled' = Nodes(chart') \intersect Motion
      BY <1>2, <3>1, ChangedOrOther
         DEF Changed, CloseBlock, AbandonBlock, FailToPutBack, FinishChoosing, WorldChanges, ExecutorCompile,
             Compile, BeginTick, Settle, LetWaitingNodesChoose, EndTick, vars, RemoveNode, GiveUp,
             ChooseChild, Modify, control
    <3> QED BY <1>2, <3>2 DEF OtherTypes
  <2> QED BY <2>1, <2>2, <2>3 DEF OtherTypes
<1> QED BY <1>1, <1>2, PTL DEF Spec

\* Whatever blocks add, insert, replace, remove and drop, and however they are nested and
\* abandoned: parents and children agree, compiled nodes keep the index by which
\* latest_compile_covers and the state arrays find them, and a statechart that does not
\* count as changed runs on what was compiled.  Only a block that is abandoned and misses
\* nodes may end with parents and children that do not agree.
THEOREM ChartStaysWhole == Spec => []StatechartStaysWhole
<1>1. ASSUME ControlInv, ChartInv, OtherTypes PROVE StatechartStaysWhole
  <2>1. /\ chart \in Chart /\ Nodes(chart) \subseteq joined /\ joined \subseteq Node
        /\ compiled \in Seq(Node) /\ NoNode \notin Node /\ Nodes(chart) \subseteq Node
    BY <1>1, NodeAssumption DEF ChartInv
  <2>2. TypeOK
    BY <1>1, <2>1 DEF TypeOK, Chart, ControlInv, ControlTypes, Phases, OtherTypes, ChartInv
  <2>3. phase # "torn" => Whole(chart)
    BY <1>1, StandingChart DEF ChartInv
  <2>4. ASSUME phase # "torn", NEW n \in Nodes(chart), NEW p \in Node, Parent(chart, n) = p
        PROVE  p \in Nodes(chart)
               /\ \E i \in DOMAIN chart.children[p] : chart.children[p][i] = n
    <3>1. chart.parent[n] = p /\ p # NoNode /\ n \in Node
      BY <2>1, <2>4 DEF Parent
    <3>2. p \in Nodes(chart) /\ n \in ToSet(chart.children[p])
      BY <2>3, <2>4, <3>1 DEF Whole, WholeBut
    <3> QED BY <3>2 DEF ToSet
  <2>5. ASSUME phase # "torn", NEW n \in Nodes(chart), NEW i \in DOMAIN chart.children[n],
               NEW j \in DOMAIN chart.children[n]
        PROVE  /\ Parent(chart, chart.children[n][i]) = n
               /\ chart.children[n][i] = chart.children[n][j] => i = j
    <3>1. chart.children[n][i] \in ToSet(chart.children[n])
      BY DEF ToSet
    <3>2. IsInjective(chart.children[n]) /\ chart.parent[chart.children[n][i]] = n
      BY <2>3, <2>5, <3>1 DEF Whole, WholeBut
    <3> QED BY <3>2 DEF IsInjective, Parent
  <2>6. phase # "torn" => ParentsListTheirChildren
    BY <2>4, <2>5 DEF ParentsListTheirChildren
  <2>7. CompiledNodesKeepTheirPlace
    <3>1. StartsWith(chart.nodes, compiled)
      BY <1>1 DEF ChartInv
    <3>2. PICK l \in Seq(Node), s \in Seq(Node) : l = chart.nodes /\ s = compiled
      BY <2>1 DEF Chart
    <3>3. Len(s) <= Len(l) /\ \A i \in 1..Len(s) : l[i] = s[i]
      BY <3>1, <3>2, StartsWithMembers
    <3>4. SubSeq(s, 1, Len(s)) = SubSeq(l, 1, Len(s))
      <4>1. PICK a, b : a = SubSeq(s, 1, Len(s)) /\ b = SubSeq(l, 1, Len(s))
        OBVIOUS
      <4>2. /\ a \in Seq(Node) /\ b \in Seq(Node) /\ Len(a) = Len(s) /\ Len(b) = Len(s)
            /\ \A i \in 1..Len(s) : a[i] = s[i] /\ b[i] = l[i]
        BY <3>3, <4>1
      <4>3. a = b
        BY <3>3, <4>2, SeqEqual
      <4> QED BY <4>1, <4>3
    <3> QED BY <3>2, <3>3, <3>4 DEF CompiledNodesKeepTheirPlace, IsPrefix
  <2> QED BY <1>1, <2>2, <2>6, <2>7 DEF StatechartStaysWhole, ChartInv
<1> QED BY <1>1, ControlHolds, ChartHolds, OtherTypesHold, PTL

\* Whatever happened inside a block that raises, blocks in it included: no node it found
\* is dropped.  If those nodes and the ones of every replacement are there, the block puts
\* back what was replaced without raising again, and the nodes it found are the nodes
\* there are, in their places, below their parents, and with the children they had
\* (__exit__, _put_back_replaced_nodes_from, _drop_nodes_from).
THEOREM AbandonedBlocksGiveBack == Spec => AbandonedBlockDropsWhatItAdded
<1> DEFINE GivenBack ==
      AbandonBlock \/ FailToPutBack =>
       LET before == Last(open).asItWas
       IN /\ Nodes(before) \intersect Nodes(chart) \subseteq Nodes(chart')
          /\ FindsItsNodes(Last(open)) =>
               /\ AbandonBlock
               /\ chart'.nodes = before.nodes
               /\ \A n \in Nodes(before) :
                    /\ Parent(chart', n) = Parent(before, n)
                    /\ chart'.children[n] = before.children[n]
<1>1. ASSUME ChartInv PROVE GivenBack
  <2>1. PICK before, u, d : /\ before = Last(open).asItWas
                            /\ u = PutBackFrom(Last(open).replaced, replaced, chart)
                            /\ d = DroppedFrom(u, Last(open).count)
    OBVIOUS
  <2>2. ASSUME AbandonBlock \/ FailToPutBack, FindsItsNodes(Last(open))
        PROVE  /\ AbandonBlock
               /\ d.nodes = before.nodes /\ d.parent = before.parent
               /\ \A n \in Nodes(before) : d.children[n] = before.children[n]
    <3>1. CanModify /\ open # <<>>
      BY <2>2 DEF AbandonBlock, FailToPutBack
    <3>2. (\E gone, known : GivesBack(before, chart, u, d, known, gone)) /\ Stuck(Last(open)) = {}
      BY <1>1, <2>1, <2>2, <3>1, AbandonGivesBack
    <3>3. AbandonBlock
      BY <2>2, <3>2 DEF FailToPutBack
    <3> QED BY <3>2, <3>3 DEF GivesBack
  <2>3. ASSUME AbandonBlock
        PROVE  chart' = d /\ Nodes(before) \intersect Nodes(chart) \subseteq Nodes(chart')
    <3>1. CanModify /\ open # <<>> /\ chart' = d
      BY <2>1, <2>3 DEF AbandonBlock
    <3> QED BY <1>1, <2>1, <3>1, AbandonDrops
  <2>4. ASSUME FailToPutBack
        PROVE  Nodes(before) \intersect Nodes(chart) \subseteq Nodes(chart')
    BY <1>1, <2>4, StuckChart DEF Nodes
  <2> QED BY <2>1, <2>2, <2>3, <2>4 DEF Parent
<1>2. ChartInv => [GivenBack]_vars
  BY <1>1
<1> QED BY <1>2, ChartHolds, PTL DEF AbandonedBlockDropsWhatItAdded
=============================================================================
