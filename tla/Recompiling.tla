---------------------------- MODULE Recompiling ----------------------------
(***************************************************************************)
(* Changing a statechart that may be running (modify, add_node, replace,   *)
(* remove_node of cramph/statechart.py), compiling it again                *)
(* (cramph/compiler.py) and the motion control that brings the robot to    *)
(* rest before that (giskardpy/motion_control.py).                         *)
(*                                                                         *)
(* A node is a name.  Of its conditions there is which nodes they read,    *)
(* wired the way a Sequence does; which nodes run is any choice per tick.  *)
(* Everything happens on the thread that ticks: between two ticks, while   *)
(* nodes choose their child, and in the callbacks of a tick.               *)
(***************************************************************************)
EXTENDS Integers, Sequences, FiniteSets, SequencesExt

CONSTANTS
  Node,             \* every node that may join
  Motion,           \* the nodes that add constraints to the controller
  Chooser,          \* the composite nodes choosing their child
  Composite,        \* the other composite nodes
  Handed,           \* [Composite -> Seq(Node)]: the children each was built with
  NoNode,           \* no node
  MaxLeft,          \* bound: how many nodes may be gone once one is removed or replaced
  MaxModifications  \* bound: how many blocks callers open

ASSUME NodeAssumption ==
  /\ IsFiniteSet(Node) /\ NoNode \notin Node
  /\ Motion \subseteq Node /\ Chooser \subseteq Node /\ Composite \subseteq Node
  /\ Motion \intersect (Chooser \union Composite) = {}
  /\ Chooser \intersect Composite = {}
\* A bound on the charts: a node is handed at most once, and holds no nodes itself.
ASSUME HandedAssumption ==
  /\ DOMAIN Handed = Composite
  /\ \A p \in Composite :
       /\ Handed[p] \in Seq(Motion) /\ IsInjective(Handed[p])
       /\ \A q \in Composite :
            p # q => ToSet(Handed[p]) \intersect ToSet(Handed[q]) = {}
ASSUME BoundAssumption == MaxModifications \in Nat /\ MaxLeft \in Nat

VARIABLES
  chart,            \* the nodes, their parents and children, and what they read
  joined,           \* every node that joined so far; each does once
  open,             \* the open blocks, the innermost last
  opened,           \* how many blocks callers opened
  replaced,         \* _replaced_nodes
  isCompiled,       \* is_compiled
  compiled,         \* the nodes the latest compile covered
  controlled,       \* the nodes the controller was built from
  changed,          \* changed_since_compile
  structureChanged, \* _world_structure_changed()
  heldStill,        \* _held_still
  holdingStill,     \* _holding_still of the motion control
  moving,           \* whether a controlled degree of freedom is not at rest
  waiting,          \* the nodes waiting for a child in this tick
  phase,            \* what the ticking thread is doing
  firstTick         \* whether the tick is the one compile makes

compiler == <<isCompiled, compiled, changed, structureChanged, heldStill>>
control == <<controlled, holdingStill, moving>>
blocks == <<open, opened, replaced>>
vars == <<chart, joined, blocks, compiler, control, waiting, phase, firstTick>>
-----------------------------------------------------------------------------
\* The chart, and what changes it.

Nodes(c) == ToSet(c.nodes)
Parent(c, n) == c.parent[n]

\* The children of a node, theirs, and so on: the least set with all of them.
Descendants(c, n) ==
  {d \in Nodes(c) : \A below \in SUBSET Nodes(c) :
     (\A m \in Nodes(c) : Parent(c, m) \in below \union {n} => m \in below) => d \in below}

\* A list without some of its members.
Kept(list, gone) ==
  LET kept[i \in 0..Len(list)] ==
        IF i = 0 THEN <<>>
        ELSE IF list[i] \in gone THEN kept[i - 1] ELSE Append(kept[i - 1], list[i])
  IN kept[Len(list)]

\* _wire_children of a Sequence: each child starts once the one before it ended.
Wired(c, p) ==
  IF p \notin Composite THEN c
  ELSE [c EXCEPT !.reads = [n \in Node |->
         IF n \notin ToSet(c.children[p]) THEN c.reads[n]
         ELSE LET i == CHOOSE i \in DOMAIN c.children[p] : c.children[p][i] = n
              IN IF i = 1 THEN {} ELSE {c.children[p][i - 1]}]]

\* _register_node below a parent, and _expand with adopt_handed_children.
Registered(c, n, p) ==
  LET handed == IF n \in Composite
                THEN Kept(c.children[n], Nodes(c))
                ELSE <<>>
      placed == [c EXCEPT !.nodes = @ \o <<n>> \o handed,
                          !.parent = [m \in Node |-> IF m = n THEN p
                                       ELSE IF m \in ToSet(handed) THEN n
                                       ELSE @[m]]]
  IN Wired(placed, n)

\* _insert_at.
Inserted(c, p, i, n) ==
  Wired(Registered([c EXCEPT !.children[p] = InsertAt(@, i, n)], n, p), p)

\* list_in_place_of.
ListedInPlaceOf(c, p, child, substitute) ==
  IF p = NoNode THEN c
  ELSE [c EXCEPT !.children[p] =
          [i \in DOMAIN @ |-> IF @[i] = child THEN substitute ELSE @[i]]]

\* What remove_node and _drop_nodes_from both do to the nodes that leave: the others keep
\* their order, and none of them lists one that left.
Without(c, gone) ==
  [nodes |-> Kept(c.nodes, gone),
   parent |-> [n \in Node |-> IF n \in gone THEN NoNode ELSE c.parent[n]],
   children |-> [p \in Node |-> IF p \in gone THEN c.children[p]
                                ELSE Kept(c.children[p], gone)],
   reads |-> c.reads]

\* replace by a composite node holding the node: take_over, _expand, and the wiring
\* of the former parent.
WrappedIn(c, n, r) ==
  LET holder == Parent(c, n)
      taken == [ListedInPlaceOf(c, holder, n, r)
                  EXCEPT !.children[r] = <<n>> \o @,
                         !.parent[n] = r, !.reads[n] = {}]
      registered == Registered(taken, r, holder)
  IN IF holder = NoNode THEN registered ELSE Wired(registered, holder)

\* replace by any other node: the node leaves with everything below it.
SubstitutedBy(c, n, r) ==
  LET holder == Parent(c, n)
      registered == Registered(ListedInPlaceOf(c, holder, n, r), r, holder)
      wired == IF holder = NoNode THEN registered ELSE Wired(registered, holder)
  IN Without(wired, {n} \union Descendants(c, n))

\* ReplacedNode.before_replacing and put_back.
ReplacedNode(c, n, r) ==
  [node |-> n, replacement |-> r, parent |-> Parent(c, n), reads |-> c.reads[n]]
\* Mutant of PutBack: the former parent keeps listing the replacement.
PutBackUnlisted(record, c) ==
  [c EXCEPT !.parent[record.node] = record.parent,
            !.reads[record.node] = record.reads]


PutBack(record, c) ==
  [ListedInPlaceOf(c, record.parent, record.replacement, record.node)
     EXCEPT !.parent[record.node] = record.parent,
            !.reads[record.node] = record.reads]

\* The nodes a record mentions.
Mentioned(record) == {record.node, record.replacement, record.parent} \ {NoNode}

\* list_in_place_of finds nothing to put the node in place of, and raises.
CannotBePutBack(record, c) ==
  record.parent # NoNode /\ record.replacement \notin ToSet(c.children[record.parent])

\* _put_back_replaced_nodes_from: those replaced since there were `count' records, the
\* latest first.
PutBackFrom(count, records, c) ==
  LET putBack[i \in count..Len(records)] ==
        IF i = Len(records) THEN c ELSE PutBack(records[i + 1], putBack[i + 1])
  IN putBack[count]

\* _drop_nodes_from.
DroppedFrom(c, count) ==
  Without(c, {c.nodes[i] : i \in (count + 1)..Len(c.nodes)})
-----------------------------------------------------------------------------
\* Compiling again.

\* Mutant of Covers: the last compiled node is not covered.
CoversButTheLast(n) ==
  \E i \in DOMAIN chart.nodes : chart.nodes[i] = n /\ i < Len(compiled)

\* latest_compile_covers, an index compared to a count.
Covers(n) ==
  \E i \in DOMAIN chart.nodes : chart.nodes[i] = n /\ i <= Len(compiled)

\* What compile checks: check_children, and the scope of every condition.
CanCompile(c) ==
  /\ c.nodes # <<>>
  /\ \A p \in Composite \intersect Nodes(c) :
       p \notin ToSet(compiled) => c.children[p] # <<>>
  /\ \A n \in Nodes(c) : \A m \in c.reads[n] :
       m \in Nodes(c) /\ (Parent(c, m) = n \/ Parent(c, m) = Parent(c, n))

\* before_recompile of the motion control.
AtRest == controlled = {} \/ ~moving

\* _compile_nodes, and after_compile of the motion control.
Compile ==
  /\ isCompiled' = TRUE
  /\ compiled' = chart'.nodes
  /\ controlled' = Nodes(chart') \intersect Motion
  /\ changed' = FALSE
  /\ structureChanged' = FALSE
  /\ holdingStill' = FALSE

\* Nothing compiles: the statechart stays changed and asks again next tick.
Wait ==
  /\ holdingStill' = TRUE
  /\ changed' = TRUE
  /\ UNCHANGED <<isCompiled, compiled, controlled, structureChanged>>

CompileFails == (heldStill \/ AtRest) /\ ~CanCompile(chart')

\* The end of the outermost block: __exit__ calls compile, which asks to hold still
\* unless every callback already answered for this step.
CompileAgain == IF (heldStill \/ AtRest) /\ CanCompile(chart') THEN Compile ELSE Wait

\* __exit__ of a block; add_node, replace and the rest are blocks of their own.
Exit(hasChanged) ==
  IF open' = <<>> /\ isCompiled /\ hasChanged
  THEN CompileAgain
  ELSE /\ changed' = hasChanged
       /\ UNCHANGED <<isCompiled, compiled, controlled, structureChanged, holdingStill>>

\* Whether an exception ends the loop: between two ticks the caller has it, and in a
\* callback it may be caught.
Raised == phase' \in (IF phase = "callbacks" THEN {phase, "over"}
                      ELSE IF phase = "between" THEN {phase} ELSE {"over"})
-----------------------------------------------------------------------------
\* Blocks, and what is changed in them.

Init ==
  /\ chart = [nodes |-> <<>>, parent |-> [n \in Node |-> NoNode],
              children |-> [n \in Node |-> IF n \in Composite THEN Handed[n] ELSE <<>>],
              reads |-> [n \in Node |-> {}]]
  /\ joined = {}
  /\ open = <<>> /\ opened = 0 /\ replaced = <<>>
  /\ isCompiled = FALSE /\ compiled = <<>>
  /\ changed = FALSE /\ structureChanged = FALSE /\ heldStill = FALSE
  /\ controlled = {} /\ holdingStill = FALSE /\ moving = FALSE
  /\ waiting = {}
  /\ phase = "between" /\ firstTick = FALSE

CanModify == phase \in {"between", "choosing", "callbacks"}
Block == [count |-> Len(chart.nodes), replaced |-> Len(replaced), asItWas |-> chart]

\* __enter__.
Modify ==
  /\ CanModify
  /\ opened < MaxModifications
  /\ opened' = opened + 1
  /\ open' = Append(open, Block)
  /\ UNCHANGED <<chart, joined, replaced, compiler, control, waiting, phase,
                 firstTick>>

\* What a method that changes the chart does when it ends.
Changed(c) ==
  /\ CanModify
  /\ chart' = c
  /\ joined' = joined \union Nodes(c)
  /\ open' = open
  /\ Exit(TRUE)
  /\ IF open = <<>> /\ isCompiled /\ CompileFails THEN Raised ELSE phase' = phase
  /\ UNCHANGED <<opened, heldStill, moving, waiting, firstTick>>

Holder == {p \in Composite : Handed[p] = <<>>}
\* The bounds on what joins: each node once, and a composite node that was handed
\* nothing only around a node it holds.
Fresh == {n \in Node \ (joined \union Holder) :
            \A p \in Composite : n \notin ToSet(Handed[p])}
\* The bound on remove_node and replace.
MayLeave(gone) == Cardinality((joined \ Nodes(chart)) \union gone) <= MaxLeft
Unreferenced(c, gone) == \A n \in Nodes(c) \ gone : c.reads[n] \intersect gone = {}

AddNode(n) ==
  /\ n \in Fresh
  /\ Changed(Registered(chart, n, NoNode))
  /\ UNCHANGED replaced

InsertAtPosition(p, i, n) ==
  /\ n \in Fresh
  /\ p \in Composite \intersect Nodes(chart)
  /\ ~Covers(p)
  /\ i \in 1..(Len(chart.children[p]) + 1)
  /\ Changed(Inserted(chart, p, i, n))
  /\ UNCHANGED replaced

CanBeReplaced(n) ==
  /\ n \in Nodes(chart)
  /\ ~Covers(n)
  /\ Parent(chart, n) \notin Chooser

ReplaceByHolder(n, r) ==
  /\ CanBeReplaced(n)
  /\ r \in Holder \ joined
  /\ replaced' = IF open = <<>> THEN <<>>
                 ELSE Append(replaced, ReplacedNode(chart, n, r))
  /\ Changed(WrappedIn(chart, n, r))

Replace(n, r) ==
  /\ CanBeReplaced(n)
  /\ r \in Fresh
  /\ MayLeave({n} \union Descendants(chart, n))
  /\ Changed(SubstitutedBy(chart, n, r))
  /\ UNCHANGED replaced

\* remove_node, which is no block and compiles nothing.
RemoveNode(n) ==
  LET gone == {n} \union Descendants(chart, n)
  IN /\ CanModify
     /\ n \in Nodes(chart)
     /\ ~Covers(n)
     /\ Unreferenced(chart, gone)
     /\ MayLeave(gone)
     /\ chart' = Without(chart, gone)
     /\ UNCHANGED <<joined, blocks, compiler, control, waiting, phase,
                    firstTick>>

\* A block of a caller; the one nodes choose their child in ends in FinishChoosing.
InCallersBlock == Len(open) > (IF phase = "choosing" THEN 1 ELSE 0)

CloseBlock ==
  /\ CanModify
  /\ InCallersBlock
  /\ open' = Front(open)
  /\ replaced' = IF open' = <<>> THEN <<>> ELSE replaced
  /\ chart' = chart
  /\ Exit(changed)
  /\ IF open' = <<>> /\ isCompiled /\ changed /\ CompileFails
     THEN Raised ELSE phase' = phase
  /\ UNCHANGED <<joined, opened, heldStill, moving, waiting, firstTick>>

\* Whether the nodes a block found are all there still, and those of every record.
FindsItsNodes(block) ==
  /\ Nodes(block.asItWas) \subseteq Nodes(chart)
  /\ \A i \in DOMAIN replaced : Mentioned(replaced[i]) \subseteq Nodes(chart)

\* The records a block comes to when it raises, but cannot put back.
Stuck(block) ==
  {i \in (block.replaced + 1)..Len(replaced) :
     CannotBePutBack(replaced[i], PutBackFrom(i, replaced, chart))}

\* __exit__ with an exception: replaced nodes are put back, the latest first, and every
\* node beyond the count at the start is dropped.  A bound: of a statechart that comes out
\* of a block some node of which was missing, nothing more is modelled.
AbandonBlock ==
  LET block == Last(open)
      putBack == PutBackFrom(block.replaced, replaced, chart)
  IN /\ CanModify
     /\ open # <<>>
     /\ Stuck(block) = {}
     /\ open' = Front(open)
     /\ replaced' = SubSeq(replaced, 1, block.replaced)
     /\ chart' = DroppedFrom(putBack, block.count)
     /\ Exit(changed \/ block.count # Len(chart.nodes))
     /\ IF ~FindsItsNodes(block) THEN phase' = "torn"
        ELSE IF open' = <<>> THEN Raised ELSE phase' = phase
     /\ heldStill' = (heldStill /\ phase' \notin {"over", "torn"})
     /\ UNCHANGED <<joined, opened, moving, waiting, firstTick>>

\* __exit__ with an exception, which raises another: nothing is dropped or compiled.
FailToPutBack ==
  LET stuck == Stuck(Last(open))
  IN /\ CanModify
     /\ open # <<>>
     /\ open' = Front(open)
     /\ \E i \in stuck : /\ \A j \in stuck : j <= i
                         /\ chart' = PutBackFrom(i - 1, replaced, chart)
     /\ phase' = "torn"
     /\ heldStill' = FALSE
     /\ UNCHANGED <<joined, opened, replaced, isCompiled, compiled, changed,
                    structureChanged, control, waiting, firstTick>>

WorldChanges ==
  /\ phase \in {"between", "callbacks"}
  /\ isCompiled /\ ~structureChanged
  /\ structureChanged' = TRUE
  /\ UNCHANGED <<chart, joined, blocks, isCompiled, compiled, changed, heldStill,
                 control, waiting, phase, firstTick>>
-----------------------------------------------------------------------------
\* The executor and its ticks.

\* StatechartExecutor.compile, whose first tick has no before_tick and no after_tick.
ExecutorCompile ==
  /\ phase = "between" /\ open = <<>>
  /\ ~isCompiled
  /\ chart' = chart
  /\ CanCompile(chart)
  /\ Compile
  /\ firstTick' = TRUE
  /\ phase' = "settling"
  /\ UNCHANGED <<joined, blocks, heldStill, moving, waiting>>

\* Mutant of BeginTick: the motion control forgets that it was asked to hold still.
BeginTickForgetting ==
  /\ phase = "between" /\ open = <<>>
  /\ isCompiled
  /\ chart' = chart
  /\ IF (changed \/ structureChanged) /\ AtRest /\ CanCompile(chart)
     THEN Compile /\ phase' = "settling"
     ELSE /\ holdingStill' = FALSE
          /\ phase' = IF ~changed /\ ~structureChanged THEN "settling"
                     ELSE IF AtRest THEN "over"
                     ELSE IF changed THEN "recording" ELSE "settling"
          /\ UNCHANGED <<compiled, controlled, changed, structureChanged, isCompiled>>
  /\ UNCHANGED <<joined, blocks, heldStill, moving, waiting, firstTick>>

\* before_tick of the motion control and compile_if_changed: a statechart that cannot
\* compile yet ticks on, without settling if it changed.
BeginTick ==
  /\ phase = "between" /\ open = <<>>
  /\ isCompiled
  /\ chart' = chart
  /\ IF ~changed /\ ~structureChanged
     THEN /\ holdingStill' = FALSE
          /\ phase' = "settling"
          /\ UNCHANGED <<compiled, controlled, changed, structureChanged, isCompiled>>
     ELSE IF AtRest /\ CanCompile(chart) THEN Compile /\ phase' = "settling"
     ELSE /\ holdingStill' = TRUE
          /\ phase' = IF AtRest THEN "over" ELSE IF changed THEN "recording" ELSE "settling"
          /\ UNCHANGED <<compiled, controlled, changed, structureChanged, isCompiled>>
  /\ UNCHANGED <<joined, blocks, heldStill, moving, waiting, firstTick>>

\* settle: any compiled chooser may run and wait for a child.
Settle ==
  /\ phase = "settling"
  /\ waiting' \in SUBSET (ToSet(compiled) \intersect Chooser)
  /\ phase' = "asking"
  /\ UNCHANGED <<chart, joined, blocks, compiler, control, firstTick>>

\* _let_waiting_nodes_choose_their_child.
LetWaitingNodesChoose ==
  /\ phase = "asking"
  /\ holdingStill' = (holdingStill \/ waiting # {})
  /\ IF waiting # {} /\ AtRest
     THEN heldStill' = TRUE /\ open' = <<Block>> /\ phase' = "choosing"
     ELSE UNCHANGED <<heldStill, open>> /\ phase' = "callbacks"
  /\ UNCHANGED <<chart, joined, opened, replaced, isCompiled, compiled, changed,
                 structureChanged, controlled, moving, waiting, firstTick>>

\* choose_child: a child joins, which the success condition reads from then on.
ChooseChild(n, child) ==
  /\ phase = "choosing" /\ Len(open) = 1
  /\ n \in waiting
  /\ child \in Fresh
  /\ LET adopted == [chart EXCEPT !.children[n] = Append(@, child),
                                  !.reads[n] = @ \union {child}]
     IN chart' = Registered(adopted, child, n)
  /\ joined' = joined \union Nodes(chart')
  /\ changed' = TRUE
  /\ waiting' = waiting \ {n}
  /\ UNCHANGED <<blocks, isCompiled, compiled, structureChanged, heldStill, control,
                 phase, firstTick>>

\* give_up: no child is left, and the node is built again.
GiveUp(n) ==
  /\ phase = "choosing" /\ Len(open) = 1
  /\ n \in waiting
  /\ changed' = TRUE
  /\ waiting' = waiting \ {n}
  /\ UNCHANGED <<chart, joined, blocks, isCompiled, compiled, structureChanged,
                 heldStill, control, phase, firstTick>>

\* Mutant of FinishChoosing: the answers of this step count for every later one.
FinishChoosingHeldStill ==
  /\ phase = "choosing" /\ Len(open) = 1
  /\ waiting = {}
  /\ open' = <<>>
  /\ replaced' = <<>>
  /\ chart' = chart
  /\ Exit(changed)
  /\ phase' = IF changed /\ ~CanCompile(chart) THEN "over" ELSE "callbacks"
  /\ UNCHANGED <<joined, opened, heldStill, moving, waiting, firstTick>>


FinishChoosing ==
  /\ phase = "choosing" /\ Len(open) = 1
  /\ waiting = {}
  /\ open' = <<>>
  /\ replaced' = <<>>
  /\ chart' = chart
  /\ Exit(changed)
  /\ heldStill' = FALSE
  /\ phase' = IF changed /\ ~CanCompile(chart) THEN "over" ELSE "callbacks"
  /\ UNCHANGED <<joined, opened, moving, waiting, firstTick>>

\* Mutant of Followed: the commands follow the running nodes in any case.
FollowedAnyway(running) == running \intersect controlled

\* _life_cycle_state_followed.
Followed(running) == IF holdingStill THEN {} ELSE running \intersect controlled

\* after_tick: the controller follows the running nodes, or slows the robot down.
EndTick ==
  /\ phase \in {"callbacks", "recording"} /\ open = <<>>
  /\ \E running \in SUBSET ToSet(compiled) :
       moving' \in (IF firstTick \/ controlled = {} THEN {moving}
                    ELSE IF Followed(running) = {} THEN {FALSE, moving}
                    ELSE BOOLEAN)
  /\ firstTick' = FALSE
  /\ phase' = "between"
  /\ UNCHANGED <<chart, joined, blocks, compiler, controlled, holdingStill, waiting>>

\* Following no node, whichever run, the controller has brought the robot to rest.
ComeToRest == EndTick /\ Followed(ToSet(compiled)) = {} /\ ~moving'

Change ==
  \/ Modify \/ CloseBlock \/ AbandonBlock \/ FailToPutBack
  \/ \E n \in Node : AddNode(n) \/ RemoveNode(n)
  \/ \E p, n \in Node : \E i \in 1..Cardinality(Node) : InsertAtPosition(p, i, n)
  \/ \E n, r \in Node : ReplaceByHolder(n, r) \/ Replace(n, r)
  \/ WorldChanges
Tick ==
  \/ ExecutorCompile \/ BeginTick \/ Settle \/ LetWaitingNodesChoose
  \/ \E n, child \in Node : ChooseChild(n, child)
  \/ \E n \in Node : GiveUp(n)
  \/ FinishChoosing \/ EndTick
Next == Change \/ Tick

\* The loop ticks, blocks end, and a robot held still again and again stands at last.
Fairness ==
  /\ WF_vars(BeginTick) /\ WF_vars(Settle) /\ WF_vars(LetWaitingNodesChoose)
  /\ WF_vars(\E n \in Node : GiveUp(n)) /\ WF_vars(FinishChoosing)
  /\ WF_vars(CloseBlock) /\ WF_vars(EndTick) /\ SF_vars(ComeToRest)
Spec == Init /\ [][Next]_vars /\ Fairness
-----------------------------------------------------------------------------
TypeOK ==
  /\ chart \in [nodes : Seq(Node), parent : [Node -> Node \union {NoNode}],
                children : [Node -> Seq(Node)], reads : [Node -> SUBSET Node]]
  /\ joined \subseteq Node /\ Nodes(chart) \subseteq joined
  /\ opened \in 0..MaxModifications
  /\ compiled \in Seq(Node) /\ controlled \subseteq Motion
  /\ {isCompiled, changed, structureChanged, heldStill, holdingStill, moving, firstTick}
       \subseteq BOOLEAN
  /\ waiting \subseteq Chooser
  /\ phase \in {"between", "settling", "asking", "choosing", "callbacks", "recording",
                "over", "torn"}

\* latest_compile_covers compares an index to a count, so a compiled node may never
\* leave or move, whichever blocks add, remove, replace and drop nodes around it: its
\* state and its row in every state array are found by that index.
CompiledNodesKeepTheirPlace == IsPrefix(compiled, chart.nodes)

\* A statechart that does not count as changed runs on a tick and a controller that
\* know every node it has (compile, after_recompile).
EveryNodeIsCompiledOrAwaited ==
  isCompiled /\ ~changed =>
    compiled = chart.nodes /\ controlled = Nodes(chart) \intersect Motion

\* A node and its parent agree on each other, after any block (put_back,
\* _drop_nodes_from, list_in_place_of).
ParentsListTheirChildren ==
  \A n \in Nodes(chart) :
    /\ \A p \in Node : Parent(chart, n) = p =>
         p \in Nodes(chart) /\ \E i \in DOMAIN chart.children[p] : chart.children[p][i] = n
    /\ \A i, j \in DOMAIN chart.children[n] :
         /\ Parent(chart, chart.children[n][i]) = n
         /\ chart.children[n][i] = chart.children[n][j] => i = j

\* A statechart stays whole while blocks change it: parents and children agree, and what
\* was compiled keeps its place until everything is compiled again; the latter even if a
\* block is abandoned that misses nodes, after which the former need not hold.
StatechartStaysWhole ==
  TypeOK /\ (phase # "torn" => ParentsListTheirChildren) /\ CompiledNodesKeepTheirPlace
         /\ EveryNodeIsCompiledOrAwaited

\* Compiling again and choosing block the tick, and with it the command of the robot:
\* neither starts while the robot moves (when_held_still).
BlocksOnlyARobotAtRest ==
  [][isCompiled /\ moving /\ controlled # {} =>
       /\ ~(changed /\ ~changed') /\ ~(structureChanged /\ ~structureChanged')
       /\ ~(phase # "choosing" /\ phase' = "choosing")]_vars

\* A tick that ends with a change not compiled yet, or with a node still waiting to
\* choose, has asked the robot to hold still, whichever callback changed the statechart
\* last: its command follows no node of a statechart that is to be blocked
\* (_life_cycle_state_followed).
WaitingHoldsTheRobotStill ==
  /\ isCompiled /\ open = <<>> /\ phase \in {"callbacks", "recording"}
  /\ changed \/ waiting # {}
  => holdingStill

\* A block that raises never drops a node it found.  If those nodes are all there still,
\* and with them every node a record of the open blocks names, it puts the replaced ones
\* back without raising again, drops every node it added, and leaves the others below
\* their parents and in their places (StatechartModification, "the nodes added inside it
\* are dropped again").
AbandonedBlockDropsWhatItAdded ==
  [][AbandonBlock \/ FailToPutBack =>
       LET before == Last(open).asItWas
       IN /\ Nodes(before) \intersect Nodes(chart) \subseteq Nodes(chart')
          /\ FindsItsNodes(Last(open)) =>
               /\ AbandonBlock
               /\ chart'.nodes = before.nodes
               /\ \A n \in Nodes(before) :
                    /\ Parent(chart', n) = Parent(before, n)
                    /\ chart'.children[n] = before.children[n]]_vars

\* A block that raises leaves the statechart as it was, unless nodes it found left: its
\* nodes, and every condition they have (statechart.py:133-134).
AbandonedBlockLeavesTheStatechart ==
  [][AbandonBlock /\ FindsItsNodes(Last(open)) =>
       LET before == Last(open).asItWas
       IN /\ chart'.nodes = before.nodes
          /\ \A n \in Nodes(before) : chart'.reads[n] = before.reads[n]]_vars

\* A change is compiled in the end: the statechart asking to hold still brings the
\* robot to rest (before_recompile, after_tick), unless it cannot compile or the run
\* is over.
ChangesAreCompiled ==
  isCompiled /\ changed ~> ~changed \/ ~CanCompile(chart) \/ phase \in {"over", "torn"}

\* A node that waits for a child chooses one or stops waiting, although the nodes
\* running beside it move the robot.
WaitingNodesChoose == waiting # {} ~> waiting = {} \/ phase \in {"over", "torn"}

\* Whatever the robot holds still for comes about: changes are compiled, and nodes that
\* wait for a child choose one (before_recompile, when_held_still).
HeldStillForSomething == ChangesAreCompiled /\ WaitingNodesChoose

=============================================================================
