--------------------------- MODULE MCCompiledTick ---------------------------
(***************************************************************************)
(* Small statecharts of three nodes for TLC, in three families: every      *)
(* wiring of one or two conditions by single predicates in a chain of      *)
(* nodes; two wirings among siblings, so that nodes start paused and       *)
(* resume, with an on_tick that may raise; and charts whose nodes observe  *)
(* each other.                                                             *)
(***************************************************************************)
EXTENDS CompiledTick

MCNode == 1..3
MCNoParent == 0

Chain == <<0, 1, 2>>         \* 3 below 2 below 1
Siblings == <<0, 1, 1>>      \* 2 and 3 below 1
Pair == <<0, 0, 2>>          \* 1 beside 2, 3 below 2

DepthIn(parent, n) ==
  IF parent[n] = 0 THEN 0 ELSE IF parent[parent[n]] = 0 THEN 1 ELSE 2

\* The nodes a condition of n may read: itself, its siblings and its children.
Scope(parent, n) == {m \in MCNode : m = n \/ parent[m] = parent[n] \/ parent[m] = n}

Wirings(parent, kinds, predicates) ==
  {w \in [node : MCNode, kind : kinds, reads : MCNode, predicate : predicates] :
     w.reads \in Scope(parent, w.node)}

ConditionIn(wired, n, kind) ==
  LET own == {w \in wired : w.node = n /\ w.kind = kind}
  IN  IF own = {} THEN UnwiredCondition[kind]
      ELSE {{Is(w.reads, w.predicate)} : w \in own}

\* A node keeps what it observed unless its on_tick says otherwise.
KeepsObservation(n) ==
  <<[when |-> ConstTrue, reads |-> [of |-> "observation", node |-> n]]>>

MCChart(parent, wired) ==
  [parent |-> parent,
   depth |-> [n \in MCNode |-> DepthIn(parent, n)],
   condition |-> [n \in MCNode |->
                    [kind \in TransitionKinds |-> ConditionIn(wired, n, kind)]],
   ends |-> [n \in MCNode |->
               IF n = 3 THEN {"SucceedsOnObservingTrue", "FailsOnObservingFalse"}
               ELSE {}],
   observation |-> [n \in MCNode |-> KeepsObservation(n)],
   onTick |-> [n \in MCNode |-> {"TRUE", "FALSE"}],
   callbackRaises |-> {3}]
-----------------------------------------------------------------------------
WiredCharts ==
  LET wirings == Wirings(Chain, TransitionKinds, {"OBSERVES_TRUE", "IS_TERMINATED"})
  IN  {MCChart(Chain, wired) : wired \in {{}} \union {{v, w} : v, w \in wirings}}

FlatWirings(parent) ==
  Wirings(parent, {"START", "PAUSE", "RESET"}, {"OBSERVES_TRUE", "IS_TERMINATED"})

FlatCharts ==
  UNION {{[MCChart(p, {v, w}) EXCEPT
             !.onTick = [n \in MCNode |-> {"TRUE", "NONE", "RAISES"}]] :
            v, w \in FlatWirings(p)} : p \in {Siblings, Pair}}

ChainAndFlatCharts == WiredCharts \union FlatCharts

\* What a node of an observing chart may observe: what it observed before, the
\* last observation of a child, or whether a node in scope observes something.
\* Some of these charts contradict themselves and never settle.
Expressions(parent, n) ==
  {KeepsObservation(n)}
    \union {<<[when |-> ConstTrue, reads |-> [of |-> "last", node |-> m]]>> :
              m \in {k \in MCNode : parent[k] = n}}
    \union {<<[when |-> {{literal}}, reads |-> [of |-> "value", value |-> "TRUE"]],
              [when |-> ConstTrue, reads |-> [of |-> "value", value |-> "FALSE"]]>> :
              literal \in {Is(m, "OBSERVES_TRUE") : m \in Scope(parent, n) \ {n}}
                          \union {IsNot(m, "OBSERVES_TRUE") : m \in Scope(parent, n)}}

ObservingCharts ==
  {[MCChart(Pair, wired) EXCEPT
      !.observation = <<e1, e2, e3>>,
      !.onTick = [n \in MCNode |-> IF n = 3 /\ e3 = KeepsObservation(3)
                                   THEN {"TRUE", "FALSE"} ELSE {"NONE"}]] :
     wired \in {{}} \union {{w} : w \in Wirings(Pair, {"PAUSE"}, {"OBSERVES_TRUE"})},
     e1 \in Expressions(Pair, 1), e2 \in Expressions(Pair, 2),
     e3 \in Expressions(Pair, 3)}

=============================================================================
