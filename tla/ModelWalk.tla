----------------------------- MODULE ModelWalk -----------------------------
(***************************************************************************)
(* The walk of a graph of nodes (fuzzing_primitives.py, ModelWalker): the  *)
(* generator walk_graph_rec() with its helper node_consumer_helper(), and  *)
(* four of the consumers it serves.  Disruptors such as tWALK and tTYPE    *)
(* take from it, one by one, the data they give.                           *)
(*                                                                         *)
(* walk_graph_rec() is recursive and suspends itself at each case.  Its    *)
(* activations are the frames of `stack', each with the point it has       *)
(* reached:                                                                *)
(*   enter   step 1: freeze the node, walk its children                    *)
(*   offer   step 2: offer the node to the consumer                        *)
(*   loop    the node is consumed: the next case, unless it is to be reset *)
(*   shown   a case was given and the walk is resumed                      *)
(*   next    the next value of the node, the next consumption, or the end  *)
(*   after   step 2 is over: same node again, or the next one              *)
(*                                                                         *)
(* The graph is the one of NodeShape, of any depth, with terminal nodes    *)
(* that enumerate their values as TypedValues says; all nodes are mutable  *)
(* and finite, in determinist mode, and a structure has one copy at most   *)
(* of each child.  A walk has no limit of steps.                           *)
(***************************************************************************)
EXTENDS NodeShape, TypedValues

CONSTANTS
  Root,        \* the root of every graph
  Type,        \* the value type of each node that is terminal in some graph
  FuzzedTypes, \* the types get_fuzzed_vt_list() gives to put in their place
  NoNode,      \* None
  Plans        \* the walks considered: a graph and a ConsumerType

\* kind: NodeConsumerStub, BasicVisitor, NonTermVisitor, TypedNodeDisruption
\*   or no walker at all: the root is used directly, as NodeShape says;
\* runs: max_runs_per_node, -1 for no limit;
\* deep: need_reset_when_structure_change;
\* siblings: consider_side_effects_on_sibbling.
ConsumerType ==
  [kind: {"user", "stub", "basic", "nonterm", "type"}, runs: Nat \union {-1},
   deep: BOOLEAN, siblings: BOOLEAN]

ASSUME PlanAssumption ==
  \A p \in Plans :
    /\ p.graph \in Layouts /\ Root \in DOMAIN p.graph \union Child
    /\ p.consumer \in ConsumerType
    /\ p.consumer.kind = "user" => Root \in DOMAIN p.graph

ASSUME FuzzedAssumption ==
  NoNode \notin Child /\ \A t \in DOMAIN FuzzedTypes : FuzzedTypes[t] # <<>>

VARIABLES
  consumer,    \* the consumer's parameters; never change
  terminal,    \* the state of each terminal node
  memory,      \* the consumer's own variables
  stack,       \* the activations of walk_graph_rec()
  outcome,     \* "walking", "ended", "failed" by an exception, or "none"
  given,       \* history: the case just given, or NoCase
  shown,       \* history: the cases given so far
  repeated     \* history: the cases given more than once

history == <<given, shown, repeated>>
walkVars == <<layout, extras, consumer, nonterm, terminal, memory, stack,
              outcome, history>>

Top == stack[Len(stack)]
Node == Top.list[Top.at]
IsNonTerm(n) == n \in DOMAIN layout
NoCase == [node |-> NoNode, value |-> <<>>, structures |-> {}]

---------------------------------------------------------------------------
(* The graph: the states of all its nodes.                                 *)

Graph == [nonterm |-> nonterm, terminal |-> terminal]

IsPresent(entry) == entry[2] # 0

\* The children that a frozen node has.
Present(g, n) ==
  LET there == SelectSeq(g.nonterm[n].frozen, IsPresent)
  IN [i \in 1..Len(there) |-> there[i][1]]

Exhausted(g, n) ==
  IF IsNonTerm(n) THEN IsExhausted(layout[n], g.nonterm[n])
  ELSE g.terminal[n].cursor.exhausted

\* _get_value() of a terminal node that is not frozen.
FrozenTerminal(t) ==
  IF t.frozen THEN t
  ELSE [t EXCEPT !.cursor = Draw(t.type, @), !.frozen = TRUE]

\* freeze().  To build a structure, _construct_subnodes() freezes all the
\* children it is made of, even those it has no copy of.
RECURSIVE FreezeAll(_, _)
FreezeBuilt(g, n) == FoldLeft(FreezeAll, g, g.nonterm[n].flat)

FreezeAll(g, n) ==
  IF ~IsNonTerm(n) THEN [g EXCEPT !.terminal[n] = FrozenTerminal(@)]
  ELSE IF g.nonterm[n].frozen = None
  THEN FreezeBuilt([g EXCEPT !.nonterm[n] = Frozen(layout[n], @)], n)
  ELSE FoldLeft(FreezeAll, g, Present(g, n))

\* unfreeze(recursive=False): the next freeze goes on to the next value.
UnfreezeNode(g, n) ==
  IF IsNonTerm(n) THEN [g EXCEPT !.nonterm[n] = Unfrozen(layout[n], @)]
  ELSE [g EXCEPT !.terminal[n].frozen = FALSE]

\* unfreeze(recursive=True, reevaluate_constraints=True)
RECURSIVE UndoAll(_, _)
UndoAll(g, n) ==
  IF ~IsNonTerm(n)
  THEN [g EXCEPT !.terminal[n] = [@ EXCEPT !.frozen = FALSE,
                      !.cursor = IF g.terminal[n].frozen
                                 THEN Rewind(g.terminal[n].type, @) ELSE @]]
  ELSE FoldLeft(LAMBDA h, c : IF IsNonTerm(c) THEN UndoAll(h, c) ELSE h,
                [g EXCEPT !.nonterm[n] = Undone(layout[n], @)],
                IF g.nonterm[n].frozen = None THEN <<>> ELSE Present(g, n))

\* reset_state(recursive=False)
ResetNode(g, n) ==
  IF IsNonTerm(n)
  THEN [g EXCEPT !.nonterm[n] = [New(layout[n]) EXCEPT !.flat = g.nonterm[n].flat]]
  ELSE [g EXCEPT !.terminal[n] = [@ EXCEPT !.frozen = FALSE,
                              !.cursor = FreshCursor(g.terminal[n].type)]]

\* _do_reset(): the recursive part of it finds the node unfrozen, and stops.
DoReset(g, n) == UnfreezeNode(g, n)

\* The terminal nodes with their values, from left to right.
RECURSIVE ValueOf(_, _)
ValueOf(g, n) ==
  IF ~IsNonTerm(n) THEN << <<n, g.terminal[n].cursor.drawn>> >>
  ELSE FoldLeft(LAMBDA v, c : v \o ValueOf(g, c), <<>>, Present(g, n))

RECURSIVE Reachable(_, _)
Reachable(g, n) ==
  {n} \union IF IsNonTerm(n)
             THEN UNION {Reachable(g, c) : c \in Range(Present(g, n))} ELSE {}

---------------------------------------------------------------------------
(* The consumers.  Each operator takes their variables m and the graph g.  *)

\* first: firstcall; last, current: last_node, current_node (or
\* current_fuzz_vt_list's node); backup: __node_backup or orig_internal;
\* queue: current_fuzz_vt_list.
NewMemory ==
  [first |-> TRUE, last |-> NoNode, current |-> NoNode, backup |-> <<>>,
   queue |-> <<>>]

InterestedBy(n) == IsNonTerm(n) = (consumer.kind = "nonterm")

\* need_reset(), and what it leaves in the consumer.
NeedReset(m, g, n) ==
  /\ IsNonTerm(n)
  /\ consumer.kind = "nonterm" =>
       m.last # NoNode /\ n # m.last /\ ~Exhausted(g, n)

AfterNeedReset(m, g, n) ==
  IF consumer.kind = "basic" /\ IsNonTerm(n) /\ ~Exhausted(g, n)
  THEN [m EXCEPT !.first = TRUE]
  ELSE IF consumer.kind = "nonterm" /\ NeedReset(m, g, n)
  THEN [m EXCEPT !.last = NoNode, !.current = NoNode]
  ELSE m

Taken(m, g) == [ok |-> TRUE, memory |-> m, graph |-> g]
Refused(m, g) == [ok |-> FALSE, memory |-> m, graph |-> g]

\* BasicVisitor.consume_node(): the first value of the very first node is a
\* case, that of the others was already seen with it.
ConsumeBasic(m, g, n) ==
  IF m.first THEN Taken([m EXCEPT !.first = FALSE], g)
  ELSE IF Exhausted(g, n) THEN Refused(m, g)
  ELSE Taken(m, UnfreezeNode(g, n))

ConsumeNonTerm(m, g, n) ==
  LET now == [m EXCEPT !.last = m.current, !.current = n]
  IN IF Exhausted(g, n) /\ now.last # NoNode THEN Refused(now, g)
     ELSE Taken(now, g)

\* The node takes its next fuzzed type, not frozen.
ConsumeType(m, g, n) ==
  LET again == n = m.current /\ m.queue # <<>>
      now == IF again THEN m
             ELSE [m EXCEPT !.current = n, !.backup = <<g.terminal[n]>>,
                            !.queue = FuzzedTypes[n]]
      type == Head(now.queue)
  IN Taken([now EXCEPT !.queue = Tail(@)],
           [g EXCEPT !.terminal[n] = [type |-> type, frozen |-> FALSE,
                                      cursor |-> FreshCursor(type)]])

\* save_node() and consume_node().
SaveAndConsume(m, g, n) ==
  CASE consumer.kind = "basic" -> ConsumeBasic(m, g, n)
    [] consumer.kind = "nonterm" -> ConsumeNonTerm(m, g, n)
    [] consumer.kind = "type" -> ConsumeType(m, g, n)
    [] consumer.kind = "stub" ->
         IF Exhausted(g, n) THEN Refused([m EXCEPT !.backup = <<g.terminal[n]>>], g)
         ELSE Taken([m EXCEPT !.backup = <<g.terminal[n]>>], g)

StillInterestedBy(m) == consumer.kind = "type" /\ m.queue # <<>>

\* Faulty: the node keeps its value.
NotRecovered(m, g, n) ==
  IF consumer.kind \in {"basic", "nonterm"} THEN FreezeAll(g, n)
  ELSE [g EXCEPT !.terminal[n] = m.backup[1]]

RecoverNode(m, g, n) ==
  IF consumer.kind \in {"basic", "nonterm"} THEN FreezeAll(ResetNode(g, n), n)
  ELSE [g EXCEPT !.terminal[n] = m.backup[1]]

WaitForExhaustion ==
  IF consumer.kind \in {"stub", "type"} THEN Max({consumer.runs - 1, -1}) ELSE -1

---------------------------------------------------------------------------
(* The walk.                                                               *)

\* One activation of walk_graph_rec() over `list'.  `set' is the depth of the
\* activation that owns the consumed_nodes it uses, `consumed' those it owns.
\* second: perform_second_step; again: the same node once more; left:
\* max_steps; last: the node was exhausted when the case was given; siblings:
\* original_parent_node_list.
Activation(list, parent, set) ==
  [list |-> list, at |-> 1, parent |-> parent, set |-> set, consumed |-> {},
   pc |-> "enter", second |-> TRUE, again |-> FALSE, left |-> -1,
   last |-> FALSE, siblings |-> {}]

ConsumedNodes == stack[Top.set].consumed

\* __init__() freezes the root, then __iter__() starts.
WalkInit ==
  /\ \E p \in Plans : layout = p.graph /\ consumer = p.consumer
  /\ extras = 0
  /\ LET leaves == DOMAIN Type \ DOMAIN layout
         g == [nonterm |-> [n \in DOMAIN layout |-> New(layout[n])],
               terminal |-> [t \in leaves |->
                  [type |-> Type[t], cursor |-> FreshCursor(Type[t]),
                   frozen |-> FALSE]]]
     IN \E h \in {IF consumer.kind = "user" THEN g ELSE FreezeAll(g, Root)} :
          nonterm = h.nonterm /\ terminal = h.terminal
  /\ memory = NewMemory
  /\ stack = <<Activation(<<Root>>, Root, 1)>>
  /\ outcome = IF consumer.kind = "user" THEN "none" ELSE "walking"
  /\ given = NoCase /\ shown = {} /\ repeated = {}

\* The new state: of the graph, of the consumer, of the current activation,
\* and the activations it starts.
Continue(g, m, frame, started) ==
  /\ nonterm' = g.nonterm /\ terminal' = g.terminal
  /\ memory' = m
  /\ stack' = [stack EXCEPT ![Len(stack)] = frame] \o started
  /\ UNCHANGED <<layout, extras, consumer, outcome>>

Silent == UNCHANGED <<shown, repeated>> /\ given' = NoCase

\* Step 2 is over.  The consumer had the node reset, or not; it is offered to
\* the consumer again after the reset, or not.
Over(g, m, frame, reset, offered) ==
  Continue(IF reset THEN DoReset(g, Node) ELSE g, m,
           [frame EXCEPT !.pc = "after", !.again = reset, !.second = offered],
           <<>>)

\* _do_if_not_interested(): a node that is not consumed is reset all the same
\* until it is exhausted, and not offered again.
Ignore(g, m, frame) ==
  LET reset == NeedReset(m, g, Node) /\ ~Exhausted(g, Node)
  IN Over(g, AfterNeedReset(m, g, Node), frame, reset, FALSE)

\* Step 1.
Enter ==
  /\ Top.pc = "enter" /\ Top.at <= Len(Top.list)
  /\ Silent
  /\ \E g \in {FreezeAll(Graph, Node)} :
       LET children == IF IsNonTerm(Node) THEN Present(g, Node) ELSE <<>>
       IN Continue(g, memory, [Top EXCEPT !.pc = "offer"],
                   IF children = <<>> THEN <<>>
                   ELSE <<Activation(children, Node, Top.set)>>)

\* Step 2 starts: the consumer takes the node, unless it had it already.
Siblings(parent) == IF IsNonTerm(parent) THEN Range(Present(Graph, parent)) ELSE {}

Consumed(frame) ==
  LET s == [stack EXCEPT ![Len(stack)] =
              [frame EXCEPT !.pc = "loop", !.left = WaitForExhaustion]]
  IN [s EXCEPT ![Top.set].consumed = @ \union {Node}]

Offer ==
  /\ Top.pc = "offer" /\ Top.second
  /\ Silent
  /\ \E c \in {IF InterestedBy(Node) /\ Node \notin ConsumedNodes
               THEN SaveAndConsume(memory, Graph, Node)
               ELSE Refused(memory, Graph)} :
       LET frame == [Top EXCEPT !.siblings = Siblings(Top.parent)]
       IN IF ~c.ok THEN Ignore(c.graph, c.memory, frame)
          ELSE /\ \E g \in {FreezeAll(c.graph, Node)} :
                    nonterm' = g.nonterm /\ terminal' = g.terminal
               /\ memory' = c.memory
               /\ stack' = Consumed(frame)
               /\ UNCHANGED <<layout, extras, consumer, outcome>>

\* Faulty: a node that wants it is reset for ever.
OnceMore(reset) == reset
NotYetExhausted(reset) == reset /\ ~Exhausted(Graph, Node)

\* Step 2 is skipped after the reset of a node that was not consumed: the node
\* is reset until it is exhausted, and once more to go back to its first value.
Skip ==
  /\ Top.pc = "offer" /\ ~Top.second
  /\ Silent
  /\ LET reset == NeedReset(memory, Graph, Node)
         m == AfterNeedReset(memory, Graph, Node)
         more == NotYetExhausted(reset)
     IN Continue(IF reset THEN DoReset(Graph, Node) ELSE Graph, m,
                 [Top EXCEPT !.pc = "after", !.again = more], <<>>)

\* A consumed node that the consumer wants reset.
Reset ==
  /\ Top.pc = "loop"
  /\ NeedReset(memory, Graph, Node)
  /\ Silent
  /\ LET more == ~Exhausted(Graph, Node)
     IN Over(Graph, AfterNeedReset(memory, Graph, Node), Top, more, more)

\* A case: the data is the value of the whole graph.  __iter__() drops it when
\* the node is not part of it.
Case(g) ==
  [node |-> Node, value |-> ValueOf(g, Root),
   structures |-> {<<n, g.nonterm[n].frozen>> :
                     n \in Reachable(g, Root) \intersect DOMAIN layout}]

Give ==
  /\ Top.pc = "loop"
  /\ ~NeedReset(memory, Graph, Node)
  /\ \E g \in {FreezeAll(Graph, Root)} :
       /\ Continue(g, AfterNeedReset(memory, Graph, Node),
                   [Top EXCEPT !.pc = "shown", !.last = Exhausted(Graph, Node)],
                   <<>>)
       /\ IF Node \in Reachable(g, Root)
          THEN /\ given' = Case(g)
               /\ shown' = shown \union {given'}
               /\ repeated' = repeated \union (shown \intersect {given'})
          ELSE Silent

\* When siblings count, the structure of the parent is evaluated again.
SideEffects ==
  IF consumer.siblings THEN FreezeAll(UndoAll(Graph, Top.parent), Top.parent)
  ELSE Graph

\* The walk is resumed.  The children that were not there before the side
\* effects are walked first; the node must still be one of them.
Shown ==
  /\ Top.pc = "shown"
  /\ Silent
  /\ \E g \in {IF IsNonTerm(Top.parent) THEN SideEffects ELSE Graph} :
       LET children == IF IsNonTerm(Top.parent) THEN Present(g, Top.parent)
                       ELSE <<>>
           frame == [Top EXCEPT !.pc = "next"]
           others == SelectSeq(children, LAMBDA c : c # Node)
       IN IF ~consumer.siblings \/ children = <<>> \/ Range(children) = Top.siblings
          THEN Continue(g, memory, frame, <<>>)
          ELSE IF Node \in Range(children)
          THEN Continue(g, memory, frame,
                        <<Activation(others, Top.parent, Top.set)>>)
          ELSE /\ outcome' = "failed"
               /\ nonterm' = g.nonterm /\ terminal' = g.terminal
               /\ UNCHANGED <<layout, extras, consumer, memory, stack>>

\* The node has more: its next value, or after the last one the next
\* consumption; else it is recovered.
Resume ==
  /\ Top.pc = "next"
  /\ Silent
  /\ IF Top.last /\ ~StillInterestedBy(memory)
     THEN \E g \in {RecoverNode(memory, Graph, Node)} : Ignore(g, memory, Top)
     ELSE \E c \in {IF Top.last THEN SaveAndConsume(memory, Graph, Node)
                    ELSE Taken(memory, Graph)} :
       IF Top.left # 0
       THEN \E g \in {FreezeAll(IF Top.last THEN c.graph
                                ELSE UnfreezeNode(Graph, Node), Node)} :
              Continue(g, c.memory,
                       [Top EXCEPT !.pc = "loop",
                                   !.left = IF @ > 0 THEN @ - 1 ELSE @], <<>>)
       ELSE \E g \in {RecoverNode(c.memory, c.graph, Node)} :
              LET asked == ~Exhausted(g, Node)
                  reset == asked /\ NeedReset(c.memory, g, Node)
              IN Over(g, IF asked THEN AfterNeedReset(c.memory, g, Node)
                         ELSE c.memory, Top, reset, ~reset)

\* The structure of the graph is about to change: the nodes on the left are
\* walked again with it, and all nodes may be consumed again.
\* Faulty: only the nodes on the left are.
StillConsumed(frame) == frame
NoneConsumed(frame) == [frame EXCEPT !.set = Len(stack), !.consumed = {}]

After ==
  /\ Top.pc = "after"
  /\ Silent
  /\ \E g \in {SideEffects} :
     LET changed == IsNonTerm(Node) /\ ~Exhausted(g, Node)
         same == IF changed THEN NoneConsumed(Top) ELSE Top
         next == IF Top.again THEN [same EXCEPT !.pc = "enter"]
                 ELSE [same EXCEPT !.pc = "enter", !.second = TRUE, !.at = @ + 1]
         left == SubSeq(Top.list, 1, Top.at - 1)
     IN Continue(g, memory, next,
                 IF changed /\ consumer.deep
                 THEN <<Activation(left, Top.parent, Len(stack) + 1)>> ELSE <<>>)

\* The list is over: back to the activation that started this one.
Return ==
  /\ Top.pc = "enter" /\ Top.at > Len(Top.list)
  /\ Silent
  /\ outcome' = IF Len(stack) = 1 THEN "ended" ELSE outcome
  /\ stack' = IF Len(stack) = 1 THEN stack ELSE Front(stack)
  /\ UNCHANGED <<layout, extras, consumer, nonterm, terminal, memory>>

Walk ==
  /\ outcome = "walking"
  /\ \/ Enter \/ Offer \/ Skip \/ Reset \/ Give \/ Shown \/ Resume \/ After
     \/ Return

\* The root used without a walker.
Use ==
  /\ consumer.kind = "user"
  /\ Next
  /\ UNCHANGED <<consumer, terminal, memory, stack, outcome, history>>

\* A walk that is over stays over.
Done == outcome \in {"ended", "failed"} /\ UNCHANGED walkVars

WalkNext == Walk \/ Use \/ Done

\* Whoever takes the cases goes on until there are none left.
WalkSpec == WalkInit /\ [][WalkNext]_walkVars /\ WF_walkVars(Walk)

---------------------------------------------------------------------------
(* What a walk gives.                                                      *)

\* The structures a node goes through: every list of children with the
\* default forms, and with one child in another form.
Structures(l) ==
  UNION {{Given(list, [l.default EXCEPT ![c] = q]) : q \in Range(Forms(l, c))} :
           <<list, c>> \in Lists(l) \X Child}

\* What is to be shown of a terminal node: all values of its type, or of the
\* types put in its place.  NodeConsumerStub leaves a single value aside.
Wanted(t) ==
  LET values == Promised(Type[t])
  IN CASE consumer.kind = "type" ->
            UNION {Promised(v) : v \in Range(FuzzedTypes[t])}
       [] consumer.kind = "stub" /\ Cardinality(values) = 1 -> {}
       [] OTHER -> values

IsShown(n, structure, t, v) ==
  \E case \in shown : /\ <<n, structure>> \in case.structures
                      /\ <<t, <<v>>>> \in Range(case.value)
                      /\ consumer.kind = "type" => case.node = t

TerminalsIn(structure) ==
  {entry[1] : entry \in {e \in Range(structure) : IsPresent(e) /\ ~IsNonTerm(e[1])}}

\* The terminal nodes on the left of n under the same parent.
LeftOf(n) ==
  {t \in DOMAIN terminal :
     \E l \in Range(layout) : \E list \in Lists(l) : \E k \in 1..Len(list) :
       list[k] = n /\ t \in Range(SubSeq(list, 1, k - 1))}

\* "We walk through all states of the model" (fuzzing_primitives.py:45): when
\* the walk ends, every structure of every non-terminal node was shown, with
\* all the values of the terminal nodes it is made of, whatever was consumed,
\* reset and recovered before; and in a deep walk with all the values of the
\* nodes on its left too.
AllStatesShown ==
  outcome = "ended" /\ consumer.runs = -1 =>
    \A n \in DOMAIN layout : \A structure \in Structures(layout[n]) :
      IF consumer.kind = "nonterm"
      THEN \E case \in shown : <<n, structure>> \in case.structures
      ELSE \A t \in TerminalsIn(structure)
                      \union IF consumer.deep THEN LeftOf(n) ELSE {} :
             \A v \in Wanted(t) : IsShown(n, structure, t, v)

\* No node is consumed twice with the same data, although all nodes may be
\* consumed again each time that a structure changes.
NoCaseTwice == repeated = {}

\* A walk shows each case that it has to, and shows it once: see the two parts above
\* (fuzzing_primitives.py:118-310).
EveryCaseOnce == AllStatesShown /\ NoCaseTwice

\* In each case all terminal nodes but the one consumed have their default
\* value: what was tried on a node never stays in the cases of another one.
OthersAtDefault ==
  \A entry \in Range(given.value) :
    LET type == Type[entry[1]]
    IN entry[1] # given.node =>
         entry[2] = Draw(type, FreshCursor(type)).drawn

\* The walk ends: the disruptors hand over at its end, and tutorial.rst:362
\* sends all its cases with send_loop -1.
WalkEnds == outcome = "walking" ~> outcome = "ended"

=============================================================================
