----------------------------- MODULE NodeShape -----------------------------
(***************************************************************************)
(* The structure enumeration of a non-terminal node (node.py,              *)
(* NodeInternals_NonTerm), in determinist and finite mode, the mode every  *)
(* ModelWalker puts the graph in.                                          *)
(*                                                                         *)
(* A node has shapes, taken by decreasing weight.  A shape is a sequence   *)
(* of sections: an ordered section is one child, a pick section offers     *)
(* alternatives.  Each child has up to three forms: the number of its      *)
(* copies, default, then maximum, then minimum.  Each freeze of the        *)
(* unfrozen node gives the next structure, a sequence of <<child, number   *)
(* of copies>>, until the node says that it is exhausted.                  *)
(*                                                                         *)
(* Cursors and indices start at 1 here, at 0 in the code.                  *)
(***************************************************************************)
EXTENDS Integers, Sequences, FiniteSets, FiniteSetsExt, SequencesExt

CONSTANTS
  Child,          \* the nodes below the non-terminal ones
  Layouts,        \* the graphs considered, one LayoutType per non-terminal node
  Reevaluated,    \* the modes of the nodes that are re-evaluated
  MaxReevals,     \* bound: re-evaluations of one structure
  MaxExtras       \* bound: resets and copies in a behaviour

Custo == {"normal", "full", "stick"}

LayoutType ==
  [shapes: Seq(Seq(Seq(Child))), min: [Child -> Nat], max: [Child -> Nat],
   default: [Child -> Nat], custo: Custo]

ASSUME LayoutAssumption ==
  \A g \in Layouts : \A l \in Range(g) :
    /\ l \in LayoutType
    /\ l.shapes # <<>>
    /\ \A s \in Range(l.shapes) : s # <<>> /\ \A k \in Range(s) : k # <<>>
    /\ \A c \in Child : l.min[c] <= l.default[c] /\ l.default[c] <= l.max[c]

ASSUME BoundAssumption ==
  Reevaluated \subseteq Custo /\ MaxReevals \in Nat /\ MaxExtras \in Nat

VARIABLES
  layout,      \* the definition of each non-terminal node; never changes
  nonterm,     \* the state of each non-terminal node: see below
  extras       \* history: resets and copies so far

vars == <<layout, nonterm, extras>>

\* The state of a non-terminal node:
\*   frozen      frozen_node_list, None when unfrozen
\*   flat        current_flattened_nodelist, None before the first freeze
\*   excluded    excluded_components: the heaviest `excluded' shapes
\*   shapesDone  exhausted_shapes
\*   comboDone   combinatory_complete
\*   pick        exhausted_pick_cases, current_pick_section,
\*               current_picked_node_idx
\*   cursor      cursor_min, cursor_maj
\*   previous    previous_cursor_min, previous_cursor_maj
\*   attrs       subnodes_attrs: the progress in the forms of each child
\* and its history:
\*   seen        the structures given since the walk (re)started
\*   lastLap     `seen' when the node was last exhausted
\*   expected    the structure a re-evaluation has to give back
\*   reevals     re-evaluations of the current structure

None == <<>>      \* no structure: every structure has at least one entry
NoQty == -1       \* _current_qty is None

---------------------------------------------------------------------------
(* NodeAttrs: the forms of one child.                                      *)

\* qty_sequence, popped from the end: the default comes first.
Forms(l, c) ==
  (IF l.min[c] # l.default[c] THEN <<l.min[c]>> ELSE <<>>)
    \o (IF l.max[c] # l.default[c] THEN <<l.max[c]>> ELSE <<>>)
    \o <<l.default[c]>>

\* reset(): the sequence is rebuilt when it is next read.
Fresh(l, c) ==
  [seq |-> Forms(l, c), current |-> NoQty, previous |-> NoQty,
   exhausted |-> FALSE, planned |-> FALSE]

NextQty(a) ==
  [a EXCEPT !.seq = Front(a.seq), !.previous = a.current,
            !.current = Last(a.seq), !.exhausted = Len(a.seq) = 1]

\* the property current_qty: reading it draws the first form.
CurrentQty(a) == IF a.current = NoQty THEN NextQty(a) ELSE a

\* Faulty: the form is not put back on the sequence.
UnrollHalf(l, c, a) ==
  [a EXCEPT !.current = a.previous, !.exhausted = FALSE, !.planned = FALSE,
            !.seq = IF a.exhausted THEN <<Forms(l, c)[1]>> ELSE a.seq]

Unroll(l, c, a) ==
  [a EXCEPT !.seq = IF a.exhausted THEN <<Forms(l, c)[1]>>
                    ELSE IF a.current # NoQty THEN Append(a.seq, a.current)
                    ELSE a.seq,
            !.exhausted = FALSE,
            !.current = a.previous,
            !.planned = FALSE]

---------------------------------------------------------------------------
(* compute_next_shape(): the children of the next shape, one alternative   *)
(* per pick section.  One pick section at a time goes through its          *)
(* alternatives while the others stay on their first one.                  *)

IsPick(section) == Len(section) > 1
Picks(shape) == SelectSeq(shape, IsPick)
PickRank(shape, i) == Cardinality({j \in 1..i : IsPick(shape[j])})

\* Faulty: one alternative too early.
LastPickedEarly(section, index) == index + 2 > Len(section)
LastPicked(section, index) == index + 1 > Len(section)

\* The first alternative of the next section was already shown.
NextSectionStart == 2

NextShape(l, s) ==
  LET pick == s.pick
      index == (IF pick.done THEN s.excluded ELSE s.excluded - 1) + 1
      shape == l.shapes[index]
      picks == Picks(shape)
      chosen(i) == IF IsPick(shape[i]) /\ PickRank(shape, i) = pick.section
                   THEN shape[i][pick.index] ELSE shape[i][1]
      turned == LastPicked(picks[pick.section], pick.index)
      over == turned /\ pick.section = Len(picks)
      next == IF picks = <<>> THEN pick
              ELSE IF over THEN [done |-> TRUE, section |-> 1, index |-> 1]
              ELSE IF turned
              THEN [done |-> FALSE, section |-> pick.section + 1,
                    index |-> NextSectionStart]
              ELSE [done |-> FALSE, section |-> pick.section,
                    index |-> pick.index + 1]
  IN [nodes |-> [i \in 1..Len(shape) |-> chosen(i)],
      excluded |-> index,
      pick |-> next,
      shapesDone |-> index = Len(l.shapes) /\ next.done]

---------------------------------------------------------------------------
(* The pass of get_subnodes_with_csts() over the children: the one under   *)
(* the cursor takes its next form, the others keep theirs.                 *)

Unfinished(nodes, as, lo, hi) ==
  {j \in lo..hi : ~as[nodes[j]].exhausted}

\* Default mode: the child under the cursor goes through its forms, then the
\* cursor moves right and the children it leaves go back to their default.
NormalAtCursor(nodes, p, i) ==
  LET n == Len(nodes)
      fresh == p.attrs[nodes[i]].current = NoQty
      read == CurrentQty(p.attrs[nodes[i]])
      moved == IF read.exhausted \/ fresh THEN read ELSE NextQty(read)
      as == [p.attrs EXCEPT ![nodes[i]] = moved]
      rest == Unfinished(nodes, as, p.cursor.min, n)
      q == [p EXCEPT !.attrs = as]
  IN IF read.exhausted
     THEN [q EXCEPT !.cursor.min = @ + 1,
                    !.comboDone = @ \/ p.cursor.min + 1 > n]
     ELSE IF ~moved.exhausted THEN q
     ELSE IF rest = {} THEN [q EXCEPT !.comboDone = TRUE]
     ELSE [q EXCEPT !.next.min = Min(rest), !.reset = TRUE]

\* Full combinatory mode: children left of the major cursor go through all
\* their combinations for each form of the child under the major cursor.
FullAtCursor(nodes, p, i) ==
  LET n == Len(nodes)
      fresh == p.attrs[nodes[i]].current = NoQty
      read == CurrentQty(p.attrs[nodes[i]])
      moved == IF read.exhausted \/ fresh THEN read ELSE NextQty(read)
      as == [p.attrs EXCEPT ![nodes[i]] = moved]
      q == [p EXCEPT !.attrs = as]
      min == p.cursor.min
      maj == p.cursor.maj
      onLeft == Unfinished(nodes, as, 1, maj - 1)
      onRight == Unfinished(nodes, as, maj, n)
  IN IF read.exhausted
     THEN [q EXCEPT
             !.cursor.min = min + 1,
             !.cursor.maj = IF \/ min + 1 = maj /\ onRight # {}
                               \/ min + 1 > maj /\ maj < n
                            THEN maj + 1 ELSE maj,
             !.comboDone = \/ @
                           \/ min + 1 = maj /\ onRight = {}
                           \/ min + 1 > maj /\ maj = n]
     ELSE IF ~moved.exhausted THEN [q EXCEPT !.next.min = 1]
     ELSE IF min = maj
     THEN IF maj = n THEN [q EXCEPT !.next.min = 1]
          ELSE [q EXCEPT !.next.maj = maj + 1,
                         !.next.min = IF min > 1 THEN 1 ELSE min + 1,
                         !.reset = @ \/ min = 1]
     ELSE IF onLeft # {}
     THEN [q EXCEPT !.next.min = Min(onLeft), !.reset = TRUE]
     ELSE IF onRight # {}
     THEN [q EXCEPT !.next.min = Min(onRight), !.next.maj = Min(onRight),
                    !.reset = TRUE]
     ELSE [q EXCEPT !.comboDone = TRUE]

\* _construct_subnodes(): one node per copy, the first one being the child
\* itself; a structure only records how many there are.
Built(child, qty) == <<child, qty>>

Noted(child, p) == [p EXCEPT !.given = Append(@, Built(child, p.attrs[child].current))]

PassOver(l, nodes, p, i) ==
  Noted(nodes[i],
        IF i # p.cursor.min THEN [p EXCEPT !.attrs[nodes[i]] = CurrentQty(@)]
        ELSE IF l.custo = "full" THEN FullAtCursor(nodes, p, i)
        ELSE NormalAtCursor(nodes, p, i))

Pass(l, nodes, p) ==
  FoldLeft(LAMBDA q, i : PassOver(l, nodes, q, i), p,
           [i \in 1..Len(nodes) |-> i])

---------------------------------------------------------------------------
(* What the methods of the node do to its state.                           *)

IsExhausted(l, s) ==
  s.shapesDone /\ (l.custo = "stick" \/ s.comboDone)

InitialAttrs(l) == [c \in Child |-> Fresh(l, c)]
NoPick == [done |-> TRUE, section |-> 1, index |-> 1]
Start == [min |-> 1, maj |-> 1]

New(l) ==
  [frozen |-> None, flat |-> None, excluded |-> 0, shapesDone |-> FALSE,
   comboDone |-> TRUE, pick |-> NoPick, cursor |-> Start, previous |-> Start,
   attrs |-> InitialAttrs(l),
   seen |-> <<>>, lastLap |-> <<>>, expected |-> None, reevals |-> 0]

\* The children in `nodes' start their forms again before the next pass.
Planned(as, nodes) ==
  [c \in Child |-> IF c \in Range(nodes) THEN [as[c] EXCEPT !.planned = TRUE]
                   ELSE as[c]]
PlannedResets(l, as, nodes) ==
  [c \in Child |-> IF c \in Range(nodes) /\ as[c].planned
                   THEN Fresh(l, c) ELSE as[c]]

\* The node after the pass `end' over its children.
Passed(l, s, end) ==
  LET n == Len(s.flat)
      next(k) == IF end.next[k] # 0 THEN end.next[k] ELSE end.cursor[k]
      again == IF end.comboDone \/ l.custo = "stick" THEN s.flat
               ELSE IF end.reset THEN SubSeq(s.flat, 1, next("min") - 1)
               ELSE <<>>
  IN [s EXCEPT
        !.comboDone = end.comboDone,
        !.previous = [k \in {"min", "maj"} |-> Min({end.cursor[k], n})],
        !.cursor = [k \in {"min", "maj"} |-> next(k)],
        !.attrs = Planned(end.attrs, again),
        !.frozen = end.given,
        !.seen = IF s.expected = None THEN Append(@, end.given) ELSE @]

\* The next list of children is taken.
Renewed(s, shape) ==
  [s EXCEPT !.flat = shape.nodes, !.excluded = shape.excluded,
            !.pick = shape.pick, !.shapesDone = shape.shapesDone]

\* get_subnodes_with_csts() of an unfrozen node.
Frozen(l, s) ==
  LET start == s.comboDone \/ l.custo = "stick"
      pass(r) == Pass(l, r.flat, [attrs |-> PlannedResets(l, r.attrs, r.flat),
                                  cursor |-> IF start THEN Start ELSE r.cursor,
                                  next |-> [min |-> 0, maj |-> 0],
                                  comboDone |-> FALSE,
                                  reset |-> FALSE, given |-> <<>>])
      over(r) == Passed(l, r, pass(r))
  IN over(IF start \/ s.flat = None THEN Renewed(s, NextShape(l, s)) ELSE s)

\* Past exhaustion the shapes are available again: the walk starts over.
Available(s) == IF s.shapesDone THEN 0 ELSE s.excluded

\* unfreeze(): the next freeze gives the next structure.
Unfrozen(l, s) ==
  [s EXCEPT !.frozen = None,
            !.excluded = Available(s),
            !.expected = None, !.reevals = 0,
            !.lastLap = IF IsExhausted(l, s) THEN s.seen ELSE @,
            !.seen = IF IsExhausted(l, s) THEN <<>> ELSE @]

\* unfreeze(reevaluate_constraints=True): back to the state before the last
\* freeze, so that the next one gives the same structure for the children that
\* still exist.
Undone(l, s) ==
  LET at == s.flat[s.previous.min]
      undone == [s.attrs EXCEPT ![at] = Unroll(l, at, @)]
  IN IF s.flat = None THEN s
     ELSE [s EXCEPT
             !.comboDone = FALSE,
             !.cursor = s.previous,
             !.attrs = [c \in Child |-> IF c \in Range(s.flat)
                                        THEN [undone[c] EXCEPT !.planned = FALSE]
                                        ELSE undone[c]],
             !.excluded = Available(s),
             !.expected = IF s.seen = <<>> THEN None ELSE Last(s.seen),
             !.frozen = None]

---------------------------------------------------------------------------
(* A node used directly: what its users may do, in any order.              *)

Init ==
  /\ layout \in Layouts
  /\ nonterm = [n \in DOMAIN layout |-> New(layout[n])]
  /\ extras = 0

\* freeze() of an unfrozen node.
Freeze(n) ==
  /\ nonterm[n].frozen = None
  /\ nonterm' = [nonterm EXCEPT ![n] = Frozen(layout[n], @)]
  /\ UNCHANGED <<layout, extras>>

Unfreeze(n) ==
  /\ nonterm[n].frozen # None
  /\ nonterm' = [nonterm EXCEPT ![n] = Unfrozen(layout[n], @)]
  /\ UNCHANGED <<layout, extras>>

\* The disruptors do it on the frozen data that the walker gives.
Reevaluate(n) ==
  /\ nonterm[n].frozen # None
  /\ layout[n].custo \in Reevaluated
  /\ nonterm[n].reevals < MaxReevals
  /\ nonterm' = [nonterm EXCEPT ![n] = [Undone(layout[n], @)
                                          EXCEPT !.reevals = @ + 1]]
  /\ UNCHANGED <<layout, extras>>

\* reset_state(): the last flattened list is kept, but not used again.
ResetState(n) ==
  /\ extras < MaxExtras /\ extras' = extras + 1
  /\ nonterm' = [nonterm EXCEPT ![n] = [New(layout[n]) EXCEPT !.flat = nonterm[n].flat]]
  /\ UNCHANGED layout

\* The walk goes on with a copy made with the state of a frozen node:
\* make_private_subnodes() hands over everything the enumeration reads.
CopyFrozen(n) ==
  /\ nonterm[n].frozen # None
  /\ extras < MaxExtras /\ extras' = extras + 1
  /\ UNCHANGED <<layout, nonterm>>

Next ==
  \E n \in DOMAIN layout :
    \/ Freeze(n) \/ Unfreeze(n) \/ Reevaluate(n)
    \/ ResetState(n) \/ CopyFrozen(n)

Spec == Init /\ [][Next]_vars

---------------------------------------------------------------------------
(* What a walk gives.                                                      *)

\* The lists of children a walk goes through, one after the other.
Selections(shape) ==
  LET first == [i \in 1..Len(shape) |-> shape[i][1]]
  IN {[first EXCEPT ![i] = c] : i \in 1..Len(shape), c \in Child}
       \intersect {s \in [1..Len(shape) -> Child] :
                     \A i \in 1..Len(shape) : s[i] \in Range(shape[i])}

Lists(l) == UNION {Selections(s) : s \in Range(l.shapes)}

Given(list, qty) == [i \in 1..Len(list) |-> Built(list[i], qty[list[i]])]

Quantities(l, list) ==
  {q \in [Range(list) -> UNION {Range(Forms(l, c)) : c \in Child}] :
     \A c \in Range(list) : q[c] \in Range(Forms(l, c))}

\* A node is only exhausted when its walk has shown what its mode promises
\* (data_model.rst:181-206): every list of children with the default forms;
\* outside stick-to-default mode every form of every child of every list; in
\* full combinatory mode every combination of the forms.
ExhaustedMeansAllSeen ==
  \A n \in DOMAIN layout :
    LET l == layout[n]
        s == nonterm[n]
    IN s.frozen # None /\ IsExhausted(l, s) =>
         \A list \in Lists(l) :
           /\ Given(list, l.default) \in Range(s.seen)
           /\ l.custo = "normal" =>
                \A i \in 1..Len(list) :
                  \A q \in Range(Forms(l, list[i])) :
                    \E g \in Range(s.seen) : /\ Len(g) = Len(list)
                                             /\ g[i] = Built(list[i], q)
           /\ l.custo = "full" =>
                \A q \in Quantities(l, list) : Given(list, q) \in Range(s.seen)

\* A finite node gives no structure twice before it is exhausted
\* (data_manip.rst:144-148: "to avoid the generation of duplicated data"), so
\* its walk ends, however often it is re-evaluated on the way.  In full
\* combinatory mode one structure per list of children may come twice: the
\* last one, when a single child has several forms.
NothingTwice ==
  \A n \in DOMAIN layout :
    LET s == nonterm[n]
    IN Len(s.seen) - Cardinality(Range(s.seen))
         <= IF layout[n].custo = "full" THEN Cardinality(Lists(layout[n])) ELSE 0

\* Past exhaustion the walk is the same again, structure by structure, whatever
\* was re-evaluated in between: no state is left from the previous one.
LapsAgree ==
  \A n \in DOMAIN layout :
    nonterm[n].lastLap # <<>> => IsPrefix(nonterm[n].seen, nonterm[n].lastLap)

\* A walk of a node shows all that it promises and nothing twice before it says that it
\* is exhausted, and does so again at each lap: see the three parts above
\* (node.py:4871-5023).
LapsAreComplete == ExhaustedMeansAllSeen /\ NothingTwice /\ LapsAgree

\* A re-evaluated node gives back the structure it had, and is exhausted when
\* it was (the purpose stated by the comment at node.py:4857).
ReevaluationKeepsStructure ==
  \A n \in DOMAIN layout :
    nonterm[n].expected # None /\ nonterm[n].frozen # None =>
      nonterm[n].frozen = nonterm[n].expected

=============================================================================
