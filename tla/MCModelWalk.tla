---------------------------- MODULE MCModelWalk ----------------------------
(* Small graphs for NodeShape and ModelWalk.                               *)
EXTENDS ModelWalk

CONSTANTS a, b, c, d, e, f, i, j, root

MCChild == {a, b, c, d, e, f, i, j}

\* The quantities of a child: minimum, maximum, default.
Fixed == <<1, 1, 1>>
Optional == <<0, 1, 1>>
Spread == <<0, 3, 2>>

Shaped(shapes, qty, custo) ==
  [shapes |-> shapes, custo |-> custo,
   min |-> [k \in MCChild |-> qty[k][1]],
   max |-> [k \in MCChild |-> qty[k][2]],
   default |-> [k \in MCChild |-> qty[k][3]]]

---------------------------------------------------------------------------
(* A root used directly: one, two or three ordered children, a pick        *)
(* between others, two picks, two shapes that share a child.               *)

ShapeLists ==
  {<< << <<a>> >> >>,
   << << <<a>>, <<b>> >> >>,
   << << <<a>>, <<b>>, <<c>> >> >>,
   << << <<a>>, <<d>>, <<b>>, <<c>> >> >>,
   << << <<a>>, <<b, c, d>> >> >>,
   << << <<a, b>>, <<c, d>> >> >>,
   << << <<a, b>>, <<c>> >>, << <<c>>, <<d>> >> >>}

Quantified ==
  {q \in [MCChild -> {Fixed, Optional, Spread}] :
     \A k \in MCChild \ {a, b, c} : q[k] = Fixed}

UsedGraphs ==
  {[n \in {root} |-> Shaped(s, q, m)] : s \in ShapeLists, q \in Quantified, m \in Custo}

Default == {"normal"}

---------------------------------------------------------------------------
(* Graphs that are walked.                                                 *)

\* The children of a node, one after the other, some of them optional.
All(children, optional) ==
  Shaped(<<[k \in 1..Len(children) |-> <<children[k]>>]>>,
         [k \in MCChild |-> IF k \in optional THEN Optional ELSE Fixed],
         "normal")

Flat(children, optional) == [n \in {root} |-> All(children, optional)]

\* The root, with i below it.
Nested(children, optional, below, optionalBelow) ==
  [n \in {root, i} |-> IF n = root THEN All(children, optional)
                       ELSE All(below, optionalBelow)]

\* The root, with i and j below it.
TwoNested(children, belowI, optionalI, belowJ, optionalJ) ==
  [n \in {root, i, j} |-> CASE n = root -> All(children, {})
                            [] n = i -> All(belowI, optionalI)
                            [] n = j -> All(belowJ, optionalJ)]

MCType ==
  [t \in {a, b, c, d, e, f} |->
     CASE t = a -> [kind |-> "int", values |-> <<1, 2, 3>>]
       [] t = b -> [kind |-> "string", values |-> <<11, 12>>]
       [] t = c -> [kind |-> "string", values |-> <<21, 22>>]
       [] t = d -> [kind |-> "range", low |-> 0, high |-> 5, first |-> 3]
       [] t = e -> [kind |-> "bits", last |-> <<2, 1, 2>>, first |-> <<0, 0, 1>>]
       [] t = f -> [kind |-> "string", values |-> <<31>>]]

MCFuzzedTypes ==
  [t \in {a, b, c, d, e, f} |->
     IF t = e THEN <<[kind |-> "bits", last |-> <<3, 0, 1>>, first |-> <<0, 0, 0>>]>>
     ELSE <<[kind |-> "int", values |-> <<7, 8>>],
            [kind |-> "string", values |-> <<9>>]>>]

\* Every node has one structure.
SteadyGraphs ==
  {Flat(<<a, b>>, {}), Flat(<<f, a, d>>, {}), Flat(<<e>>, {}),
   Nested(<<a, i>>, {}, <<b, c>>, {})}

ChangingGraphs ==
  {Flat(<<a, b>>, {b}), Flat(<<a, b>>, {a}), Flat(<<a, b>>, {a, b}),
   [n \in {root} |-> Shaped(<< << <<a>>, <<b>> >>, << <<c>> >> >>,
                            [k \in MCChild |-> Fixed], "normal")],
   [n \in {root} |-> Shaped(<< << <<a>>, <<b, c>> >> >>,
                            [k \in MCChild |-> Fixed], "normal")],
   Nested(<<a, i>>, {}, <<b, c>>, {c}), Nested(<<i, a>>, {}, <<b, c>>, {c}),
   Nested(<<a, i>>, {i}, <<b, c>>, {c}), Nested(<<f, i>>, {}, <<c, b>>, {b}),
   TwoNested(<<i, j>>, <<b>>, {b}, <<c>>, {c}),
   TwoNested(<<i, j>>, <<a, b>>, {b}, <<c>>, {c}),
   TwoNested(<<a, i>>, <<b, j>>, {j}, <<c, f>>, {c})}

WalkedGraphs == SteadyGraphs \union ChangingGraphs

Consumers ==
  [kind: {"stub", "basic", "nonterm", "type"}, runs: {-1, 2}, deep: BOOLEAN,
   siblings: {FALSE}]

WithSiblings(k) == [k EXCEPT !.siblings = TRUE]

\* tWALK as it is called by default.
Walker == [kind |-> "basic", runs |-> -1, deep |-> TRUE, siblings |-> TRUE]

User == [kind |-> "user", runs |-> -1, deep |-> TRUE, siblings |-> FALSE]

MCLayouts == UsedGraphs \union WalkedGraphs

MCPlans ==
  {[graph |-> g, consumer |-> User] : g \in UsedGraphs}
    \union {[graph |-> g, consumer |-> k] : g \in WalkedGraphs, k \in Consumers}
    \union {[graph |-> g, consumer |-> WithSiblings(k)] :
              g \in SteadyGraphs, k \in Consumers}

\* Two children, one of them optional.
SiblingPlans == {[graph |-> Flat(<<a, b>>, {b}), consumer |-> Walker]}

\* The fairness of WalkSpec spelled out, Walk being enabled as long as the walk
\* goes on (else the run would find a deadlock): ENABLED Walk takes TLC minutes.
MCWalkSpec ==
  /\ WalkInit /\ [][WalkNext]_walkVars
  /\ []<>(outcome # "walking") \/ []<><<Walk>>_walkVars

=============================================================================
