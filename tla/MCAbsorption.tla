---------------------------- MODULE MCAbsorption ----------------------------
(* Small nodes and all their short data for Absorption.                    *)
EXTENDS Absorption

CONSTANTS a, b, c, d, x, y, z, filler, dash

MCChild == {a, b, c, d}
MCSymbols == {x, y, z, filler, dash}
MaxLen == 4
MCMaxCopies == 5

\* a, b and c read a symbol of their own, d is free.
Plain ==
  [shapes |-> << <<[kind |-> "ordered", nodes |-> <<a, b>>]>> >>,
   min |-> [k \in MCChild |-> 1], max |-> [k \in MCChild |-> 1],
   symbol |-> [k \in MCChild |-> CASE k = a -> x [] k = b -> y [] k = c -> z
                                   [] OTHER -> Nobody],
   lo |-> [k \in MCChild |-> 1], hi |-> [k \in MCChild |-> 3],
   sync |-> [k \in MCChild |-> Nobody], when |-> [k \in MCChild |-> Nobody],
   unless |-> [k \in MCChild |-> Nobody], postponed |-> {},
   separator |-> [symbol |-> Nobody, prefix |-> FALSE, suffix |-> FALSE,
                  always |-> FALSE]]

Sec(kind, nodes) == [kind |-> kind, nodes |-> nodes]

\* Each kind of section, alone, before another one, and in two shapes.
Shapes ==
  {<< <<Sec("ordered", <<a, b, c>>)>> >>,
   << <<Sec("random", <<a, b>>), Sec("ordered", <<c>>)>> >>,
   << <<Sec("random", <<a, b, c>>)>> >>,
   << <<Sec("mixed", <<a, b>>), Sec("ordered", <<c>>)>> >>,
   << <<Sec("mixed", <<c, b, a>>)>> >>,
   << <<Sec("pick", <<a, b>>), Sec("ordered", <<c>>)>> >>,
   << <<Sec("ordered", <<a>>), Sec("weighted pick", <<c, b>>)>> >>,
   << <<Sec("ordered", <<a, b>>)>>, <<Sec("ordered", <<a, c>>)>> >>,
   << <<Sec("random", <<b, a>>)>>, <<Sec("mixed", <<a, b, c>>)>> >>}

Quantified(g) ==
  {[g EXCEPT !.min = [@ EXCEPT ![a] = qa[1], ![b] = qb[1]],
             !.max = [@ EXCEPT ![a] = qa[2], ![b] = qb[2]]] :
     qa \in {<<1, 1>>, <<0, 1>>, <<1, 2>>, <<2, Unlimited>>},
     qb \in {<<1, 1>>, <<0, 2>>}}

\* c has its quantity from a, or exists with a, or without a; or b exists with c.
Conditioned(g) ==
  {g, [g EXCEPT !.sync[c] = a], [g EXCEPT !.when[c] = a],
   [g EXCEPT !.unless[c] = a], [g EXCEPT !.when[b] = c]}

Structured ==
  UNION {UNION {Conditioned(q) : q \in Quantified([Plain EXCEPT !.shapes = s])} :
           s \in Shapes}

\* A free child before, between and after others, postponed or not.
FreeShapes ==
  {<< <<Sec("ordered", <<d, a, b>>)>> >>,
   << <<Sec("ordered", <<a, d, b>>)>> >>,
   << <<Sec("ordered", <<a, b, d>>)>> >>,
   << <<Sec("ordered", <<d>>), Sec("pick", <<a, b>>)>> >>,
   << <<Sec("pick", <<d, a>>), Sec("ordered", <<b>>)>> >>,
   << <<Sec("ordered", <<a, d, b>>)>>, <<Sec("ordered", <<d, a>>)>> >>}

Free ==
  UNION {UNION {{[g EXCEPT !.postponed = p, !.lo[d] = l] :
                   g \in Quantified([Plain EXCEPT !.shapes = s])} :
                  s \in FreeShapes} : p \in {{}, {d}}, l \in {0, 1}}

Separators ==
  {[symbol |-> dash, prefix |-> p, suffix |-> s, always |-> w] :
     p \in BOOLEAN, s \in BOOLEAN, w \in BOOLEAN}

Separated ==
  UNION {{[g EXCEPT !.separator = p] :
            g \in Quantified([Plain EXCEPT !.shapes = s])} :
           s \in {<< <<Sec("ordered", <<a, b>>)>> >>,
                  << <<Sec("mixed", <<a, b>>)>> >>,
                  << <<Sec("ordered", <<a, b>>)>>, <<Sec("ordered", <<a>>)>> >>},
           p \in Separators}

MCGrammars == Structured \union Free \union Separated

\* The symbols that matter to a node, and the data made of them.
Alphabet(g) ==
  IF g \in Free THEN {x, y, filler}
  ELSE IF g \in Separated THEN {x, y, dash} ELSE {x, y, z}

MCRawData(g) == UNION {[1..n -> Alphabet(g)] : n \in 0..MaxLen}

=============================================================================
