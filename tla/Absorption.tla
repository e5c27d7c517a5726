----------------------------- MODULE Absorption -----------------------------
(***************************************************************************)
(* How a non-terminal node absorbs raw data (node.py,                      *)
(* NodeInternals_NonTerm.absorb): its shapes are tried by decreasing       *)
(* weight; a shape is a sequence of sections, and each section offers what *)
(* is left of the data to its children, in its own order.  Nothing is ever *)
(* tried again but whole shapes.                                           *)
(*                                                                         *)
(* The children are terminal nodes.  A child reads one symbol of its own,  *)
(* or, when it is free, between lo and hi symbols whatever they are.       *)
(***************************************************************************)
EXTENDS Integers, Sequences, FiniteSets, FiniteSetsExt, SequencesExt

CONSTANTS
  Child,      \* the children
  Nobody,     \* no child
  Symbols,    \* what raw data is made of
  Filler,     \* the symbol that free children are filled with
  MaxCopies,  \* bound: copies in the structures that a shape describes
  Grammars,   \* the nodes considered: see GrammarType
  RawData(_)  \* the data tried on each of them

Unlimited == -1    \* no maximum quantity
NotDrawn == -1     \* no entry in env.drawn_node_attrs
Kinds == {"ordered", "random", "mixed", "pick", "weighted pick"}

\* `symbol' is what a child reads, Nobody when it is free; `sync' the child it
\* takes its quantity from; `when' the child whose existence decides of its own
\* (`unless' for exists_if_not); `postponed' the children with Abs_Postpone.
GrammarType ==
  [shapes: Seq(Seq([kind: Kinds, nodes: Seq(Child)])),
   min: [Child -> Nat], max: [Child -> Nat \union {Unlimited}],
   symbol: [Child -> Symbols \union {Nobody}],
   lo: [Child -> Nat], hi: [Child -> Nat],
   sync: [Child -> Child \union {Nobody}],
   when: [Child -> Child \union {Nobody}],
   unless: [Child -> Child \union {Nobody}],
   postponed: SUBSET Child,
   separator: [symbol: Symbols \union {Nobody}, prefix: BOOLEAN,
               suffix: BOOLEAN, always: BOOLEAN]]

\* What the code does not support: a child twice in a shape, two postponed
\* children at a time, a postponed child before an unordered section, endless
\* empty copies.
ASSUME GrammarAssumption ==
  \A g \in Grammars :
    /\ g \in GrammarType
    /\ \A c \in Child : /\ g.max[c] = Unlimited => g.symbol[c] # Nobody
                        /\ g.max[c] # 0
    /\ \A shape \in Range(g.shapes) :
         IsInjective(FlattenSeq([i \in DOMAIN shape |-> shape[i].nodes]))
    /\ Cardinality(g.postponed) <= 1
    /\ g.postponed # {} =>
         \A shape \in Range(g.shapes) : \A s \in Range(shape) :
           s.kind \notin {"random", "mixed"}

ASSUME DataAssumption ==
  /\ Nobody \notin Child /\ Filler \in Symbols /\ MaxCopies \in Nat
  /\ \A g \in Grammars : RawData(g) \subseteq Seq(Symbols)

VARIABLES
  grammar,    \* the node; never changes
  data,       \* the data to absorb; never changes
  pc,         \* "shape", "section", "node", "end", "done"
  tried,      \* abs_excluded_components: shapes tried so far
  section,    \* the section of the shape
  todo,       \* children of the section still to be tried
  turns,      \* random sections: cpt, list_sz
  mix,        \* mixed sections: next_l and next_qty_list, prev_qty_list, stop_cpt
  at,         \* blob, consumed_size, frozen_node_list, drawn_node_attrs
  postponed,  \* postponed_node_desc
  abort,
  status,
  start,      \* history: what `blob' was when the shape was tried first
  made,       \* history: the shapes that describe the data; never changes
  mishaps     \* history: what the code loses on its way, see Mishap

vars == <<grammar, data, pc, tried, section, todo, turns, mix, at, postponed,
          abort, status, start, made, mishaps>>

G == grammar
Shape == G.shapes[tried]

\* moved: a shape is tried on what an aborted one left of the data
\* dropped: an optional child of a random section had its only turn too early
\* settled: a pick is content with an optional alternative that read nothing
\* absent: a child that must not exist is waited for in an unordered section, or
\*         is an alternative
\* forgotten: a quantity that others read is overwritten by a later, void attempt
\* early: the existence or quantity of a child was taken from one not read yet
\* deferred: an alternative of a pick is put off, the others do not replace it
\* empty: there is no data, where a separator is expected
\* greedy: a free child took more than its filling
\* unplaced: a postponed child is given up, or never given anything
Mishap == {"moved", "dropped", "settled", "absent", "forgotten", "early",
           "deferred", "empty", "greedy", "unplaced"}

---------------------------------------------------------------------------
(* Terminal nodes.                                                         *)

Rejected == [off |-> -1, size |-> 0]

\* absorb_auto_helper() and do_absorb() of a string: the place of the first
\* symbol of the child, which need not be the first of the blob; a free child
\* takes as much as it can.
Reads(c, blob) ==
  LET places == {i \in 1..Len(blob) : blob[i] = G.symbol[c]}
      size == Min({G.hi[c], Len(blob)})
  IN IF G.symbol[c] # Nobody
     THEN IF places = {} THEN Rejected
          ELSE [off |-> Min(places) - 1, size |-> 1]
     ELSE IF size < G.lo[c] THEN Rejected ELSE [off |-> 0, size |-> size]

Entry(c, content) == [node |-> c, content |-> content]
Content(entries) == FlattenSeq([i \in DOMAIN entries |-> entries[i].content])
Copies(entries, c) ==
  Cardinality({i \in DOMAIN entries : entries[i].node = c})

\* _try_separator_absorption_with()
Separates(blob) ==
  blob # <<>> /\ blob[1] = G.separator.symbol

AddSeparator(s) ==
  [s EXCEPT !.blob = Tail(@), !.consumed = @ + 1,
            !.frozen = Append(@, Entry(Nobody, <<G.separator.symbol>>))]

---------------------------------------------------------------------------
(* _try_absorption_with(): as many copies of a child as its quantity       *)
(* allows, one after the other.                                            *)

\* Node.env.node_exists(): drawn at least once (a child read is never empty).
Drawn(s, c) == s.drawn[c] > 0

\* _existence_from_node()
Excluded(s, c) ==
  \/ G.when[c] # Nobody /\ ~Drawn(s, G.when[c])
  \/ G.unless[c] # Nobody /\ Drawn(s, G.unless[c])

\* _qty_from_node(): the quantity of another child replaces both bounds.
Synchronized(s, c, qty) ==
  IF G.sync[c] # Nobody /\ s.drawn[G.sync[c]] # NotDrawn
  THEN s.drawn[G.sync[c]] ELSE qty

\* Faulty: one copy less is enough.
TooFewAlmost(n, min) == n < min
TooFew(n, min) == n <= min

\* A copy is taken with the separator after it.
AndSeparator(e, n, min) ==
  IF G.separator.symbol = Nobody THEN e
  ELSE IF Separates(e.blob) THEN AddSeparator(e)
  ELSE [e EXCEPT !.over = TRUE, !.abort = n < min]

\* The n-th copy, for which r was read.  `s.post' is the postponed child, to be
\* given what the copy leaves before itself; without one the copy must start
\* where the blob does.
Copy(s, n, c, min, r) ==
  LET before == SubSeq(s.blob, 1, r.off)
      p == Reads(s.post, before)
      late == s.post = Nobody /\ r.off # 0
      refused == s.post # Nobody /\ (p = Rejected \/ p.size # r.off)
      first == IF s.post = Nobody THEN <<>> ELSE <<Entry(s.post, before)>>
      read == SubSeq(s.blob, r.off + 1, r.off + r.size)
  IN IF r = Rejected \/ late
     THEN [s EXCEPT !.over = TRUE, !.abort = TooFew(n, min),
                    !.void = min = 0 /\ (r = Rejected \/ n = 1)]
     ELSE IF refused THEN [s EXCEPT !.over = TRUE, !.abort = TRUE]
     ELSE AndSeparator([s EXCEPT
                          !.blob = SubSeq(@, r.off + r.size + 1, Len(@)),
                          !.consumed = @ + r.off + r.size,
                          !.frozen = @ \o first \o <<Entry(c, read)>>,
                          !.nb = n, !.post = Nobody], n, min)

\* With a separator that is always there, even a child that read nothing has one.
AlwaysSeparated(e) ==
  IF e.void /\ G.separator.always /\ Separates(e.blob) THEN AddSeparator(e)
  ELSE e

\* Faulty: the data that was read is not given back.
KeepRead(s, e) == [s EXCEPT !.blob = e.blob]
GiveUp(s, e) == s

\* `verdict' is None ("absent"), TRUE ("abort") or FALSE ("ok") in the code.
Result(s, c, e, verdict, nb) ==
  [verdict |-> verdict, nb |-> nb, unplaced |-> e.post # Nobody,
   at |-> [blob |-> s.blob, consumed |-> s.consumed, frozen |-> s.frozen,
           drawn |-> [s.drawn EXCEPT ![c] =
                        CASE verdict = "absent" -> @
                          [] verdict = "abort" -> NotDrawn
                          [] OTHER -> nb]]]

Settled(s, c, e) ==
  IF e.abort THEN Result(GiveUp(s, e), c, e, "abort", 0)
  ELSE Result(e, c, e, "ok", e.nb)

TryAbsorption(s, c, least, most, post) ==
  LET min == Synchronized(s, c, least)
      max == Synchronized(s, c, most)
      bound == IF max < 0 THEN Len(s.blob) + 1 ELSE max
      from == [blob |-> s.blob, consumed |-> s.consumed, frozen |-> s.frozen,
               drawn |-> s.drawn, post |-> post, nb |-> 0,
               abort |-> FALSE, over |-> FALSE, void |-> FALSE]
      more(e, n) == IF e.over THEN e ELSE Copy(e, n, c, min, Reads(c, e.blob))
  IN IF Excluded(s, c) \/ max = 0 THEN Result(s, c, from, "absent", 0)
     ELSE Settled(s, c, AlwaysSeparated(FoldLeft(more, from,
                                                 [n \in 1..bound |-> n])))

---------------------------------------------------------------------------
(* What a node describes: the data that its shapes stand for.              *)

Cat(S, T) == {s \o t : s \in S, t \in T}
CatAll(sets) == FoldLeft(Cat, {<<>>}, sets)

\* The quantities of its children that a section allows on its own: in a pick
\* one alternative only.
Chosen(s) ==
  IF s.kind \in {"pick", "weighted pick"} THEN {<<c>> : c \in Range(s.nodes)}
  ELSE {s.nodes}

\* The orders in which a section puts its children, for given quantities.
Orders(s, nodes, q) ==
  LET copies(c) == [i \in 1..q[c] |-> c]
      all == FlattenSeq([i \in DOMAIN nodes |-> copies(nodes[i])])
  IN CASE s.kind = "random" ->
            {FlattenSeq([i \in DOMAIN o |-> copies(o[i])]) :
               o \in SetToSeqs(Range(nodes))}
       [] s.kind = "mixed" ->
            {w \in [DOMAIN all -> Range(all)] :
               \A c \in Range(nodes) :
                 Cardinality({i \in DOMAIN w : w[i] = c}) = q[c]}
       [] OTHER -> {all}

\* The quantities a child may have in grammar g, among the given members.
Allowed(g, members, c, q) ==
  IF \/ g.when[c] # Nobody /\ q[g.when[c]] = 0
     \/ g.unless[c] # Nobody /\ q[g.unless[c]] > 0
  THEN q[c] = 0
  ELSE IF g.sync[c] \in members THEN q[c] = q[g.sync[c]]
  ELSE /\ q[c] >= g.min[c]
       /\ g.max[c] # Unlimited => q[c] <= g.max[c]

\* The sequences of children that shape number k of grammar g describes, with
\* at most `top' copies.
Structures(g, k, top) ==
  LET shape == g.shapes[k]
      choices == {f \in [DOMAIN shape -> UNION {Chosen(s) : s \in Range(shape)}] :
                    \A i \in DOMAIN shape : f[i] \in Chosen(shape[i])}
      members(f) == UNION {Range(f[i]) : i \in DOMAIN f}
      quantities(f) ==
        {q \in [Child -> 0..top] :
           /\ SumFunction(q) <= top
           /\ \A c \in Child : IF c \in members(f) THEN Allowed(g, members(f), c, q)
                               ELSE q[c] = 0}
  IN UNION {UNION {CatAll([i \in DOMAIN shape |-> Orders(shape[i], f[i], q)]) :
                     q \in quantities(f)} : f \in choices}

\* Their contents, the free children being filled with Filler.
Words(g, structure) ==
  LET sep == g.separator
      content(c) == IF g.symbol[c] # Nobody THEN {<<g.symbol[c]>>}
                    ELSE {[i \in 1..n |-> Filler] : n \in g.lo[c]..g.hi[c]}
      n == Len(structure)
      after(i) == IF sep.symbol # Nobody /\ (i < n \/ sep.suffix)
                  THEN {<<sep.symbol>>} ELSE {<<>>}
      before == IF sep.symbol # Nobody /\ sep.prefix /\ (n > 0 \/ sep.suffix)
                THEN {<<sep.symbol>>} ELSE {<<>>}
  IN Cat(before, CatAll([i \in 1..n |-> Cat(content(structure[i]), after(i))]))

Described(g) ==
  UNION {UNION {{k} \X Words(g, s) : s \in Structures(g, k, MaxCopies)} :
           k \in DOMAIN g.shapes}

---------------------------------------------------------------------------
(* absorb(): shapes, sections and their children.                          *)

NoTurns == [left |-> 0, size |-> 0]
NoMix == [left |-> <<>>, before |-> <<>>, still |-> 0]

Init ==
  /\ \E g \in Grammars : \E described \in {Described(g)} :
       /\ grammar = g
       /\ data \in RawData(g)
       /\ made = {k \in DOMAIN g.shapes : <<k, data>> \in described}
  /\ pc = "shape" /\ status = "Reject" /\ abort = FALSE
  /\ tried = 0 /\ section = 0 /\ todo = <<>>
  /\ turns = NoTurns /\ mix = NoMix /\ postponed = Nobody
  /\ at = [blob |-> data, consumed |-> 0, frozen |-> <<>>,
           drawn |-> [c \in Child |-> NotDrawn]]
  /\ start = data /\ mishaps = {}

Constant == UNCHANGED <<grammar, data, made>>
Loses(what) == mishaps' = mishaps \union what
If(condition, mishap) == IF condition THEN {mishap} ELSE {}

\* _get_next_heavier_component(); a prefix separator that is not found ends
\* the absorption, whatever the other shapes are.
NextShape ==
  /\ pc = "shape"
  /\ tried' = tried + 1
  /\ LET fresh == [at EXCEPT !.consumed = 0, !.frozen = <<>>]
     IN IF ~G.separator.prefix
        THEN at' = fresh /\ pc' = "section"
        ELSE IF Separates(at.blob)
        THEN at' = AddSeparator(fresh) /\ pc' = "section"
        ELSE at' = fresh /\ pc' = "done"
  /\ section' = 0 /\ abort' = FALSE /\ postponed' = Nobody
  /\ start' = at.blob
  /\ Loses(If(at.blob # data, "moved")
             \union If(G.separator.prefix /\ at.blob = <<>>, "empty"))
  /\ UNCHANGED <<todo, turns, mix, status>> /\ Constant

\* `for delim, sublist in self.__iter_csts(node_list)'
NextSection ==
  /\ pc = "section"
  /\ IF section = Len(Shape)
     THEN /\ pc' = "end"
          /\ Loses(If(postponed # Nobody, "unplaced"))
          /\ UNCHANGED <<section, todo, turns, mix>>
     ELSE LET nodes == Shape[section + 1].nodes
          IN /\ pc' = "node" /\ section' = section + 1 /\ todo' = nodes
             /\ turns' = [left |-> Len(nodes), size |-> Len(nodes)]
             /\ mix' = [left |-> [i \in DOMAIN nodes |->
                                    [node |-> nodes[i], min |-> G.min[nodes[i]],
                                     max |-> G.max[nodes[i]]]],
                        before |-> [i \in DOMAIN nodes |-> G.max[nodes[i]]],
                        still |-> 0]
             /\ UNCHANGED mishaps
  /\ UNCHANGED <<tried, at, postponed, abort, status, start>> /\ Constant

\* A child of an ordered section or of a pick that is put off.
Postpone ==
  /\ pc = "node" /\ todo # <<>>
  /\ Shape[section].kind \in {"ordered", "pick", "weighted pick"}
  /\ Head(todo) \in G.postponed
  /\ postponed' = Head(todo) /\ todo' = Tail(todo)
  /\ abort' = (abort /\ Shape[section].kind # "ordered")
  /\ Loses(If(Shape[section].kind # "ordered", "deferred"))
  /\ UNCHANGED <<pc, tried, section, turns, mix, at, status, start>>
  /\ Constant

Attempt == TryAbsorption(at, Head(todo), G.min[Head(todo)], G.max[Head(todo)],
                         postponed)

Greedy(before, after) ==
  \E i \in Len(before.frozen) + 1 .. Len(after.frozen) :
    LET e == after.frozen[i]
    IN /\ e.node # Nobody /\ G.symbol[e.node] = Nobody
       /\ Range(e.content) # {Filler} /\ e.content # <<>>

NotTried ==
  Range(todo) \union
    UNION {Range(Shape[i].nodes) : i \in section + 1 .. Len(Shape)}

Early(c) == {G.sync[c], G.when[c], G.unless[c]} \intersect NotTried # {}

\* What the attempt r may lose.
AttemptLoses(r) ==
  If(r.verdict = "ok" /\ r.unplaced, "unplaced")
    \union If(Greedy(at, r.at), "greedy")
    \union If(Early(Head(todo)), "early")
    \union If(r.verdict = "absent" /\ Shape[section].kind # "ordered", "absent")

\* '>': each child in its turn; the first one that fails ends the shape.
OrderedNode ==
  /\ pc = "node" /\ Shape[section].kind = "ordered"
  /\ IF todo = <<>>
     THEN pc' = "section" /\ UNCHANGED <<todo, at, postponed, abort, mishaps>>
     ELSE /\ Head(todo) \notin G.postponed
          /\ todo' = Tail(todo)
          /\ \E r \in {Attempt} :
               /\ at' = r.at
               /\ abort' = (r.verdict = "abort")
               /\ pc' = IF abort' THEN "end" ELSE "node"
               /\ postponed' = IF r.verdict = "absent" THEN postponed ELSE Nobody
               /\ Loses(AttemptLoses(r))
  /\ UNCHANGED <<tried, section, turns, mix, status, start>> /\ Constant

\* Faulty: a child that failed gets no other turn.
DropIt(c, rest) == rest
AnotherTurn(c, rest) == Append(rest, c)

\* Faulty: the turns are not counted.
SameTurns(n) == n
OneTurnLess(n) == n - 1

\* '=..': a child that fails, or must not exist, gets another turn later, until
\* a whole turn gave nothing.
RandomNode ==
  /\ pc = "node" /\ Shape[section].kind = "random"
  /\ LET stuck == turns.left = 0 /\ Len(todo) = turns.size
         now == IF turns.left = 0 THEN [left |-> Len(todo), size |-> Len(todo)]
                ELSE turns
     IN IF todo = <<>>
        THEN pc' = "section" /\ UNCHANGED <<todo, turns, at, abort, mishaps>>
        ELSE IF stuck
        THEN /\ abort' = TRUE /\ pc' = "end"
             /\ UNCHANGED <<todo, turns, at, mishaps>>
        ELSE \E r \in {Attempt} :
             /\ turns' = [now EXCEPT !.left = OneTurnLess(@)]
             /\ todo' = IF r.verdict = "ok" THEN Tail(todo)
                        ELSE AnotherTurn(Head(todo), Tail(todo))
             /\ at' = r.at
             /\ abort' = (r.verdict = "abort")
             /\ Loses(If(r.verdict = "ok" /\ r.nb = 0, "dropped")
                        \union AttemptLoses(r))
             /\ pc' = "node"
  /\ UNCHANGED <<tried, section, mix, postponed, status, start>> /\ Constant

\* '=+': the first alternative that does not fail.  When all of a weighted pick
\* failed, _parse_node_desc() is given an empty list and raises.
PickNode ==
  /\ pc = "node" /\ Shape[section].kind \in {"pick", "weighted pick"}
  /\ IF todo = <<>>
     THEN /\ pc' = IF Shape[section].kind = "weighted pick" THEN "done"
                   ELSE IF abort THEN "end" ELSE "section"
          /\ status' = IF pc' = "done" THEN "Raised" ELSE status
          /\ UNCHANGED <<todo, at, postponed, abort, mishaps>>
     ELSE /\ Head(todo) \notin G.postponed
          /\ todo' = Tail(todo)
          /\ \E r \in {Attempt} :
               /\ at' = r.at
               /\ abort' = (r.verdict = "abort")
               /\ pc' = IF r.verdict = "ok" THEN "section" ELSE "node"
               /\ postponed' = IF r.verdict = "ok" THEN Nobody ELSE postponed
               /\ Loses(If(r.verdict = "ok" /\ r.nb = 0, "settled")
                          \union AttemptLoses(r))
          /\ UNCHANGED status
  /\ UNCHANGED <<tried, section, turns, mix, start>> /\ Constant

\* The children whose existence or quantity depends on c.
ReadBy(c) == {k \in Child : c \in {G.sync[k], G.when[k], G.unless[k]}}

\* One attempt of a mixed section: the minimum is looked at only at its end.
MixedAttempt(m, i) ==
  LET n == m.nodes[i]
      r == TryAbsorption(m.at, n.node, 0, n.max, Nobody)
  IN [at |-> r.at,
      nodes |-> IF r.nb = 0 THEN m.nodes
                ELSE [m.nodes EXCEPT ![i].max = @ - r.nb,
                                     ![i].min = Max({0, @ - r.nb})],
      forgotten |-> m.forgotten \/ /\ r.verdict = "ok" /\ ReadBy(n.node) # {}
                                   /\ r.nb < Copies(r.at.frozen, n.node),
      absent |-> m.absent \/ (r.verdict = "absent" /\ n.min > 0)]

\* '=.': rounds over all the children that may still come, until as many rounds
\* as there are children left changed nothing.
MixedRound ==
  /\ pc = "node" /\ Shape[section].kind = "mixed"
  /\ \E end \in {FoldLeft(MixedAttempt,
                          [at |-> at, nodes |-> mix.left, forgotten |-> FALSE,
                           absent |-> FALSE],
                          [i \in DOMAIN mix.left |-> i])} :
     LET maxima == [i \in DOMAIN end.nodes |-> end.nodes[i].max]
     IN IF mix.still = Len(mix.left)
        THEN /\ abort' = (\E i \in DOMAIN mix.left : mix.left[i].min > 0)
             /\ pc' = IF abort' THEN "end" ELSE "section"
             /\ UNCHANGED <<mix, at, mishaps>>
        ELSE /\ mix' = [left |-> SelectSeq(end.nodes, LAMBDA n : n.max # 0),
                        before |-> maxima,
                        still |-> IF maxima = mix.before THEN mix.still + 1 ELSE 0]
             /\ at' = end.at
             /\ Loses(If(end.forgotten, "forgotten")
                        \union If(end.absent, "absent")
                        \union If(\E c \in Range(todo) : Early(c), "early"))
             /\ UNCHANGED <<pc, abort>>
  /\ UNCHANGED <<tried, section, todo, turns, postponed, status, start>>
  /\ Constant

\* The end of a shape: a last separator that is no suffix is given back, at the
\* end of the blob.  Another shape is tried on the blob as it is.
EndShape ==
  /\ pc = "end"
  /\ LET sep == G.separator
         spare == /\ sep.symbol # Nobody /\ ~sep.suffix /\ ~sep.always
                  /\ at.frozen # <<>> /\ Last(at.frozen).node = Nobody
     IN at' = IF spare
              THEN [at EXCEPT !.frozen = Front(@), !.consumed = @ - 1,
                              !.blob = Append(@, sep.symbol)]
              ELSE at
  /\ status' = IF abort THEN "Reject" ELSE "Absorbed"
  /\ pc' = IF abort /\ tried < Len(G.shapes) THEN "shape" ELSE "done"
  /\ UNCHANGED <<tried, section, todo, turns, mix, postponed, abort, start,
                 mishaps>>
  /\ Constant

\* The absorption returns.
Stutter == pc = "done" /\ UNCHANGED vars

Next == \/ NextShape \/ NextSection \/ Postpone \/ OrderedNode \/ RandomNode
        \/ PickNode \/ MixedRound \/ EndShape \/ Stutter

Spec == Init /\ [][Next]_vars

FullyAbsorbed == status = "Absorbed" /\ at.consumed = Len(data)

---------------------------------------------------------------------------
Done == pc = "done"

\* At every moment of a shape, what the children hold and what is left make the
\* data the shape was tried on, and consumed_size is the size of what they
\* hold: an attempt that fails half-way leaves no trace in any of the three.
\* (A separator that is given back is put at the wrong end of what is left.)
NothingLostNorMade ==
  pc \notin {"shape", "done"} =>
    /\ Content(at.frozen) \o at.blob = start
    /\ at.consumed = Len(Content(at.frozen))

\* Data that a shape of the node describes is absorbed to its end
\* (data_model.rst:1538-1540: a data model can be used "also (without
\* modification) for absorbing data samples that comply to its grammar"),
\* unless a shape tried earlier is content with the beginning of it, or a
\* mishap happened.
RoundTrip ==
  Done /\ made # {} /\ mishaps = {} =>
    /\ status = "Absorbed"
    /\ FullyAbsorbed \/ tried < Min(made)

\* Whether the children that hold something stand as shape number k asks for:
\* sections one after the other, each in its own order, one alternative of a
\* pick, and quantities that agree with the bounds and with each other.
Fits(nodes, k) ==
  LET shape == G.shapes[k]
      count == [c \in Child |-> Cardinality({i \in DOMAIN nodes : nodes[i] = c})]
      place(c) == CHOOSE p \in (DOMAIN shape) \X (1..Cardinality(Child)) :
                    p[2] \in DOMAIN shape[p[1]].nodes
                      /\ shape[p[1]].nodes[p[2]] = c
      kind(i) == shape[place(nodes[i])[1]].kind
      apart(i, j) == \E m \in i..j : nodes[m] # nodes[i]
      inOrder(i, j) ==
        LET p == place(nodes[i])  q == place(nodes[j])
        IN \/ p[1] < q[1]
           \/ /\ p[1] = q[1]
              /\ CASE kind(i) = "ordered" -> p[2] <= q[2]
                   [] kind(i) = "mixed" -> TRUE
                   [] kind(i) = "random" -> nodes[i] = nodes[j] => ~apart(i, j)
                   [] OTHER -> nodes[i] = nodes[j]
      choices == {f \in [DOMAIN shape -> UNION {Chosen(s) : s \in Range(shape)}] :
                    \A i \in DOMAIN shape : f[i] \in Chosen(shape[i])}
      members(f) == UNION {Range(f[i]) : i \in DOMAIN f}
  IN /\ \E f \in choices :
          /\ Range(nodes) \subseteq members(f)
          /\ \A c \in members(f) : Allowed(G, members(f), c, count)
     /\ \A i, j \in DOMAIN nodes : i < j => inOrder(i, j)

Holding == SelectSeq([i \in DOMAIN at.frozen |-> at.frozen[i].node],
                     LAMBDA c : c # Nobody)

\* Whatever the data, the children that absorb something stand as the last shape
\* tried asks for, unless one was put off, or a quantity was read too early or
\* after it was overwritten; and what they hold is the beginning of the data,
\* unless the shape was tried on what another one had left.
AbsorbedFits ==
  Done /\ status = "Absorbed" =>
    /\ mishaps \intersect {"unplaced", "deferred", "early", "forgotten"} = {} =>
         Fits(Holding, tried)
    /\ "moved" \notin mishaps => IsPrefix(Content(at.frozen), data)

\* How far a shape is from its end.
Distance ==
  CASE pc = "section" -> <<2, Len(Shape) - section, 0>>
    [] pc = "end" -> <<1>>
    [] pc \in {"shape", "done"} -> <<0>>
    [] OTHER ->
         <<2, Len(Shape) - section, 1>>
           \o CASE Shape[section].kind = "random" -> <<turns.size, turns.left>>
                [] Shape[section].kind = "mixed" ->
                     <<Len(at.blob), Len(mix.before), Len(mix.left) - mix.still>>
                [] OTHER -> <<Len(todo)>>

Variant == <<Len(G.shapes) - tried>> \o Distance

\* s comes before t in the lexicographic order.
Below(s, t) ==
  /\ \A i \in DOMAIN s : s[i] >= 0
  /\ \E i \in DOMAIN s \intersect DOMAIN t :
       s[i] < t[i] /\ \A j \in 1..i-1 : s[j] = t[j]

\* An absorption returns: every step brings it nearer to its end, whatever
\* fails in it.  A random section starts a turn only with fewer children than
\* the turn before, and a mixed one a round only when the last ones read data.
AbsorptionEnds == [][Below(Variant', Variant)]_vars

=============================================================================
