---------------------------- MODULE TypedValues ----------------------------
(***************************************************************************)
(* How the value types of terminal nodes go through their values in        *)
(* determinist mode (value_types.py): String, INT and BitField.            *)
(*                                                                         *)
(* A type is one of                                                        *)
(*   [kind |-> "string" or "int", values]   listed values, the default     *)
(*                                          first                          *)
(*   [kind |-> "range", low, high, first]   an INT whose range is too wide *)
(*                                          to be listed                   *)
(*   [kind |-> "bits", last, first]         a BitField: for each subfield  *)
(*                                          the index of its last value    *)
(*                                          and of its default             *)
(* The cursor of a type records the last value drawn (none or one, in a    *)
(* sequence), whether the type is                                          *)
(* exhausted, and what is left: the list values_copy, or the index idx (a  *)
(* sequence for a BitField, with current_subfield in `at').                *)
(***************************************************************************)
EXTENDS Integers, Sequences, FiniteSets, FiniteSetsExt, SequencesExt

Listed(type) == type.kind \in {"string", "int"}

NoDraw == <<>>

\* reset_state()
Cursor(left) == [left |-> left, at |-> 1, drawn |-> NoDraw, exhausted |-> FALSE]

FreshString(type) == Cursor(type.values)
FreshInt(type) ==
  Cursor(IF type.kind = "int" THEN type.values ELSE type.first - type.low)
FreshBits(type) == Cursor(type.first)

FreshCursor(type) ==
  CASE type.kind = "string" -> FreshString(type)
    [] type.kind \in {"int", "range"} -> FreshInt(type)
    [] type.kind = "bits" -> FreshBits(type)

\* get_value() of listed values: the list is refilled when it is found empty.
DrawString(type, c) ==
  LET left == IF c.left = <<>> THEN type.values ELSE c.left
  IN [c EXCEPT !.left = Tail(left), !.drawn = <<Head(left)>>,
               !.exhausted = Len(left) = 1]

\* An INT also refills it as soon as it is empty.
DrawInt(type, c) ==
  LET next == DrawString(type, c)
  IN IF next.exhausted THEN [next EXCEPT !.left = type.values] ELSE next

\* INT.get_value() without values: past the end it starts at the lowest value,
\* not at the default.
DrawRange(type, c) ==
  LET over == type.low + c.left + 1 > type.high
  IN [c EXCEPT !.drawn = <<type.low + c.left>>, !.exhausted = over,
               !.left = IF over THEN 0 ELSE c.left + 1]

\* BitField.get_value(): one subfield at a time goes through its values, the
\* others keep their default.  All subfields but the first skip it, since it
\* was already shown.
DefaultSkipped(type, c) ==
  IF c.at > 1 /\ c.left[c.at] = type.first[c.at] /\ c.left[c.at] < type.last[c.at]
  THEN [c.left EXCEPT ![c.at] = @ + 1] ELSE c.left

DrawBits(type, c) ==
  LET left == DefaultSkipped(type, c)
      moreOf(k) == left[k] < type.last[k]
      next == {k \in c.at + 1 .. Len(left) : moreOf(k)}
      drawn == [c EXCEPT !.drawn = <<[type.first EXCEPT ![c.at] = left[c.at]]>>,
                         !.exhausted = FALSE, !.left = left]
  IN IF moreOf(c.at) THEN [drawn EXCEPT !.left[c.at] = @ + 1]
     ELSE IF next # {} THEN [drawn EXCEPT !.at = Min(next)]
     ELSE [drawn EXCEPT !.at = 1, !.left = type.first, !.exhausted = TRUE]

Draw(type, c) ==
  CASE type.kind = "string" -> DrawString(type, c)
    [] type.kind = "int" -> DrawInt(type, c)
    [] type.kind = "range" -> DrawRange(type, c)
    [] type.kind = "bits" -> DrawBits(type, c)

---------------------------------------------------------------------------
(* rewind(): the last value drawn is to be drawn again.                    *)

Renewing(c, left) == [c EXCEPT !.left = left, !.exhausted = FALSE]

RewindString(type, c) ==
  LET gone == Len(type.values) - Len(c.left)
  IN Renewing(c, IF gone > 0 THEN <<type.values[gone]>> \o c.left ELSE c.left)

RewindInt(c) ==
  Renewing(c, IF c.drawn = NoDraw THEN c.left ELSE c.drawn \o c.left)

RewindRange(c) == Renewing(c, IF c.left > 0 THEN c.left - 1 ELSE 0)

\* BitField.rewind() when not exhausted.
RewindWithin(type, c) ==
  IF c.left[c.at] > 1 THEN [c EXCEPT !.left[c.at] = @ - 1]
  ELSE IF c.at = 1 THEN c
  ELSE [c EXCEPT !.at = @ - 1, !.left[c.at - 1] = type.last[c.at - 1]]

RewindBits(type, c) ==
  LET n == Len(type.last)
      end == [c EXCEPT !.at = n, !.left[n] = type.last[n], !.exhausted = FALSE]
  IN IF ~c.exhausted THEN RewindWithin(type, c)
     ELSE IF type.last[n] = 0 THEN RewindWithin(type, end)
     ELSE end

Rewind(type, c) ==
  [CASE type.kind = "string" -> RewindString(type, c)
     [] type.kind = "int" -> RewindInt(c)
     [] type.kind = "range" -> RewindRange(c)
     [] type.kind = "bits" -> RewindBits(type, c)
   EXCEPT !.drawn = NoDraw]

---------------------------------------------------------------------------
\* The values a type promises to show before it is exhausted: the listed ones,
\* those of a wide range from its default on, and those of each subfield from
\* its default on while the others keep theirs.
Promised(type) ==
  IF Listed(type) THEN Range(type.values)
  ELSE IF type.kind = "range" THEN type.first .. type.high
  ELSE UNION {{[type.first EXCEPT ![k] = v] : v \in type.first[k] .. type.last[k]} :
                k \in 1..Len(type.first)}

=============================================================================
