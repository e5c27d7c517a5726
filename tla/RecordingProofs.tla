-------------------------- MODULE RecordingProofs --------------------------
(***************************************************************************)
(* What is recorded about a round is attached to the right row of the      *)
(* table DATA (RowsAreRight), and callbacks see the feedback of their own  *)
(* round (CallbacksSeeFresh), whatever the targets, the lists of data, the *)
(* burst and the moments at which the other threads collect feedback and   *)
(* send data.                                                              *)
(*                                                                         *)
(* The argument: the data are logged in the order in which they were made, *)
(* so the rows are sorted by data, and every data that is over has a row,  *)
(* or was lost or not to be recorded (RowsFacts).  The last row of a       *)
(* target is never older than the data it answers (IdsFacts).  As long as  *)
(* nothing has made the count drift, ids and numbers of data are the same  *)
(* thing (Straight), and a row of async data that was written then stays   *)
(* right whatever comes next (AsyncFacts).                                 *)
(***************************************************************************)
EXTENDS Recording, FiniteSetTheorems, WellFoundedInduction, TLAPS

\* The data that are over: logged, or given up.
Logged == IF pc = "prepared" THEN made ELSE made - Len(list)
IsLost(d) == d \in missing \cup unrecorded

\* Some data of the round have their number, and are still to be logged.
Pending == pc \in {"sending", "waiting", "sent"} /\ list # <<>>

RoundFacts ==
    /\ list # <<>> <=> \/ pc \in {"prepared", "sending", "sent"}
                       \/ pc = "waiting" /\ mode = "shell"
    /\ pc = "prepared" => made + Len(list) <= MaxData
    /\ pc # "prepared" => Len(list) <= made
    /\ \A i \in 1..Len(list) : list[i] # {}
    /\ pc \notin {"waiting", "sent", "logged", "callbacks"} => keep
    /\ \A t \in todo : pc = "sending" /\ \E i \in 1..Len(list) : t \in list[i]

RowsFacts ==
    /\ \A i, j \in 1..Len(rows) : i <= j => rows[i].data <= rows[j].data
    /\ \A i \in 1..Len(rows) : rows[i].data <= Logged
    /\ \A d \in 1..Logged : IsLost(d) \/ \E i \in 1..Len(rows) : rows[i].data = d
    /\ \A d \in unrecorded :
         /\ explicit /\ d <= Logged
         /\ recordable => rows # <<>> /\ rows[Len(rows)].data >= d

IdsFacts ==
    /\ \A t \in Targets :
         /\ lastIds[t] <= Len(rows) /\ last[t] <= made
         /\ lastIds[t] # 0 =>
              /\ rows[lastIds[t]].tg = t
              /\ \/ rows[lastIds[t]].data >= last[t]
                 \/ IsLost(last[t]) \/ last[t] > Logged
         /\ last[t] > Logged => Pending /\ t \in list[last[t] - Logged]
    /\ \/ \A t \in Targets : lastIds[t] = 0
       \/ \E t \in Targets : lastIds[t] = Len(rows)
    /\ \A i \in 1..Len(lgFbk) : lgFbk[i] <= made

FbkFacts == \A r \in fbkRows : r.id <= Len(rows) /\ r.over <= Logged

\* Every data that remains to be logged, but for the last one, is for one target.
OneEach == \A i \in 1..Len(list) - 1 : Cardinality(list[i]) = 1

Straight ==
    ~drift =>
        /\ Len(rows) = Logged /\ \A i \in 1..Len(rows) : rows[i].data = i
        /\ nextId \in {None, made}
        /\ \A t \in Targets : pendingId[t] \in {None, last[t]}
        /\ Pending => OneEach
        /\ \A t \in todo : est[t] \in {None, NumberFor(t)}

HasItsRow(d) == d \in 1..Len(rows) /\ rows[d].data = d
\* The data d of the round is still to be logged, and its row will be row d.
Ahead(d) ==
    /\ Pending /\ d > Logged /\ d > Len(rows) /\ d <= made
    /\ Recorded => Len(rows) = Logged /\ OneEach

AsyncFacts ==
    \A r \in asyncRows : r.guessed /\ ~r.drift =>
        r.id = r.data /\ (IsLost(r.data) \/ HasItsRow(r.data) \/ Ahead(r.data))

IInv ==
    /\ TypeOK /\ RoundFacts /\ RowsFacts /\ IdsFacts /\ FbkFacts /\ FeedbackRowRight
    /\ Straight /\ AsyncFacts /\ CallbacksSeeFresh
-----------------------------------------------------------------------------
(* Sets of numbers, and the sequence of a set.                             *)

\* The largest of a bounded set of numbers is one of them.
LEMMA MaxOfBounded ==
  ASSUME NEW N \in Nat, NEW S, S \subseteq 0..N, S # {}
  PROVE  Max(S) \in S /\ \A x \in S : x <= Max(S)
<1> DEFINE T == {N - x : x \in S}
<1>1. \A x \in S : x \in Nat /\ x <= N /\ N - x \in Nat  OBVIOUS
<1>2. T \subseteq Nat /\ T # {}  BY <1>1
<1>3. \E m \in T : \A y \in T : ~(<<y, m>> \in OpToRel(<, Nat))
  BY <1>2, NatLessThanWellFounded, WFMin
<1>4. PICK m \in T : \A y \in T : ~(y < m)  BY <1>2, <1>3 DEF OpToRel
<1>5. PICK x \in S : m = N - x  BY <1>4
<1>6. \A y \in S : x >= y
  <2> TAKE y \in S
  <2>1. N - y \in T  OBVIOUS
  <2>2. ~(N - y < N - x)  BY <1>4, <1>5, <2>1
  <2> QED BY <1>1, <2>2
<1> QED BY <1>5, <1>6 DEF Max

\* SetToSeq lists each element of a finite set once.
LEMMA SetToSeqFacts ==
  ASSUME NEW S, IsFiniteSet(S)
  PROVE  /\ SetToSeq(S) \in Seq(S) /\ Len(SetToSeq(S)) = Cardinality(S)
         /\ \A i, j \in 1..Cardinality(S) : SetToSeq(S)[i] = SetToSeq(S)[j] => i = j
         /\ ToSet(SetToSeq(S)) = S
<1> DEFINE n == Cardinality(S)
<1>1. n \in Nat /\ ExistsBijection(1..n, S)  BY FS_CardinalityType
<1>2. PICK f \in [1..n -> S] : IsInjective(f)
  BY <1>1 DEF ExistsBijection, Bijection, Injection
<1>3. SetToSeq(S) \in [1..n -> S] /\ IsInjective(SetToSeq(S))
  BY <1>2 DEF SetToSeq
<1> HIDE DEF n
<1> DEFINE q == SetToSeq(S)
<1>4. q \in Injection(1..n, S)  BY <1>3 DEF Injection
<1>5. IsFiniteSet(1..n) /\ Cardinality(1..n) = n
  BY <1>1, FS_Interval
<1>6. q \in Surjection(1..n, S)
  BY <1>4, <1>5, FS_Injection DEF n
<1>7. q \in Seq(S) /\ Len(q) = n /\ DOMAIN q = 1..n  BY <1>1, <1>3
<1>8. \A s \in S : \E i \in 1..n : q[i] = s  BY <1>6 DEF Surjection
<1>9. ToSet(q) = S  BY <1>3, <1>7, <1>8 DEF ToSet
<1>10. \A i, j \in 1..n : q[i] = q[j] => i = j  BY <1>3, <1>7 DEF IsInjective
<1> QED BY <1>7, <1>9, <1>10 DEF n

LEMMA Elements ==
  ASSUME NEW S, NEW q \in Seq(S)
  PROVE  Len(q) \in Nat /\ \A i \in 1..Len(q) : q[i] \in S
OBVIOUS

\* What TypeOK says about the elements.
LEMMA TypeFacts ==
  ASSUME TypeOK
  PROVE  /\ MaxData \in Nat /\ Data = 0..MaxData /\ made \in Nat /\ made <= MaxData /\ nextId \in Nat
         /\ rows \in Seq([data : Data, tg : Targets]) /\ Len(rows) \in Nat
         /\ \A i \in 1..Len(rows) : rows[i].data \in Nat /\ rows[i].data \in Data /\ rows[i].tg \in Targets
         /\ list \in Seq(SUBSET Targets) /\ Len(list) \in Nat
         /\ \A i \in 1..Len(list) : list[i] \subseteq Targets
         /\ lgFbk \in Seq(Data) /\ Len(lgFbk) \in Nat
         /\ \A i \in 1..Len(lgFbk) : lgFbk[i] \in Data /\ lgFbk[i] \in Nat
         /\ \A t \in Targets : /\ last[t] \in Nat /\ last[t] \in Data /\ lastIds[t] \in Nat
                               /\ pendingId[t] \in Nat /\ est[t] \in Nat
         /\ Logged \in Int
<1>1. MaxData \in Nat /\ Data = 0..MaxData /\ Data \subseteq Nat
  BY RecordingAssumption DEF RecordingAssumption, Data
<1>2. /\ rows \in Seq([data : Data, tg : Targets]) /\ list \in Seq(SUBSET Targets)
      /\ lgFbk \in Seq(Data) /\ made \in Data /\ nextId \in Nat
      /\ last \in [Targets -> Data] /\ lastIds \in [Targets -> Nat]
      /\ pendingId \in [Targets -> Nat] /\ est \in [Targets -> Nat]
  BY DEF TypeOK
<1>3. Len(rows) \in Nat /\ \A i \in 1..Len(rows) : rows[i] \in [data : Data, tg : Targets]
  BY <1>2, Elements
<1>4. Len(list) \in Nat /\ \A i \in 1..Len(list) : list[i] \in SUBSET Targets  BY <1>2
<1>5. Len(lgFbk) \in Nat /\ \A i \in 1..Len(lgFbk) : lgFbk[i] \in Data  BY <1>2
<1>6. made \in Nat /\ made <= MaxData  BY <1>1, <1>2
<1>7. Logged \in Int  BY <1>4, <1>6 DEF Logged
<1>8. \A i \in 1..Len(rows) : rows[i].data \in Data /\ rows[i].tg \in Targets  BY <1>3
<1> QED BY <1>1, <1>2, <1>3, <1>4, <1>5, <1>6, <1>7, <1>8

\* The last data of the list that is for t.
LEMMA LastForFacts ==
  ASSUME TypeOK, NEW t, \E i \in 1..Len(list) : t \in list[i]
  PROVE  /\ LastFor(t) \in 1..Len(list) /\ t \in list[LastFor(t)]
         /\ LastFor(t) <= Len(list)
<1> DEFINE S == {i \in DOMAIN list : t \in list[i]}
<1>1. Len(list) \in Nat /\ DOMAIN list = 1..Len(list)  BY DEF TypeOK
<1>2. S \subseteq 0..Len(list) /\ S # {}  BY <1>1
<1>3. Max(S) \in S  BY <1>1, <1>2, MaxOfBounded
<1>4. LastFor(t) = Max(S)  BY DEF LastFor
<1> HIDE DEF S
<1>5. LastFor(t) \in 1..Len(list) /\ t \in list[LastFor(t)]  BY <1>1, <1>3, <1>4 DEF S
<1> QED BY <1>1, <1>5

\* The last row of all is the last one, but when every target has none.
LEMMA LastRowFacts ==
  ASSUME TypeOK, IdsFacts
  PROVE  LastRow \in {None, Len(rows)} /\ LastRow \in Nat
<1> DEFINE S == {lastIds[t] : t \in Targets}
<1>1. Len(rows) \in Nat /\ None = 0 /\ \A t \in Targets : lastIds[t] \in Nat
  BY DEF TypeOK, None
<1>2. S \subseteq 0..Len(rows) /\ S # {}
  BY <1>1, RecordingAssumption DEF IdsFacts, RecordingAssumption
<1>3. Max(S) \in S /\ \A n \in S : n <= Max(S)  BY <1>1, <1>2, MaxOfBounded
<1>4. LastRow = Max(S)  BY DEF LastRow
<1> HIDE DEF S
<1>5. CASE \A t \in Targets : lastIds[t] = 0
  <2>1. S \subseteq {0}  BY <1>5 DEF S
  <2>2. LastRow = 0  BY <1>3, <1>4, <2>1
  <2> QED BY <1>1, <2>2
<1>6. CASE \E t \in Targets : lastIds[t] = Len(rows)
  <2>1. Len(rows) \in S  BY <1>6 DEF S
  <2>2. Max(S) \in 0..Len(rows) /\ Len(rows) <= Max(S)  BY <1>2, <1>3, <2>1
  <2> QED BY <1>1, <1>4, <2>2
<1> QED BY <1>5, <1>6 DEF IdsFacts

-----------------------------------------------------------------------------
(* Recording.                                                              *)

\* A row of feedback that is as FeedbackRowRight wants it.
RightRow(r) == r.id # None => IF r.born <= r.over THEN AnswersRight(r) ELSE RemarksRight(r)

\* What may be recorded: an answer to a data that is over, what a probe says of a target
\* whose last data is over, or a remark of the framework.
Recordable(e) ==
    \/ e.tg \in {"any", "fmk"} /\ e.born \in 0..Logged
    \/ e.tg \in Targets /\ e.born = last[e.tg] /\ last[e.tg] <= Logged
    \/ e.tg = "fmk" /\ e.born > Logged

\* The rows of feedback that were just added are right.
NewFeedback ==
    \A r \in fbkRows' :
        /\ r \in [id : Nat, born : Data, over : Data, tg : Sources]
        /\ r.id <= Len(rows) /\ r.over <= Logged /\ RightRow(r)

\* What is not about one target goes to the last row, which is not older.
LEMMA AnyIsRight ==
  ASSUME TypeOK, RowsFacts, IdsFacts, ShallRecord, NEW d \in 0..Logged, LastRow # None
  PROVE  rows[LastRow].data >= d \/ d \in missing
<1> DEFINE n == Len(rows)
<1>1. /\ n \in Nat /\ \A i \in 1..n : rows[i].data \in Nat
      /\ Logged \in Int
  BY TypeFacts
<1>2. LastRow = n /\ n \in 1..n
  BY <1>1, LastRowFacts DEF None
<1>3. CASE d = 0  BY <1>1, <1>2, <1>3
<1>4. CASE \E i \in 1..n : rows[i].data = d
  <2>1. PICK i \in 1..n : rows[i].data = d  BY <1>4
  <2>2. rows[i].data <= rows[n].data  BY <1>1, <1>2, <2>1 DEF RowsFacts
  <2> QED BY <1>1, <1>2, <2>1, <2>2
<1>5. CASE d \in unrecorded
  <2>1. recordable  BY <1>5 DEF RowsFacts, ShallRecord
  <2> QED BY <1>1, <1>2, <1>5, <2>1 DEF RowsFacts
<1> QED BY <1>1, <1>3, <1>4, <1>5 DEF RowsFacts, IsLost

\* The last row is that of a data that is over, and there is none after it.
LEMMA RemarkIsRight ==
  ASSUME TypeOK, RowsFacts, IdsFacts, LastRow # None
  PROVE  /\ rows[LastRow].data <= Logged
         /\ \A i \in DOMAIN rows : ~(i > LastRow)
<1>1. /\ Len(rows) \in Nat /\ LastRow = Len(rows) /\ LastRow \in 1..Len(rows)
      /\ DOMAIN rows = 1..Len(rows)
  BY TypeFacts, LastRowFacts DEF None
<1> QED BY <1>1 DEF RowsFacts

\* insert_feedback attaches each entry to a right row.
LEMMA RecordFacts ==
  ASSUME TypeOK, RowsFacts, IdsFacts, pc # "prepared", Logged \in Nat, NEW entries, Record(entries),
         \A e \in entries : e \in [born : Data, tg : Sources] /\ Recordable(e)
  PROVE  lastFbk' \subseteq lastFbk \cup {made} /\ NewFeedback
<1>1. lastFbk' \subseteq lastFbk \cup {made}  BY DEF Record
<1>2. SUFFICES ASSUME NEW r \in fbkRows'
               PROVE  /\ r \in [id : Nat, born : Data, over : Data, tg : Sources]
                      /\ r.id <= Len(rows) /\ r.over <= Logged /\ RightRow(r)
  BY <1>1 DEF NewFeedback
<1>3. PICK e \in entries :
        ShallRecord /\ r = [id |-> RowFor(e.tg), born |-> e.born, over |-> Over, tg |-> e.tg]
  BY DEF Record
<1>4. /\ e.born \in Data /\ e.tg \in Sources /\ Recordable(e)
      /\ r.id = RowFor(e.tg) /\ r.born = e.born /\ r.over = Over /\ r.tg = e.tg
  BY <1>3
<1>5. LastRow \in Nat /\ LastRow <= Len(rows) /\ Len(rows) \in Nat
  BY LastRowFacts DEF TypeOK, None
<1>6. Over = Logged /\ Over \in Data /\ Data \subseteq Nat
  <2>1. Over = Logged  BY DEF Over, Logged
  <2>2. Len(list) \in Nat /\ made \in Nat /\ made <= MaxData /\ MaxData \in Nat /\ Data = 0..MaxData
    BY TypeFacts
  <2> QED BY <2>1, <2>2 DEF Over
<1>7. CASE e.tg \in {"any", "fmk"}
  <2>1. RowFor(e.tg) = LastRow  BY <1>7 DEF RowFor
  <2>2. CASE e.born \in 0..Logged
    <3>1. RightRow(r)
      BY <1>3, <1>4, <1>6, <1>7, <2>1, <2>2, AnyIsRight DEF RightRow, AnswersRight
    <3> QED BY <1>3, <1>4, <1>5, <1>6, <2>1, <3>1
  <2>3. CASE e.tg = "fmk" /\ e.born > Logged
    <3>1. ~(e.born <= Logged)
      <4>1. e.born \in Nat /\ Logged \in Nat  BY <1>4, <1>6
      <4> QED BY <2>3, <4>1
    <3>2. RightRow(r)
      BY <1>4, <1>6, <2>1, <2>3, <3>1, RemarkIsRight DEF RightRow, RemarksRight
    <3> QED BY <1>3, <1>4, <1>5, <1>6, <2>1, <3>2
  <2> QED BY <1>4, <1>7, <2>2, <2>3, RecordingAssumption DEF Recordable, RecordingAssumption
<1>8. CASE e.tg \notin {"any", "fmk"}
  <2>1. /\ e.tg \in Targets /\ e.born = last[e.tg] /\ RowFor(e.tg) = lastIds[e.tg]
        /\ last[e.tg] <= Logged
    BY <1>4, <1>8 DEF Recordable, RowFor
  <2>2. lastIds[e.tg] \in Nat /\ lastIds[e.tg] <= Len(rows) /\ last[e.tg] \in Nat /\ Logged \in Int
    BY <2>1 DEF TypeOK, IdsFacts, Data, Logged
  <2>3. RightRow(r)
    BY <1>4, <1>6, <1>8, <2>1, <2>2 DEF RightRow, AnswersRight, IdsFacts, IsLost, None
  <2> QED BY <1>3, <1>4, <1>6, <2>1, <2>2, <2>3
<1> QED BY <1>7, <1>8

-----------------------------------------------------------------------------
(* What a step leaves as it was.                                           *)

LEMMA RowsKept ==
  ASSUME RowsFacts, UNCHANGED <<explicit, rows, missing, unrecorded>>, Logged' = Logged,
         recordable' => recordable
  PROVE  RowsFacts'
BY DEF RowsFacts, IsLost

LEMMA IdsKept ==
  ASSUME TypeOK, IdsFacts, UNCHANGED <<rows, lastIds, last, missing, unrecorded>>,
         Logged' = Logged, made' \in Nat, made <= made',
         \A i \in 1..Len(lgFbk') : lgFbk'[i] <= made',
         Pending => Pending' /\ list' = list
  PROVE  IdsFacts'
<1>1. \A t \in Targets : last[t] <= made'  BY TypeFacts DEF IdsFacts
<1>2. ASSUME NEW t \in Targets
      PROVE  /\ lastIds'[t] <= Len(rows') /\ last'[t] <= made'
             /\ lastIds'[t] # 0 =>
                  /\ rows'[lastIds'[t]].tg = t
                  /\ \/ rows'[lastIds'[t]].data >= last'[t]
                     \/ IsLost(last[t])' \/ last'[t] > Logged'
             /\ last'[t] > Logged' => Pending' /\ t \in list'[last'[t] - Logged']
  BY <1>1 DEF IdsFacts, IsLost
<1> QED BY <1>2 DEF IdsFacts, IsLost

LEMMA StraightKept ==
  ASSUME Straight, UNCHANGED <<rows, nextId, made, pendingId, last, drift>>, Logged' = Logged,
         todo' \subseteq todo, todo' # {} => est' = est /\ list' = list,
         Pending' => Pending /\ list' = list
  PROVE  Straight'
<1>1. ASSUME NEW t \in todo' PROVE t \in todo /\ est' = est /\ NumberFor(t)' = NumberFor(t)
  BY <1>1 DEF NumberFor, Over, LastFor
<1>2. Pending' => (OneEach' <=> OneEach)
  BY DEF OneEach
<1> QED BY <1>1, <1>2 DEF Straight, None

LEMMA AsyncKept ==
  ASSUME AsyncFacts, UNCHANGED <<rows, missing, unrecorded, made, asyncRows>>, Logged' = Logged,
         Pending =>
            Pending' /\ list' = list /\ (Recorded' => Recorded)
  PROVE  AsyncFacts'
<1>1. \A d : (IsLost(d)' <=> IsLost(d)) /\ (HasItsRow(d)' <=> HasItsRow(d))
  BY DEF IsLost, HasItsRow
<1>2. ASSUME NEW d, Ahead(d) PROVE Ahead(d)'
  BY <1>2 DEF Ahead, OneEach
<1> QED BY <1>1, <1>2 DEF AsyncFacts

LEMMA FeedbackNew ==
  ASSUME NewFeedback, UNCHANGED <<rows, missing, unrecorded>>, Logged' = Logged
  PROVE  FbkFacts' /\ FeedbackRowRight'
BY DEF NewFeedback, FbkFacts, FeedbackRowRight, RightRow, AnswersRight, RemarksRight, None

LEMMA FeedbackKept ==
  ASSUME FbkFacts, FeedbackRowRight, fbkRows' = fbkRows, UNCHANGED rows,
         missing \subseteq missing', unrecorded \subseteq unrecorded',
         \A r \in fbkRows : r.over <= Logged'
  PROVE  FbkFacts' /\ FeedbackRowRight'
BY DEF FbkFacts, FeedbackRowRight, AnswersRight, RemarksRight, None

\* A target that is not ready in time may be noted at any moment.
LEMMA TimeoutFacts ==
  ASSUME TypeOK, NEW late \in Timeouts
  PROVE  \A e \in late : e \in [born : Data, tg : Sources] /\ Recordable(e)
<1>1. made \in Data /\ made \in Nat /\ Logged \in Int  BY TypeFacts DEF TypeOK
<1>2. Entry(made, "fmk") \in [born : Data, tg : Sources]  BY <1>1 DEF Entry, Sources
<1>3. made \in 0..Logged \/ made > Logged  BY <1>1
<1>4. Recordable(Entry(made, "fmk"))  BY <1>3 DEF Recordable, Entry
<1> QED BY <1>2, <1>4 DEF Timeouts

\* Feedback is retrieved when all the data of the round are over.
LEMMA RetrieveFacts ==
  ASSUME TypeOK, RowsFacts, IdsFacts, Logged = made, pc # "prepared",
         NEW S \in SUBSET Targets, NEW late \in Timeouts, Retrieve(S, late)
  PROVE  /\ lastFbk' \subseteq lastFbk \cup {made} /\ lgFbk' = <<>> /\ NewFeedback
<1> DEFINE E == Collected \cup OfProbes(S) \cup late
<1>1. \A e \in Collected : /\ e \in [born : Data, tg : Sources]
                           /\ Recordable(e)
  <2>1. SUFFICES ASSUME NEW i \in 1..Len(lgFbk)
                 PROVE  /\ Entry(lgFbk[i], "any") \in [born : Data, tg : Sources]
                        /\ Recordable(Entry(lgFbk[i], "any"))
    BY TypeFacts DEF Collected
  <2>2. lgFbk[i] \in Data /\ lgFbk[i] \in Nat /\ lgFbk[i] <= made
    BY TypeFacts DEF IdsFacts
  <2>3. lgFbk[i] \in 0..Logged  BY <2>2, TypeFacts
  <2> QED BY <2>2, <2>3 DEF Entry, Recordable, Sources
<1>2. \A e \in OfProbes(S) : /\ e \in [born : Data, tg : Sources]
                             /\ Recordable(e)
  <2>1. SUFFICES ASSUME NEW t \in S
                 PROVE  /\ Entry(last[t], t) \in [born : Data, tg : Sources]
                        /\ Recordable(Entry(last[t], t))
    BY DEF OfProbes
  <2>2. t \in Targets /\ last[t] \in Data /\ last[t] <= made  BY TypeFacts DEF IdsFacts
  <2> QED BY <2>2 DEF Entry, Recordable, Sources
<1>3. Record(E) /\ lgFbk' = <<>>  BY DEF Retrieve
<1> HIDE DEF E
<1>4. \A e \in late : /\ e \in [born : Data, tg : Sources] /\ Recordable(e)
  BY TimeoutFacts
<1>5. \A e \in E : /\ e \in [born : Data, tg : Sources] /\ Recordable(e)
  BY <1>1, <1>2, <1>4 DEF E
<1>6. Logged \in Nat  BY TypeFacts
<1> QED BY <1>3, <1>5, <1>6, RecordFacts

-----------------------------------------------------------------------------
(* One step of the framework, but for logging.                             *)

LEMMA BeginKeeps ==
  ASSUME IInv, NEW m \in {"shell", "operator"}, NEW l \in Lists, Begin(m, l)
  PROVE  IInv'
<1>1. /\ pc = "idle" /\ list = <<>> /\ Len(list) = 0 /\ Logged = made
  BY TypeFacts DEF IInv, Begin, RoundFacts, Logged
<1>2. pc' = "prepared" /\ made' = made /\ Logged' = made
  BY DEF Begin, history, Logged
<1>3. PICK S \in SUBSET Targets, late \in Timeouts :
        IF AtBoundary THEN Retrieve(S, late) ELSE fbkRows' = {} /\ UNCHANGED <<lgFbk, lastFbk>>
  BY DEF Begin
<1>4. /\ lastFbk' \subseteq lastFbk \cup {made} /\ lgFbk' \in {lgFbk, <<>>} /\ NewFeedback
  BY <1>1, <1>3, RetrieveFacts DEF IInv, NewFeedback
<1>5. l \in Seq((SUBSET Targets) \ {{}}) /\ l # <<>> /\ made + Len(l) <= MaxData
  BY RecordingAssumption DEF RecordingAssumption, Begin
<1>6. /\ list' = l /\ list' \in Seq(SUBSET Targets) /\ Len(l) \in Nat
      /\ \A i \in 1..Len(l) : l[i] # {}
  <2>1. Len(l) \in Nat /\ \A i \in 1..Len(l) : l[i] \in (SUBSET Targets) \ {{}}
    BY <1>5, Elements
  <2>2. l \in Seq(SUBSET Targets)  BY <1>5
  <2> QED BY <2>1, <2>2 DEF Begin
<1>7. TypeOK'
  <2>1. fbkRows' \subseteq [id : Nat, born : Data, over : Data, tg : Sources]
    BY <1>4 DEF NewFeedback
  <2>2. lastFbk' \subseteq Data
    <3>1. lastFbk \subseteq Data /\ made \in Data  BY DEF IInv, TypeOK
    <3> QED BY <1>4, <3>1
  <2>3. lgFbk' \in Seq(Data)
    <3>1. <<>> \in Seq(Data) /\ lgFbk \in Seq(Data)  BY TypeFacts DEF IInv
    <3> QED BY <1>4, <3>1
  <2>4. countdown' \in 1..Burst
    BY RecordingAssumption DEF Begin, Countdown, RecordingAssumption, IInv, TypeOK
  <2> QED BY <1>2, <1>6, <2>1, <2>2, <2>3, <2>4 DEF Begin, IInv, TypeOK, ids, history
<1>8. RoundFacts'  BY <1>1, <1>2, <1>5, <1>6 DEF Begin, IInv, RoundFacts
<1>9. RowsFacts'  BY <1>1, <1>2, RowsKept DEF Begin, IInv, ids, history
<1>10. IdsFacts'
  <2>1. \A i \in 1..Len(lgFbk') : lgFbk'[i] <= made'  BY <1>2, <1>4 DEF IInv, IdsFacts
  <2> QED BY <1>1, <1>2, <2>1, IdsKept, TypeFacts DEF Begin, IInv, ids, history, Pending
<1>11. FbkFacts' /\ FeedbackRowRight'
  BY <1>1, <1>2, <1>4, FeedbackNew DEF Begin, ids, history
<1>12. Straight'
  <2>1. todo' = {}  BY <1>1 DEF Begin, IInv, RoundFacts
  <2> QED BY <1>1, <1>2, <2>1, StraightKept DEF Begin, IInv, ids, history, Pending
<1>13. AsyncFacts'  BY <1>1, <1>2, AsyncKept DEF Begin, IInv, ids, history, Pending
<1>14. CallbacksSeeFresh'  BY <1>2 DEF CallbacksSeeFresh
<1> QED BY <1>7, <1>8, <1>9, <1>10, <1>11, <1>12, <1>13, <1>14 DEF IInv

LEMMA RetrieveKeeps ==
  ASSUME IInv, RetrieveFeedback
  PROVE  IInv'
<1>1. /\ pc = "logged" /\ list = <<>> /\ Len(list) = 0 /\ Logged = made
  BY TypeFacts DEF IInv, RetrieveFeedback, RoundFacts, Logged
<1>2. pc' = "callbacks" /\ made' = made /\ list' = list /\ Logged' = made
  BY <1>1 DEF RetrieveFeedback, history, Logged
<1>3. PICK S \in SUBSET Targets :
        IF AtBoundary THEN Retrieve(S, {}) ELSE fbkRows' = {} /\ UNCHANGED <<lgFbk, lastFbk>>
  BY DEF RetrieveFeedback
<1>4. /\ lastFbk' \subseteq lastFbk \cup {made} /\ lgFbk' \in {lgFbk, <<>>} /\ NewFeedback
  <2>1. {} \in Timeouts  BY DEF Timeouts
  <2> QED BY <1>1, <1>3, <2>1, RetrieveFacts DEF IInv, NewFeedback
<1>5. TypeOK'
  <2>1. fbkRows' \subseteq [id : Nat, born : Data, over : Data, tg : Sources]
    BY <1>4 DEF NewFeedback
  <2>2. lastFbk' \subseteq Data
    <3>1. lastFbk \subseteq Data /\ made \in Data  BY DEF IInv, TypeOK
    <3> QED BY <1>4, <3>1
  <2>3. lgFbk' \in Seq(Data)
    <3>1. <<>> \in Seq(Data) /\ lgFbk \in Seq(Data)  BY TypeFacts DEF IInv
    <3> QED BY <1>4, <3>1
  <2> QED BY <1>2, <2>1, <2>2, <2>3 DEF RetrieveFeedback, IInv, TypeOK, ids, history
<1>6. RoundFacts'  BY <1>1, <1>2 DEF RetrieveFeedback, IInv, RoundFacts
<1>7. RowsFacts'  BY <1>1, <1>2, RowsKept DEF RetrieveFeedback, IInv, ids, history
<1>8. IdsFacts'
  <2>1. \A i \in 1..Len(lgFbk') : lgFbk'[i] <= made'  BY <1>2, <1>4 DEF IInv, IdsFacts
  <2> QED BY <1>1, <1>2, <2>1, IdsKept, TypeFacts DEF RetrieveFeedback, IInv, ids, history, Pending
<1>9. FbkFacts' /\ FeedbackRowRight'
  BY <1>1, <1>2, <1>4, FeedbackNew DEF RetrieveFeedback, ids, history
<1>10. Straight'
  BY <1>1, <1>2, StraightKept DEF RetrieveFeedback, IInv, ids, history, Pending
<1>11. AsyncFacts'  BY <1>1, <1>2, AsyncKept DEF RetrieveFeedback, IInv, ids, history, Pending
<1>12. CallbacksSeeFresh'  BY <1>1, <1>2, <1>4 DEF IInv, CallbacksSeeFresh
<1> QED BY <1>5, <1>6, <1>7, <1>8, <1>9, <1>10, <1>11, <1>12 DEF IInv

LEMMA EndKeeps ==
  ASSUME IInv, EndRound \/ OperatorFeedback
  PROVE  IInv'
<1>1. /\ pc = "callbacks" /\ list = <<>> /\ Len(list) = 0 /\ Logged = made
  BY TypeFacts DEF IInv, EndRound, OperatorFeedback, RoundFacts, Logged
<1>2. pc' = "idle" /\ made' = made /\ list' = list /\ Logged' = made
  BY <1>1 DEF EndRound, OperatorFeedback, history, Logged
<1>3. lastFbk' \subseteq Data /\ NewFeedback
  <2>1. CASE fbkRows' = {} /\ lastFbk' = {}  BY <2>1 DEF NewFeedback
  <2>2. CASE ~(fbkRows' = {} /\ lastFbk' = {})
    <3>1. /\ ShallRecord /\ lastFbk' = {made}
          /\ fbkRows' = {[id |-> LastRow, born |-> made, over |-> Over, tg |-> "any"]}
      BY <2>2 DEF EndRound, OperatorFeedback
    <3>2. /\ LastRow \in {None, Len(rows)} /\ LastRow \in Nat /\ made \in 0..Logged
          /\ Len(rows) \in Nat /\ made \in Data /\ made \in Nat /\ Over = made
      BY <1>1, LastRowFacts, TypeFacts DEF IInv, TypeOK, Over
    <3>3. LastRow # None => rows[LastRow].data >= made \/ made \in missing
      BY <3>1, <3>2, AnyIsRight DEF IInv
    <3> DEFINE r == [id |-> LastRow, born |-> made, over |-> made, tg |-> "any"]
    <3>4. RightRow(r)  BY <3>2, <3>3 DEF RightRow, AnswersRight
    <3>5. /\ r \in [id : Nat, born : Data, over : Data, tg : Sources]
          /\ r.id <= Len(rows) /\ r.over <= Logged
      BY <1>1, <3>2 DEF None, Sources
    <3> QED BY <3>1, <3>2, <3>4, <3>5 DEF NewFeedback
  <2> QED BY <2>1, <2>2
<1>4. TypeOK'
  <2>1. fbkRows' \subseteq [id : Nat, born : Data, over : Data, tg : Sources]
    BY <1>3 DEF NewFeedback
  <2>2. countdown' \in 1..Burst
    BY RecordingAssumption
    DEF EndRound, OperatorFeedback, Countdown, RecordingAssumption, IInv, TypeOK
  <2> QED BY <1>2, <1>3, <2>1, <2>2 DEF EndRound, OperatorFeedback, IInv, TypeOK, ids, history
<1>5. RoundFacts'  BY <1>1, <1>2 DEF EndRound, OperatorFeedback, IInv, RoundFacts
<1>6. RowsFacts'  BY <1>1, <1>2, RowsKept DEF EndRound, OperatorFeedback, IInv, ids, history
<1>7. IdsFacts'
  <2>1. \A i \in 1..Len(lgFbk') : lgFbk'[i] <= made'
    BY <1>2 DEF EndRound, OperatorFeedback, IInv, IdsFacts
  <2> QED BY <1>1, <1>2, <2>1, IdsKept, TypeFacts
          DEF EndRound, OperatorFeedback, IInv, ids, history, Pending
<1>8. FbkFacts' /\ FeedbackRowRight'
  BY <1>1, <1>2, <1>3, FeedbackNew DEF EndRound, OperatorFeedback, ids, history
<1>9. Straight'
  BY <1>1, <1>2, StraightKept DEF EndRound, OperatorFeedback, IInv, ids, history, Pending
<1>10. AsyncFacts'
  BY <1>1, <1>2, AsyncKept DEF EndRound, OperatorFeedback, IInv, ids, history, Pending
<1>11. CallbacksSeeFresh'  BY <1>2 DEF CallbacksSeeFresh
<1> QED BY <1>4, <1>5, <1>6, <1>7, <1>8, <1>9, <1>10, <1>11 DEF IInv

LEMMA StopKeeps ==
  ASSUME IInv, Stop
  PROVE  IInv'
<1>1. /\ pc = "idle" /\ list = <<>> /\ Len(list) = 0 /\ Logged = made
  BY TypeFacts DEF IInv, Stop, RoundFacts, Logged
<1>2. pc' = "stopping" /\ made' = made /\ list' = list /\ Logged' = made
  BY <1>1 DEF Stop, history, Logged
<1>3. Retrieve({}, {})
  <2>1. OfProbes({}) = {}  BY DEF OfProbes
  <2>2. Collected \cup OfProbes({}) \cup {} = Collected  BY <2>1
  <2> QED BY <2>2 DEF Stop, Retrieve
<1>4. lastFbk' \subseteq lastFbk \cup {made} /\ lgFbk' = <<>> /\ NewFeedback
  BY <1>1, <1>3, RetrieveFacts DEF IInv, Timeouts
<1>5. TypeOK'
  <2>1. fbkRows' \subseteq [id : Nat, born : Data, over : Data, tg : Sources]
    BY <1>4 DEF NewFeedback
  <2>2. lastFbk' \subseteq Data /\ lgFbk' \in Seq(Data)
    <3>1. lastFbk \subseteq Data /\ made \in Data /\ <<>> \in Seq(Data)  BY DEF IInv, TypeOK
    <3> QED BY <1>4, <3>1
  <2> QED BY <1>2, <2>1, <2>2 DEF Stop, IInv, TypeOK, ids, history
<1>6. RoundFacts'  BY <1>1, <1>2 DEF Stop, IInv, RoundFacts
<1>7. RowsFacts'  BY <1>1, <1>2, RowsKept DEF Stop, IInv, ids, history
<1>8. IdsFacts'
  <2>1. \A i \in 1..Len(lgFbk') : lgFbk'[i] <= made'  BY <1>4
  <2> QED BY <1>1, <1>2, <2>1, IdsKept, TypeFacts DEF Stop, IInv, ids, history, Pending
<1>9. FbkFacts' /\ FeedbackRowRight'  BY <1>1, <1>2, <1>4, FeedbackNew DEF Stop, ids, history
<1>10. Straight'  BY <1>1, <1>2, StraightKept DEF Stop, IInv, ids, history, Pending
<1>11. AsyncFacts'  BY <1>1, <1>2, AsyncKept DEF Stop, IInv, ids, history, Pending
<1>12. CallbacksSeeFresh'  BY <1>2 DEF CallbacksSeeFresh
<1> QED BY <1>5, <1>6, <1>7, <1>8, <1>9, <1>10, <1>11, <1>12 DEF IInv

\* The rows stay, but neither the targets nor the logger know of them any more.
LEMMA RelaunchKeeps ==
  ASSUME IInv, Relaunch
  PROVE  IInv'
<1>1. /\ pc = "stopping" /\ list = <<>> /\ Len(list) = 0 /\ Logged = made
  BY TypeFacts DEF IInv, Relaunch, RoundFacts, Logged
<1>2. pc' = "idle" /\ made' = made /\ list' = list /\ Logged' = made
  BY <1>1 DEF Relaunch, Logged
<1>3. \A t \in Targets : last'[t] = 0 /\ lastIds'[t] = 0 /\ pendingId'[t] = 0
  BY DEF Relaunch, Nothing
<1>4. TypeOK'
  <2>1. 0 \in Data /\ 0 \in Nat  BY TypeFacts DEF IInv
  <2>2. last' \in [Targets -> Data] /\ lastIds' \in [Targets -> Nat] /\ pendingId' \in [Targets -> Nat]
    BY <2>1 DEF Relaunch, Nothing
  <2>3. countdown' \in 1..Burst  BY RecordingAssumption DEF Relaunch, RecordingAssumption
  <2>4. lgFbk' \in Seq(Data)  BY DEF Relaunch
  <2> QED BY <1>2, <2>2, <2>3, <2>4 DEF Relaunch, IInv, TypeOK
<1>5. RoundFacts'  BY <1>1, <1>2 DEF Relaunch, IInv, RoundFacts
<1>6. RowsFacts'  BY <1>1, <1>2, RowsKept DEF Relaunch, IInv
<1>7. IdsFacts'
  <2>1. Len(rows) \in Nat /\ made \in Nat /\ rows' = rows /\ lgFbk' = <<>>
    BY TypeFacts DEF Relaunch, IInv
  <2> QED BY <1>2, <1>3, <2>1 DEF IdsFacts
<1>8. FbkFacts' /\ FeedbackRowRight'
  <2>1. fbkRows' = {}  BY DEF Relaunch
  <2> QED BY <2>1 DEF FbkFacts, FeedbackRowRight
<1>9. Straight'
  <2>1. todo = {} /\ todo' = {} /\ UNCHANGED <<rows, nextId, drift>>
    BY <1>1 DEF IInv, RoundFacts, Relaunch
  <2> QED BY <1>1, <1>2, <1>3, <2>1 DEF IInv, Straight, None, Pending
<1>10. AsyncFacts'  BY <1>1, <1>2, AsyncKept DEF Relaunch, IInv, Pending
<1>11. CallbacksSeeFresh'  BY <1>2 DEF CallbacksSeeFresh
<1> QED BY <1>4, <1>5, <1>6, <1>7, <1>8, <1>9, <1>10, <1>11 DEF IInv

\* The round is over for the framework: its data are lost, and the count is no longer
\* right.
LEMMA FailedKeeps ==
  ASSUME IInv, SendingFailed
  PROVE  IInv'
<1>1. /\ pc = "sending" /\ todo = {} /\ Logged = made - Len(list) /\ Logged \in Nat
      /\ Logged <= made /\ Len(list) \in Nat /\ made \in Nat /\ keep
  BY TypeFacts DEF IInv, SendingFailed, RoundFacts, Logged
<1>2. /\ pc' = "idle" /\ made' = made /\ list' = <<>> /\ Logged' = made /\ todo' = {}
      /\ UNCHANGED <<explicit, rows, unrecorded, recordable, lastIds, last, lgFbk, fbkRows>>
  <2>1. Len(<<>>) = 0  OBVIOUS
  <2> QED BY <1>1, <2>1 DEF SendingFailed, Logged, ids, fbks
<1>3. /\ missing' = missing \cup (Logged + 1..made)
      /\ \A d : IsLost(d) => IsLost(d)'
  BY <1>1 DEF SendingFailed, Current, Over, IsLost
<1>4. \A d \in Nat : d > Logged /\ d <= made => IsLost(d)'
  BY <1>1, <1>3 DEF IsLost
<1>5. TypeOK'
  <2>1. missing' \cup unrecorded' \subseteq Data
    <3>1. Logged + 1..made \subseteq Data  BY <1>1, TypeFacts DEF IInv
    <3> QED BY <1>2, <1>3, <3>1 DEF IInv, TypeOK
  <2>2. est' \in [Targets -> Nat]  BY DEF SendingFailed, Nothing
  <2>3. list' \in Seq(SUBSET Targets)  BY <1>2
  <2> QED BY <1>2, <2>1, <2>2, <2>3 DEF SendingFailed, IInv, TypeOK, ids, fbks
<1>6. RoundFacts'
  <2>1. Len(<<>>) = 0  OBVIOUS
  <2> QED BY <1>1, <1>2, <2>1 DEF SendingFailed, RoundFacts
<1>7. RowsFacts'
  <2>1. \A i \in 1..Len(rows) : rows[i].data <= made
    BY <1>1, TypeFacts DEF IInv, RowsFacts
  <2>2. \A d \in 1..made : IsLost(d)' \/ \E i \in 1..Len(rows) : rows[i].data = d
    <3> SUFFICES ASSUME NEW d \in 1..made
                 PROVE  IsLost(d)' \/ \E i \in 1..Len(rows) : rows[i].data = d
      OBVIOUS
    <3>1. CASE d > Logged  BY <1>1, <1>4, <3>1
    <3>2. CASE ~(d > Logged)
      <4>1. d \in 1..Logged  BY <1>1, <3>2
      <4> QED BY <1>3, <4>1 DEF IInv, RowsFacts
    <3> QED BY <3>1, <3>2
  <2>3. \A d \in unrecorded : explicit /\ d <= made /\ (recordable => rows # <<>> /\ rows[Len(rows)].data >= d)
    <3> SUFFICES ASSUME NEW d \in unrecorded
                 PROVE  explicit /\ d <= made /\ (recordable => rows # <<>> /\ rows[Len(rows)].data >= d)
      OBVIOUS
    <3>1. d \in Nat  BY TypeFacts DEF IInv, TypeOK
    <3> QED BY <1>1, <3>1 DEF IInv, RowsFacts
  <2>4. \A i, j \in 1..Len(rows) : i <= j => rows[i].data <= rows[j].data
    BY DEF IInv, RowsFacts
  <2> QED BY <1>2, <2>1, <2>2, <2>3, <2>4 DEF RowsFacts
<1>8. IdsFacts'
  <2>1. ASSUME NEW t \in Targets
        PROVE  /\ lastIds[t] <= Len(rows) /\ last[t] <= made
               /\ lastIds[t] # 0 =>
                    /\ rows[lastIds[t]].tg = t
                    /\ rows[lastIds[t]].data >= last[t] \/ last[t] \in missing' \cup unrecorded'
    <3>1. last[t] <= made /\ last[t] \in Nat  BY TypeFacts DEF IInv, IdsFacts
    <3>2. last[t] > Logged => last[t] \in missing' \cup unrecorded'
      BY <1>4, <3>1 DEF IsLost
    <3>3. IsLost(last[t]) => last[t] \in missing' \cup unrecorded'  BY <1>3 DEF IsLost
    <3> QED BY <3>1, <3>2, <3>3 DEF IInv, IdsFacts
  <2>2. \A t \in Targets : ~(last[t] > made)
    BY <1>1, TypeFacts DEF IInv, IdsFacts
  <2>3. \/ \A t \in Targets : lastIds[t] = 0
        \/ \E t \in Targets : lastIds[t] = Len(rows)
    BY DEF IInv, IdsFacts
  <2>4. \A i \in 1..Len(lgFbk) : lgFbk[i] <= made  BY DEF IInv, IdsFacts
  <2> QED BY <1>2, <2>1, <2>2, <2>3, <2>4 DEF IdsFacts, IsLost
<1>9. FbkFacts' /\ FeedbackRowRight'
  <2>1. \A r \in fbkRows : r.over \in Nat /\ r.over <= Logged
    <3>1. Data \subseteq Nat  BY TypeFacts DEF IInv
    <3> QED BY <3>1 DEF IInv, FbkFacts, TypeOK
  <2>2. \A r \in fbkRows : r.over <= Logged'  BY <1>1, <1>2, <2>1
  <2> QED BY <1>2, <1>3, <2>2, FeedbackKept DEF IInv
<1>10. Straight'  BY DEF SendingFailed, Straight
<1>11. AsyncFacts'
  <2> SUFFICES ASSUME NEW r \in asyncRows, r.guessed, ~r.drift
               PROVE  r.id = r.data /\ (IsLost(r.data)' \/ HasItsRow(r.data)')
    BY DEF SendingFailed, AsyncFacts
  <2>1. r.id = r.data /\ (IsLost(r.data) \/ HasItsRow(r.data) \/ Ahead(r.data)) /\ r.data \in Nat
    <3>1. r.data \in Data  BY DEF IInv, TypeOK
    <3> QED BY <3>1, TypeFacts DEF IInv, AsyncFacts
  <2>2. HasItsRow(r.data) => HasItsRow(r.data)'  BY <1>2 DEF HasItsRow
  <2>3. Ahead(r.data) => IsLost(r.data)'  BY <1>4, <2>1 DEF Ahead
  <2> QED BY <1>3, <2>1, <2>2, <2>3
<1>12. CallbacksSeeFresh'  BY <1>2 DEF CallbacksSeeFresh
<1> QED BY <1>5, <1>6, <1>7, <1>8, <1>9, <1>10, <1>11, <1>12 DEF IInv

LEMMA DoneKeeps ==
  ASSUME IInv, SendingDone
  PROVE  IInv'
<1>1. /\ pc = "sending" /\ todo = {} /\ list # <<>> /\ keep
  BY DEF IInv, SendingDone, RoundFacts
<1>2. /\ pc' = (IF mode = "shell" THEN "waiting" ELSE "sent") /\ made' = made /\ list' = list /\ Logged' = Logged /\ lastFbk' = {}
      /\ todo' = {} /\ keep' \in BOOLEAN /\ mode' = mode /\ mode \in {"shell", "operator"}
  BY <1>1 DEF SendingDone, history, Logged, FlushFeedback, IInv, TypeOK
<1>3. TypeOK'
  <2>1. est' \in [Targets -> Nat]  BY DEF SendingDone, Nothing
  <2> QED BY <1>2, <2>1 DEF SendingDone, IInv, TypeOK, ids, history
<1>4. RoundFacts'  BY <1>1, <1>2 DEF SendingDone, IInv, RoundFacts
<1>5. RowsFacts'  BY <1>2, RowsKept DEF SendingDone, IInv, ids, history
<1>6. IdsFacts'
  <2>1. \A i \in 1..Len(lgFbk') : lgFbk'[i] <= made'  BY <1>2 DEF SendingDone, IInv, IdsFacts
  <2> QED BY <1>1, <1>2, <2>1, IdsKept, TypeFacts DEF SendingDone, IInv, ids, history, Pending
<1>7. FbkFacts' /\ FeedbackRowRight'
  BY <1>2, FeedbackKept DEF SendingDone, IInv, FbkFacts, ids, history
<1>8. Straight'  BY <1>1, <1>2, StraightKept DEF SendingDone, IInv, ids, history, Pending
<1>9. AsyncFacts'  BY <1>1, <1>2, AsyncKept DEF SendingDone, IInv, ids, history, Recorded, Pending
<1>10. CallbacksSeeFresh'  BY <1>2 DEF CallbacksSeeFresh
<1> QED BY <1>3, <1>4, <1>5, <1>6, <1>7, <1>8, <1>9, <1>10 DEF IInv

\* The shell waits before it logs the data, and what it remarks then is attached to the
\* data before.
LEMMA WaitKeeps ==
  ASSUME IInv, Wait
  PROVE  IInv'
<1>1. /\ pc = "waiting" /\ Logged \in Nat /\ Logged = made - Len(list)
      /\ mode \in {"shell", "operator"} /\ (list # <<>> <=> mode = "shell")
  BY TypeFacts DEF IInv, Wait, RoundFacts, Logged, TypeOK
<1>2. /\ pc' = (IF mode = "shell" THEN "sent" ELSE "logged")
      /\ UNCHANGED <<explicit, mode, list, todo, failed, keep, est, countdown, ids, lgFbk, asyncRows, history>>
      /\ made' = made /\ Logged' = Logged
  BY <1>1 DEF Wait, history, Logged
<1>3. (Pending <=> mode = "shell") /\ (Pending' <=> mode = "shell")
  BY <1>1, <1>2 DEF Pending
<1>4. list = <<>> => Logged = made  BY <1>1, TypeFacts DEF IInv
<1>5. PICK late \in Timeouts : Record(late)  BY DEF Wait
<1>6. lastFbk' \subseteq lastFbk \cup {made} /\ NewFeedback
  BY <1>1, <1>5, TimeoutFacts, RecordFacts DEF IInv
<1>7. TypeOK'
  <2>1. fbkRows' \subseteq [id : Nat, born : Data, over : Data, tg : Sources]
    BY <1>6 DEF NewFeedback
  <2>2. lastFbk' \subseteq Data
    <3>1. lastFbk \subseteq Data /\ made \in Data  BY DEF IInv, TypeOK
    <3> QED BY <1>6, <3>1
  <2> QED BY <1>2, <2>1, <2>2 DEF IInv, TypeOK, ids, history
<1>8. RoundFacts'  BY <1>1, <1>2 DEF IInv, RoundFacts
<1>9. RowsFacts'  BY <1>2, RowsKept DEF IInv, ids, history
<1>10. IdsFacts'
  <2>1. \A i \in 1..Len(lgFbk') : lgFbk'[i] <= made'  BY <1>2 DEF IInv, IdsFacts
  <2> QED BY <1>1, <1>2, <1>3, <2>1, IdsKept, TypeFacts DEF IInv, ids, history
<1>11. FbkFacts' /\ FeedbackRowRight'
  BY <1>2, <1>6, FeedbackNew DEF ids, history
<1>12. Straight'  BY <1>2, <1>3, StraightKept DEF IInv, ids, history
<1>13. AsyncFacts'  BY <1>2, <1>3, AsyncKept DEF IInv, ids, history, Recorded
<1>14. CallbacksSeeFresh'  BY <1>1, <1>2, <1>6 DEF IInv, CallbacksSeeFresh
<1> QED BY <1>7, <1>8, <1>9, <1>10, <1>11, <1>12, <1>13, <1>14 DEF IInv

-----------------------------------------------------------------------------
(* One step of the sending.                                                *)

\* The number of the data t is sent: one that is not over, and is for t.
LEMMA NumberFacts ==
  ASSUME TypeOK, RoundFacts, NEW t \in todo
  PROVE  /\ pc = "sending" /\ Logged = made - Len(list)
         /\ NumberFor(t) = Logged + LastFor(t) /\ LastFor(t) \in 1..Len(list)
         /\ t \in list[LastFor(t)] /\ NumberFor(t) \in Data /\ NumberFor(t) \in Nat
         /\ Logged < NumberFor(t) /\ NumberFor(t) <= made
<1>1. pc = "sending" /\ (\E i \in 1..Len(list) : t \in list[i]) /\ Len(list) <= made
  BY DEF RoundFacts
<1>2. LastFor(t) \in 1..Len(list) /\ t \in list[LastFor(t)]  BY <1>1, LastForFacts
<1>3. Logged = made - Len(list) /\ NumberFor(t) = made - Len(list) + LastFor(t)
  BY <1>1 DEF Logged, NumberFor, Over
<1>4. made \in Nat /\ Len(list) \in Nat /\ Data = 0..MaxData /\ made <= MaxData /\ MaxData \in Nat
  BY TypeFacts
<1> QED BY <1>1, <1>2, <1>3, <1>4

LEMMA SentKeeps ==
  ASSUME IInv, NEW t \in Targets, Sent(t)
  PROVE  IInv'
<1> DEFINE n == NumberFor(t)
<1>1. /\ t \in todo /\ pc = "sending" /\ Logged = made - Len(list)
      /\ n = Logged + LastFor(t) /\ LastFor(t) \in 1..Len(list) /\ t \in list[LastFor(t)]
      /\ n \in Data /\ n \in Nat /\ Logged < n /\ n <= made
  BY NumberFacts DEF IInv, Sent
<1>2. /\ UNCHANGED <<explicit, pc, mode, list, failed, keep, est, countdown, nextId, rows, lastIds,
                     recordable, lgFbk, lastFbk, fbkRows, asyncRows, made, missing, unrecorded, drift>>
      /\ Logged' = Logged /\ todo' = todo \ {t}
  BY DEF Sent, fbks, Logged
<1>3. /\ last' = [last EXCEPT ![t] = n] /\ pendingId' = [pendingId EXCEPT ![t] = est[t]]
      /\ \A u \in Targets : last'[u] = IF u = t THEN n ELSE last[u]
      /\ \A u \in Targets : pendingId'[u] = IF u = t THEN est[t] ELSE pendingId[u]
  BY DEF Sent, IInv, TypeOK
<1> HIDE DEF n
<1>4. TypeOK'
  <2>1. last' \in [Targets -> Data]  BY <1>1, <1>3 DEF IInv, TypeOK
  <2>2. pendingId' \in [Targets -> Nat]  BY <1>3 DEF IInv, TypeOK
  <2> QED BY <1>2, <2>1, <2>2 DEF IInv, TypeOK
<1>5. RoundFacts'  BY <1>2 DEF IInv, RoundFacts
<1>6. RowsFacts'  BY <1>2, RowsKept DEF IInv
<1>7. IdsFacts'
  <2>1. ASSUME NEW u \in Targets
        PROVE  /\ lastIds[u] <= Len(rows) /\ last'[u] <= made
               /\ lastIds[u] # 0 =>
                    /\ rows[lastIds[u]].tg = u
                    /\ \/ rows[lastIds[u]].data >= last'[u]
                       \/ last'[u] \in missing \cup unrecorded \/ last'[u] > Logged
               /\ last'[u] > Logged => Pending /\ u \in list[last'[u] - Logged]
    <3>1. CASE u = t
      <4>1. last'[u] - Logged = LastFor(t)  BY <1>1, <1>3, <3>1, TypeFacts DEF IInv
      <4>2. Pending /\ lastIds[u] <= Len(rows) /\ (lastIds[u] # 0 => rows[lastIds[u]].tg = u)
        BY <1>1, LastForFacts, TypeFacts DEF IInv, IdsFacts, RoundFacts, Pending
      <4>3. last'[u] = n  BY <1>3, <3>1
      <4> QED BY <1>1, <3>1, <4>1, <4>2, <4>3
    <3>2. CASE u # t  BY <1>3, <3>2 DEF IInv, IdsFacts, IsLost
    <3> QED BY <3>1, <3>2
  <2> QED BY <1>2, <2>1 DEF IInv, IdsFacts, IsLost, Pending
<1>8. FbkFacts' /\ FeedbackRowRight'  BY <1>2, FeedbackKept DEF IInv, FbkFacts
<1>9. Straight'
  <2> SUFFICES ASSUME ~drift PROVE Straight'  BY <1>2 DEF Straight
  <2>1. \A u \in Targets : pendingId'[u] \in {None, last'[u]}
    BY <1>1, <1>3 DEF IInv, Straight, n
  <2>2. \A u \in todo' : NumberFor(u)' = NumberFor(u)  BY <1>2 DEF NumberFor, Over, LastFor
  <2> QED BY <1>2, <2>1, <2>2 DEF IInv, Straight, OneEach, None, Pending
<1>10. AsyncFacts'  BY <1>2, AsyncKept DEF IInv, Recorded, Pending
<1>11. CallbacksSeeFresh'  BY <1>2 DEF IInv, CallbacksSeeFresh
<1> QED BY <1>4, <1>5, <1>6, <1>7, <1>8, <1>9, <1>10, <1>11 DEF IInv

LEMMA NotSentKeeps ==
  ASSUME IInv, NEW t \in Targets, NotReady(t) \/ Stuck(t)
  PROVE  IInv'
<1>1. pc = "sending" /\ Logged \in Nat /\ t \in todo
  BY NumberFacts, TypeFacts DEF IInv, NotReady, Stuck, RoundFacts, Logged
<1>2. /\ UNCHANGED <<explicit, pc, mode, list, keep, est, countdown, ids, lgFbk, asyncRows, history>>
      /\ Logged' = Logged /\ todo' = todo \ {t} /\ failed' \in BOOLEAN
  BY DEF NotReady, Stuck, fbks, ids, history, Logged, IInv, TypeOK
<1>3. \/ UNCHANGED <<lastFbk, fbkRows>>
      \/ lastFbk' \subseteq lastFbk \cup {made} /\ NewFeedback
  <2>1. CASE NotReady(t)  BY <2>1 DEF NotReady, fbks
  <2>2. CASE Stuck(t)
    <3> DEFINE E == {Entry(NumberFor(t), "fmk")}
    <3>1. NumberFor(t) \in Data /\ NumberFor(t) > Logged
      BY <1>1, NumberFacts DEF IInv
    <3>2. \A e \in E : e \in [born : Data, tg : Sources] /\ Recordable(e)
      BY <3>1 DEF Entry, Recordable, Sources
    <3>3. Record(E)  BY <2>2 DEF Stuck
    <3> HIDE DEF E
    <3> QED BY <1>1, <3>2, <3>3, RecordFacts DEF IInv
  <2> QED BY <2>1, <2>2
<1>4. TypeOK'
  <2>1. fbkRows' \subseteq [id : Nat, born : Data, over : Data, tg : Sources]
    BY <1>3 DEF NewFeedback, IInv, TypeOK
  <2>2. lastFbk' \subseteq Data
    <3>1. lastFbk \subseteq Data /\ made \in Data  BY DEF IInv, TypeOK
    <3> QED BY <1>3, <3>1
  <2> QED BY <1>2, <2>1, <2>2 DEF IInv, TypeOK, ids, history
<1>5. RoundFacts'  BY <1>2 DEF IInv, RoundFacts, history
<1>6. RowsFacts'  BY <1>2, RowsKept DEF IInv, ids, history
<1>7. IdsFacts'
  <2>1. \A i \in 1..Len(lgFbk') : lgFbk'[i] <= made'  BY <1>2 DEF IInv, IdsFacts, history
  <2> QED BY <1>1, <1>2, <2>1, IdsKept, TypeFacts DEF IInv, ids, history, Pending
<1>8. FbkFacts' /\ FeedbackRowRight'
  <2>1. UNCHANGED <<rows, missing, unrecorded>>  BY <1>2 DEF ids, history
  <2>2. CASE NewFeedback  BY <1>2, <2>1, <2>2, FeedbackNew
  <2>3. CASE UNCHANGED fbkRows  BY <1>2, <2>1, <2>3, FeedbackKept DEF IInv, FbkFacts
  <2> QED BY <1>3, <2>2, <2>3
<1>9. Straight'  BY <1>1, <1>2, StraightKept DEF IInv, ids, history, Pending
<1>10. AsyncFacts'  BY <1>1, <1>2, AsyncKept DEF IInv, ids, history, Recorded, Pending
<1>11. CallbacksSeeFresh'  BY <1>1, <1>2 DEF CallbacksSeeFresh
<1> QED BY <1>4, <1>5, <1>6, <1>7, <1>8, <1>9, <1>10, <1>11 DEF IInv

\* A data is for some targets, and there are finitely many.
LEMMA CountFacts ==
  ASSUME TypeOK, RoundFacts, NEW i \in 1..Len(list)
  PROVE  /\ IsFiniteSet(list[i]) /\ Cardinality(list[i]) \in Nat /\ Cardinality(list[i]) >= 1
<1>1. list[i] \in SUBSET Targets /\ list[i] # {}  BY TypeFacts DEF RoundFacts
<1>2. IsFiniteSet(Targets)  BY RecordingAssumption DEF RecordingAssumption
<1>3. IsFiniteSet(list[i])  BY <1>1, <1>2, FS_Subset
<1>4. Cardinality(list[i]) \in Nat /\ Cardinality(list[i]) # 0
  BY <1>1, <1>3, FS_CardinalityType, FS_EmptySet
<1> QED BY <1>3, <1>4

LEMMA GiveIdsKeeps ==
  ASSUME IInv, GiveIds
  PROVE  IInv'
<1>1. /\ pc = "prepared" /\ list # <<>> /\ Logged = made /\ made \in Nat /\ Len(list) \in Nat
      /\ made + Len(list) <= MaxData /\ MaxData \in Nat /\ keep /\ todo = {}
      /\ Data = 0..MaxData /\ Len(list) >= 1
  BY TypeFacts DEF IInv, GiveIds, RoundFacts, Logged
<1>2. /\ pc' = "sending" /\ list' = list /\ made' = made + Len(list) /\ Logged' = made
      /\ UNCHANGED <<explicit, mode, keep, countdown, pendingId, rows, lastIds, recordable, lgFbk,
                     lastFbk, asyncRows, last, missing, unrecorded>>
  <2>1. /\ pc' = "sending" /\ list' = list /\ made' = made + Len(list)
    BY DEF GiveIds
  <2> QED BY <1>1, <2>1 DEF GiveIds, Logged
<1>3. \A t : t \in todo' <=> \E i \in 1..Len(list) : t \in list[i]
  <2>1. DOMAIN list = 1..Len(list)  BY TypeFacts DEF IInv
  <2> QED BY <2>1 DEF GiveIds, ToSet
<1>4. \A t \in todo' : t \in Targets /\ LastFor(t) \in 1..Len(list)
  BY <1>3, LastForFacts, TypeFacts DEF IInv
<1>5. NextDataId \in Nat /\ nextId \in Nat /\ Len(rows) \in Nat
  BY TypeFacts DEF IInv, NextDataId, None
<1>6. \A i \in 1..Len(list) : IdOf(i) \in Nat /\ IdOf(i) = IF NextDataId = None THEN None ELSE NextDataId + i - 1
  BY <1>1, <1>5 DEF IdOf, None
<1>7. \A t \in Targets : est'[t] = IF t \in todo' THEN IdOf(LastFor(t)) ELSE None
  BY DEF GiveIds
<1>8. TypeOK'
  <2>1. made' \in Data  BY <1>1, <1>2
  <2>2. est' \in [Targets -> Nat]  BY <1>4, <1>6 DEF GiveIds, None
  <2>3. nextId' \in Nat
    <3>1. Len(list) \in 1..Len(list)  BY <1>1
    <3> QED BY <1>6, <3>1 DEF GiveIds
  <2>4. drift' \in BOOLEAN
    BY DEF GiveIds, IInv, TypeOK
  <2> QED BY <1>2, <1>4, <2>1, <2>2, <2>3, <2>4 DEF GiveIds, IInv, TypeOK
<1>9. RoundFacts'
  <2>1. Len(list') <= made'  BY <1>1, <1>2
  <2> QED BY <1>1, <1>2, <1>3, <2>1 DEF IInv, RoundFacts
<1>10. RowsFacts'  BY <1>1, <1>2, RowsKept DEF IInv
<1>11. IdsFacts'
  <2>1. made' \in Nat /\ made <= made'  BY <1>1, <1>2
  <2>2. \A i \in 1..Len(lgFbk') : lgFbk'[i] <= made'
    BY <1>1, <1>2, <2>1, TypeFacts DEF IInv, IdsFacts
  <2> QED BY <1>1, <1>2, <2>1, <2>2, IdsKept DEF IInv, Pending
<1>12. FbkFacts' /\ FeedbackRowRight'
  <2>1. fbkRows' = {}  BY DEF GiveIds
  <2> QED BY <2>1 DEF FbkFacts, FeedbackRowRight
<1>13. Straight'
  <2> SUFFICES ASSUME ~drift' PROVE Straight'  BY DEF Straight
  <2>1. ~drift /\ \A i \in 1..Len(list) - 1 : ~(Cardinality(list[i]) > 1)  BY DEF GiveIds
  <2>2. OneEach'
    <3> SUFFICES ASSUME NEW i \in 1..Len(list) - 1 PROVE Cardinality(list[i]) = 1
      BY <1>2 DEF OneEach
    <3>1. i \in 1..Len(list)  BY <1>1
    <3>2. Cardinality(list[i]) \in Nat /\ Cardinality(list[i]) >= 1
      BY <3>1, CountFacts DEF IInv
    <3> QED BY <2>1, <3>2
  <2>3. NextDataId \in {None, made + 1}
    <3>1. Len(rows) = made /\ nextId \in {None, made}  BY <1>1, <2>1 DEF IInv, Straight
    <3> QED BY <1>5, <3>1 DEF NextDataId, None
  <2>4. \A i \in 1..Len(list) : IdOf(i) \in {None, made + i}
    BY <1>1, <1>6, <2>3 DEF None
  <2>5. nextId' \in {None, made'}
    <3>1. Len(list) \in 1..Len(list)  BY <1>1
    <3> QED BY <1>2, <2>4, <3>1 DEF GiveIds
  <2>6. \A t \in todo' : est'[t] \in {None, NumberFor(t)'}
    <3> SUFFICES ASSUME NEW t \in todo' PROVE est'[t] \in {None, NumberFor(t)'}
      OBVIOUS
    <3>1. LastFor(t)' = LastFor(t) /\ LastFor(t) \in 1..Len(list)  BY <1>2, <1>4 DEF LastFor
    <3>2. NumberFor(t)' = made' - Len(list') + LastFor(t)'  BY DEF NumberFor, Over
    <3>3. NumberFor(t)' = made + LastFor(t)  BY <1>1, <1>2, <3>1, <3>2
    <3> QED BY <1>4, <1>7, <2>4, <3>3
  <2> QED BY <1>1, <1>2, <2>1, <2>2, <2>5, <2>6 DEF IInv, Straight, None
<1>14. AsyncFacts'
  <2> SUFFICES ASSUME NEW r \in asyncRows, r.guessed, ~r.drift
               PROVE  r.id = r.data /\ (IsLost(r.data)' \/ HasItsRow(r.data)')
    BY <1>2 DEF AsyncFacts
  <2>1. ~Ahead(r.data)  BY <1>1 DEF Ahead, Pending
  <2>2. r.id = r.data /\ (IsLost(r.data) \/ HasItsRow(r.data))  BY <2>1 DEF IInv, AsyncFacts
  <2> QED BY <1>2, <2>2 DEF IsLost, HasItsRow
<1>15. CallbacksSeeFresh'  BY <1>2 DEF CallbacksSeeFresh
<1> QED BY <1>8, <1>9, <1>10, <1>11, <1>12, <1>13, <1>14, <1>15 DEF IInv

-----------------------------------------------------------------------------
(* One step of another thread.                                             *)

LEMMA CollectKeeps ==
  ASSUME IInv, NEW t \in Targets, Collect(t)
  PROVE  IInv'
<1>1. /\ UNCHANGED <<explicit, round, countdown, ids, lastFbk, fbkRows, asyncRows, history>>
      /\ Logged' = Logged /\ made' = made /\ lgFbk' = Append(lgFbk, last[t])
  BY DEF Collect, Logged, round, history
<1>2. /\ lgFbk' \in Seq(Data) /\ Len(lgFbk') = Len(lgFbk) + 1
      /\ \A i \in 1..Len(lgFbk) + 1 : lgFbk'[i] = IF i = Len(lgFbk) + 1 THEN last[t] ELSE lgFbk[i]
  BY <1>1, TypeFacts DEF IInv
<1>3. TypeOK'  BY <1>1, <1>2 DEF IInv, TypeOK, round, ids, history
<1>4. RoundFacts'  BY <1>1 DEF IInv, RoundFacts, round
<1>5. RowsFacts'  BY <1>1, RowsKept DEF IInv, ids, history
<1>6. IdsFacts'
  <2>1. \A i \in 1..Len(lgFbk') : lgFbk'[i] <= made'
    BY <1>1, <1>2, TypeFacts DEF IInv, IdsFacts
  <2> QED BY <1>1, <2>1, IdsKept, TypeFacts DEF IInv, ids, history, round, Pending
<1>7. FbkFacts' /\ FeedbackRowRight'  BY <1>1, FeedbackKept DEF IInv, ids, history, FbkFacts
<1>8. Straight'  BY <1>1, StraightKept DEF IInv, ids, history, round, Pending
<1>9. AsyncFacts'  BY <1>1, AsyncKept DEF IInv, ids, history, round, Recorded, Pending
<1>10. CallbacksSeeFresh'  BY <1>1 DEF IInv, CallbacksSeeFresh, round
<1> QED BY <1>3, <1>4, <1>5, <1>6, <1>7, <1>8, <1>9, <1>10 DEF IInv

\* What is guessed is right as long as the count is, even before the data is logged.
LEMMA SendAsyncKeeps ==
  ASSUME IInv, NEW t \in Targets, SendAsync(t)
  PROVE  IInv'
<1> DEFINE r0 == [id |-> IF pendingId[t] = None THEN Len(rows) ELSE pendingId[t],
                  data |-> last[t], guessed |-> pendingId[t] # None, drift |-> drift]
<1>1. /\ UNCHANGED <<explicit, round, countdown, ids, fbks, history>>
      /\ Logged' = Logged /\ made' = made /\ asyncRows' = asyncRows \cup {r0}
  BY DEF SendAsync, Logged, round, history
<1>2. TypeOK'
  <2>1. r0 \in [id : Nat, data : Data, guessed : BOOLEAN, drift : BOOLEAN]
    BY TypeFacts DEF IInv, TypeOK
  <2> QED BY <1>1, <2>1 DEF IInv, TypeOK, round, ids, fbks, history
<1>3. RoundFacts'  BY <1>1 DEF IInv, RoundFacts, round
<1>4. RowsFacts'  BY <1>1, RowsKept DEF IInv, ids, history
<1>5. IdsFacts'
  <2>1. \A i \in 1..Len(lgFbk') : lgFbk'[i] <= made'  BY <1>1 DEF IInv, IdsFacts, fbks
  <2> QED BY <1>1, <2>1, IdsKept, TypeFacts DEF IInv, ids, history, round, Pending
<1>6. FbkFacts' /\ FeedbackRowRight'  BY <1>1, FeedbackKept DEF IInv, ids, fbks, history, FbkFacts
<1>7. Straight'  BY <1>1, StraightKept DEF IInv, ids, history, round, Pending
<1>8. AsyncFacts'
  <2>1. \A d : IsLost(d) \/ HasItsRow(d) \/ Ahead(d) =>
                 IsLost(d)' \/ HasItsRow(d)' \/ Ahead(d)'
    BY <1>1 DEF IsLost, HasItsRow, Ahead, OneEach, Recorded, round, ids, history, Pending
  <2>2. ASSUME pendingId[t] # None, ~drift
        PROVE  pendingId[t] = last[t] /\ (HasItsRow(last[t]) \/ Ahead(last[t]))
    <3>1. /\ Len(rows) = Logged /\ \A i \in 1..Len(rows) : rows[i].data = i
          /\ pendingId[t] = last[t] /\ last[t] # None
          /\ Pending => OneEach
      BY <2>2 DEF IInv, Straight
    <3>2. /\ last[t] \in Nat /\ last[t] # 0 /\ last[t] <= made /\ Len(rows) \in Nat
          /\ last[t] > Logged => Pending
      BY <3>1, TypeFacts DEF IInv, IdsFacts, None
    <3>3. CASE last[t] > Logged  BY <3>1, <3>2, <3>3 DEF Ahead
    <3>4. CASE ~(last[t] > Logged)
      <4>1. last[t] \in 1..Len(rows)  BY <3>1, <3>2, <3>4
      <4> QED BY <3>1, <4>1 DEF HasItsRow
    <3> QED BY <3>1, <3>3, <3>4
  <2>3. r0.guessed /\ ~r0.drift =>
          r0.id = r0.data /\ (IsLost(r0.data) \/ HasItsRow(r0.data) \/ Ahead(r0.data))
    BY <2>2
  <2> HIDE DEF r0
  <2>4. \A r \in asyncRows' : r.guessed /\ ~r.drift =>
          r.id = r.data /\ (IsLost(r.data) \/ HasItsRow(r.data) \/ Ahead(r.data))
    BY <1>1, <2>3 DEF IInv, AsyncFacts
  <2> QED BY <2>1, <2>4 DEF AsyncFacts
<1>9. CallbacksSeeFresh'  BY <1>1 DEF IInv, CallbacksSeeFresh, round, fbks, history
<1> QED BY <1>2, <1>3, <1>4, <1>5, <1>6, <1>7, <1>8, <1>9 DEF IInv

-----------------------------------------------------------------------------
(* Logging.                                                                *)

LEMMA IsSeq ==
  ASSUME NEW S, NEW n \in Nat, NEW q \in [1..n -> S]
  PROVE  q \in Seq(S) /\ Len(q) = n
OBVIOUS

LEMMA EmptyIsNone ==
  ASSUME NEW S, NEW q \in Seq(S)
  PROVE  q = <<>> <=> Len(q) = 0
OBVIOUS

LEMMA TailFacts ==
  ASSUME NEW S, NEW q \in Seq(S), q # <<>>
  PROVE  /\ Tail(q) \in Seq(S) /\ Len(q) \in Nat /\ Len(q) >= 1 /\ Len(Tail(q)) = Len(q) - 1
         /\ \A i \in 1..Len(q) - 1 : Tail(q)[i] = q[i + 1]
         /\ Tail(q) = <<>> <=> Len(q) = 1
         /\ Head(q) = q[1] /\ 1 \in 1..Len(q)
<1>1. Len(q) \in Nat /\ Len(q) >= 1 /\ 1 \in 1..Len(q) /\ Head(q) = q[1]  OBVIOUS
<1>2. Tail(q) \in Seq(S) /\ Len(Tail(q)) = Len(q) - 1  OBVIOUS
<1>3. \A i \in 1..Len(q) - 1 : Tail(q)[i] = q[i + 1]  OBVIOUS
<1>4. Tail(q) = <<>> <=> Len(Tail(q)) = 0  BY <1>2, EmptyIsNone
<1> QED BY <1>1, <1>2, <1>3, <1>4

LEMMA ConcatFacts ==
  ASSUME NEW S, NEW p \in Seq(S), NEW q \in Seq(S)
  PROVE  /\ p \o q \in Seq(S) /\ Len(p \o q) = Len(p) + Len(q)
         /\ \A i \in 1..Len(p) + Len(q) :
              (p \o q)[i] = IF i <= Len(p) THEN p[i] ELSE q[i - Len(p)]
OBVIOUS

\* One data more is over.
LEMMA LogSteps ==
  ASSUME IInv, LogData
  PROVE  /\ pc = "sent" /\ list # <<>> /\ Len(list) \in Nat /\ Len(list) >= 1
         /\ Logged = made - Len(list) /\ Logged \in Nat /\ Logged < made
         /\ Logged' = Logged + 1 /\ list' = Tail(list) /\ Len(list') = Len(list) - 1
         /\ \A i \in 1..Len(list') : i + 1 \in 1..Len(list) /\ list'[i] = list[i + 1]
         /\ list' \in Seq(SUBSET Targets) /\ (list' = <<>> <=> Len(list) = 1)
         /\ pc' = IF Len(list) > 1 THEN "sent" ELSE IF mode = "shell" THEN "logged" ELSE "waiting"
         /\ mode \in {"shell", "operator"} /\ Pending /\ (Pending' <=> Len(list) > 1)
         /\ Head(list) = list[1] /\ 1 \in 1..Len(list) /\ todo = {} /\ todo' = {}
         /\ UNCHANGED <<explicit, mode, failed, keep, est, countdown, nextId, pendingId,
                        lgFbk, lastFbk, fbkRows, asyncRows, made, last, missing>>
<1>1. /\ pc = "sent" /\ list # <<>> /\ Len(list) <= made /\ todo = {}
      /\ made \in Nat /\ list \in Seq(SUBSET Targets)
  BY TypeFacts DEF IInv, LogData, RoundFacts
<1>2. /\ list' = Tail(list) /\ pc' = IF Len(list) > 1 THEN "sent" ELSE IF mode = "shell" THEN "logged" ELSE "waiting"
      /\ UNCHANGED <<explicit, mode, todo, failed, keep, est, countdown, nextId, pendingId,
                     lgFbk, lastFbk, fbkRows, asyncRows, made, last, missing>>
  BY DEF LogData, fbks
<1>3. /\ Tail(list) \in Seq(SUBSET Targets) /\ Len(list) \in Nat /\ Len(list) >= 1
      /\ Len(Tail(list)) = Len(list) - 1
      /\ \A i \in 1..Len(list) - 1 : Tail(list)[i] = list[i + 1]
      /\ Tail(list) = <<>> <=> Len(list) = 1
      /\ Head(list) = list[1] /\ 1 \in 1..Len(list)
  BY <1>1, TailFacts
<1>4. Logged = made - Len(list)  BY <1>1 DEF Logged
<1>5. Logged' = made - Len(Tail(list))  BY <1>2 DEF Logged
<1>6. \A i \in 1..Len(list) - 1 : i + 1 \in 1..Len(list)  BY <1>3
<1>7. /\ mode \in {"shell", "operator"} /\ Pending
      /\ (Pending' <=> Len(list) > 1)
  <2>1. mode \in {"shell", "operator"}  BY DEF IInv, TypeOK
  <2>2. Pending  BY <1>1 DEF Pending
  <2>3. list' = <<>> <=> Len(list) = 1  BY <1>2, <1>3
  <2>4. Len(list) > 1 <=> Len(list) # 1  BY <1>3
  <2> QED BY <1>2, <2>1, <2>2, <2>3, <2>4 DEF Pending
<1> QED BY <1>1, <1>2, <1>3, <1>4, <1>5, <1>6, <1>7

\* The rows of the data that is logged.
LEMMA LogRows ==
  ASSUME IInv, LogData, Recorded
  PROVE  LET k == Cardinality(list[1]) IN
         /\ k \in Nat /\ k >= 1 /\ Len(rows') = Len(rows) + k
         /\ rows' \in Seq([data : Data, tg : Targets])
         /\ \A i \in 1..Len(rows) : rows'[i] = rows[i]
         /\ \A i \in Len(rows) + 1..Len(rows) + k : rows'[i].data = Logged + 1
         /\ lastIds' \in [Targets -> Nat]
         /\ \A t \in Targets \ list[1] : lastIds'[t] = lastIds[t]
         /\ \A t \in list[1] : /\ lastIds'[t] \in Len(rows) + 1..Len(rows) + k
                               /\ rows'[lastIds'[t]].tg = t
         /\ \E t \in Targets : lastIds'[t] = Len(rows) + k
         /\ unrecorded' = unrecorded /\ drift' = (drift \/ k > 1)
<1> DEFINE k == Cardinality(list[1])
           order == SetToSeq(list[1])
           new == [i \in DOMAIN order |-> [data |-> Logged + 1, tg |-> order[i]]]
           place(t) == CHOOSE i \in DOMAIN order : order[i] = t
<1>1. /\ Head(list) = list[1] /\ 1 \in 1..Len(list) /\ Logged = made - Len(list)
      /\ Logged + 1 \in Nat /\ Logged + 1 <= made
  BY LogSteps, TypeFacts DEF IInv
<1>2. IsFiniteSet(list[1]) /\ k \in Nat /\ k >= 1  BY <1>1, CountFacts DEF IInv
<1>3. list[1] \subseteq Targets /\ Len(rows) \in Nat /\ rows \in Seq([data : Data, tg : Targets])
  BY <1>1, TypeFacts DEF IInv
<1>4. Logged + 1 \in Data
  <2>1. made <= MaxData /\ MaxData \in Nat /\ Data = 0..MaxData /\ made \in Nat
    BY TypeFacts DEF IInv
  <2> QED BY <1>1, <2>1
<1>5. /\ order \in Seq(list[1]) /\ Len(order) = k /\ ToSet(order) = list[1]
      /\ \A i, j \in 1..k : order[i] = order[j] => i = j
  BY <1>2, SetToSeqFacts
<1>6. DOMAIN order = 1..k /\ \A i \in 1..k : order[i] \in list[1]
  BY <1>2, <1>5, Elements
<1>7. /\ rows' = rows \o new
      /\ \A t \in Targets : lastIds'[t] = IF t \in list[1] THEN Len(rows) + 1 + place(t) - 1 ELSE lastIds[t]
      /\ lastIds' = [t \in Targets |-> lastIds'[t]]
      /\ unrecorded' = unrecorded /\ drift' = (drift \/ k > 1)
  <2>1. /\ rows' = rows \o [i \in DOMAIN order |-> [data |-> made - Len(list) + 1, tg |-> order[i]]]
        /\ NoteRows(Len(rows) + 1, order)
        /\ unrecorded' = unrecorded /\ drift' = (drift \/ Len(order) > 1)
    BY <1>1 DEF LogData, Over
  <2>2. rows' = rows \o new  BY <1>1, <2>1
  <2>3. lastIds' = [t \in Targets |-> IF t \in ToSet(order) THEN Len(rows) + 1 + place(t) - 1 ELSE lastIds[t]]
    BY <2>1 DEF NoteRows
  <2> HIDE DEF order, place
  <2> QED BY <1>5, <2>1, <2>2, <2>3
<1>8. \A t \in list[1] : place(t) \in 1..k /\ order[place(t)] = t
  <2> SUFFICES ASSUME NEW t \in list[1] PROVE place(t) \in 1..k /\ order[place(t)] = t
    OBVIOUS
  <2>1. \E i \in DOMAIN order : order[i] = t  BY <1>5 DEF ToSet
  <2> HIDE DEF order
  <2> QED BY <1>6, <2>1
<1> HIDE DEF order, place
<1>9. /\ new \in Seq([data : Data, tg : Targets]) /\ Len(new) = k
      /\ \A i \in 1..k : new[i].data = Logged + 1 /\ new[i].tg = order[i]
  <2>1. \A i \in 1..k : [data |-> Logged + 1, tg |-> order[i]] \in [data : Data, tg : Targets]
    BY <1>3, <1>4, <1>6
  <2>2. new = [i \in 1..k |-> [data |-> Logged + 1, tg |-> order[i]]]  BY <1>6
  <2> HIDE DEF new, k
  <2>3. \A i \in 1..k : new[i] = [data |-> Logged + 1, tg |-> order[i]]  BY <2>2
  <2>4. \A i \in 1..k : new[i] \in [data : Data, tg : Targets]  BY <2>1, <2>3
  <2>5. new \in [1..k -> [data : Data, tg : Targets]]  BY <2>2, <2>4
  <2>6. new \in Seq([data : Data, tg : Targets]) /\ Len(new) = k  BY <1>2, <2>2, <2>5, IsSeq
  <2> QED BY <2>3, <2>6
<1> HIDE DEF new, k
<1>10. /\ rows' \in Seq([data : Data, tg : Targets]) /\ Len(rows') = Len(rows) + k
       /\ \A i \in 1..Len(rows) + k : rows'[i] = IF i <= Len(rows) THEN rows[i] ELSE new[i - Len(rows)]
  <2>1. rows \in Seq([data : Data, tg : Targets]) /\ new \in Seq([data : Data, tg : Targets])
    BY <1>3, <1>9
  <2>2. /\ rows \o new \in Seq([data : Data, tg : Targets])
        /\ Len(rows \o new) = Len(rows) + Len(new)
        /\ \A i \in 1..Len(rows) + Len(new) :
             (rows \o new)[i] = IF i <= Len(rows) THEN rows[i] ELSE new[i - Len(rows)]
    BY <2>1, ConcatFacts
  <2>3. rows' = rows \o new /\ Len(new) = k  BY <1>7, <1>9
  <2> QED BY <2>2, <2>3
<1>11. \A i \in 1..Len(rows) : rows'[i] = rows[i]  BY <1>2, <1>3, <1>10
<1>12. \A i \in Len(rows) + 1..Len(rows) + k :
         i - Len(rows) \in 1..k /\ rows'[i] = new[i - Len(rows)] /\ rows'[i].data = Logged + 1
  <2> SUFFICES ASSUME NEW i \in Len(rows) + 1..Len(rows) + k
               PROVE  i - Len(rows) \in 1..k /\ rows'[i] = new[i - Len(rows)] /\ rows'[i].data = Logged + 1
    OBVIOUS
  <2>1. i - Len(rows) \in 1..k /\ i \in 1..Len(rows) + k /\ ~(i <= Len(rows))  BY <1>2, <1>3
  <2>2. rows'[i] = new[i - Len(rows)]  BY <1>10, <2>1
  <2> QED BY <1>9, <2>1, <2>2
<1>13. \A t \in list[1] : /\ lastIds'[t] = Len(rows) + place(t)
                          /\ lastIds'[t] \in Len(rows) + 1..Len(rows) + k
                          /\ rows'[lastIds'[t]].tg = t
  <2> SUFFICES ASSUME NEW t \in list[1]
               PROVE  /\ lastIds'[t] = Len(rows) + place(t)
                      /\ lastIds'[t] \in Len(rows) + 1..Len(rows) + k
                      /\ rows'[lastIds'[t]].tg = t
    OBVIOUS
  <2>1. lastIds'[t] = Len(rows) + 1 + place(t) - 1 /\ place(t) \in 1..k  BY <1>3, <1>7, <1>8
  <2>2. lastIds'[t] = Len(rows) + place(t) /\ lastIds'[t] \in Len(rows) + 1..Len(rows) + k
    BY <1>2, <1>3, <2>1
  <2>3. lastIds'[t] - Len(rows) = place(t)  BY <1>2, <1>3, <2>1, <2>2
  <2> QED BY <1>8, <1>9, <1>12, <2>1, <2>2, <2>3
<1>14. \E t \in Targets : lastIds'[t] = Len(rows) + k
  <2>1. k \in 1..k  BY <1>2
  <2>2. order[k] \in list[1]  BY <1>6, <2>1
  <2>3. place(order[k]) = k  BY <1>5, <1>8, <2>1, <2>2
  <2> QED BY <1>3, <1>13, <2>2, <2>3
<1>15. lastIds' \in [Targets -> Nat]
  <2>1. \A t \in Targets : lastIds'[t] \in Nat
    <3> SUFFICES ASSUME NEW t \in Targets PROVE lastIds'[t] \in Nat
      OBVIOUS
    <3>1. CASE t \in list[1]  BY <1>2, <1>3, <1>13, <3>1
    <3>2. CASE t \notin list[1]  BY <1>7, <3>2, TypeFacts DEF IInv
    <3> QED BY <3>1, <3>2
  <2> QED BY <1>7, <2>1
<1>16. \A t \in Targets \ list[1] : lastIds'[t] = lastIds[t]  BY <1>7
<1>17. /\ k \in Nat /\ k >= 1 /\ Len(rows') = Len(rows) + k
       /\ rows' \in Seq([data : Data, tg : Targets])
       /\ unrecorded' = unrecorded /\ drift' = (drift \/ k > 1)
  BY <1>2, <1>7, <1>10
<1> QED BY <1>11, <1>12, <1>13, <1>14, <1>15, <1>16, <1>17 DEF k

LEMMA NextOnes ==
  ASSUME NEW d \in Nat, NEW l \in Nat, NEW m \in Nat, NEW n \in Nat, l = m - n, d > l + 1, d <= m
  PROVE  d - (l + 1) \in 1..n - 1 /\ d - (l + 1) + 1 = d - l /\ n > 1 /\ n # 1
OBVIOUS

LEMMA LogKeepsRows ==
  ASSUME IInv, LogData
  PROVE  RowsFacts'
<1> DEFINE d == Logged + 1
<1>1. /\ Logged \in Nat /\ Logged' = d /\ explicit' = explicit /\ missing' = missing
      /\ Len(rows) \in Nat /\ \A i \in 1..Len(rows) : rows[i].data \in Nat
      /\ \A e \in unrecorded : e \in Nat
  <2>1. unrecorded \subseteq Data /\ Data = 0..MaxData /\ MaxData \in Nat
    BY TypeFacts DEF IInv, TypeOK
  <2>2. /\ Logged \in Nat /\ Logged' = d /\ explicit' = explicit /\ missing' = missing
    BY LogSteps
  <2>3. Len(rows) \in Nat /\ \A i \in 1..Len(rows) : rows[i].data \in Nat
    BY TypeFacts DEF IInv
  <2> QED BY <2>1, <2>2, <2>3
<1>2. recordable' = keep /\ d = made - Len(list) + 1  BY LogSteps DEF LogData
<1> HIDE DEF d
<1>3. d = Logged + 1 /\ d \in Nat  BY <1>1 DEF d
<1>4. CASE Recorded
  <2> DEFINE k == Cardinality(list[1])
             n == Len(rows)
  <2>1. /\ k \in Nat /\ k >= 1 /\ Len(rows') = n + k
        /\ \A i \in 1..n : rows'[i] = rows[i]
        /\ \A i \in n + 1..n + k : rows'[i].data = d
        /\ unrecorded' = unrecorded /\ rows' \in Seq([data : Data, tg : Targets])
    BY <1>4, LogRows DEF d
  <2> HIDE DEF k
  <2>2. \A i \in 1..n + k : rows'[i].data <= d /\ (i > n => rows'[i].data = d)
    BY <1>1, <1>3, <2>1 DEF IInv, RowsFacts
  <2>3. \A i, j \in 1..n + k : i <= j => rows'[i].data <= rows'[j].data
    <3> SUFFICES ASSUME NEW i \in 1..n + k, NEW j \in 1..n + k, i <= j
                 PROVE  rows'[i].data <= rows'[j].data
      OBVIOUS
    <3>1. CASE j > n  BY <1>3, <2>2, <3>1
    <3>2. CASE ~(j > n)
      <4>1. i \in 1..n /\ j \in 1..n  BY <1>1, <2>1, <3>2
      <4> QED BY <2>1, <4>1 DEF IInv, RowsFacts
    <3> QED BY <3>1, <3>2
  <2>4. \A e \in 1..d : e \in missing \cup unrecorded \/ \E i \in 1..n + k : rows'[i].data = e
    <3> SUFFICES ASSUME NEW e \in 1..d
                 PROVE  e \in missing \cup unrecorded \/ \E i \in 1..n + k : rows'[i].data = e
      OBVIOUS
    <3>1. CASE e = d
      <4>1. n + 1 \in 1..n + k /\ n + 1 \in n + 1..n + k  BY <1>1, <2>1
      <4> QED BY <2>1, <3>1, <4>1
    <3>2. CASE e # d
      <4>1. e \in 1..Logged  BY <1>1, <1>3, <3>2
      <4>2. e \in missing \cup unrecorded \/ \E i \in 1..n : rows[i].data = e
        BY <4>1 DEF IInv, RowsFacts, IsLost
      <4>3. \A i \in 1..n : i \in 1..n + k  BY <1>1, <2>1
      <4> QED BY <2>1, <4>2, <4>3
    <3> QED BY <3>1, <3>2
  <2>5. \A e \in unrecorded : explicit /\ e <= d /\ rows' # <<>> /\ rows'[n + k].data >= e
    <3>1. rows' # <<>>  BY <1>1, <2>1, EmptyIsNone
    <3>2. n + k \in n + 1..n + k  BY <1>1, <2>1
    <3>3. rows'[n + k].data = d  BY <2>1, <3>2
    <3> QED BY <1>1, <1>3, <3>1, <3>3 DEF IInv, RowsFacts
  <2> QED BY <1>1, <2>1, <2>2, <2>3, <2>4, <2>5 DEF RowsFacts, IsLost
<1>5. CASE ~Recorded
  <2>1. /\ rows' = rows /\ unrecorded' = unrecorded \cup {d} /\ explicit /\ ~recordable'
    BY <1>2, <1>5 DEF LogData, Recorded, Over
  <2>2. \A i \in 1..Len(rows) : rows[i].data <= d  BY <1>1, <1>3 DEF IInv, RowsFacts
  <2>3. \A e \in 1..d : e \in missing \cup unrecorded' \/ \E i \in 1..Len(rows) : rows[i].data = e
    <3> SUFFICES ASSUME NEW e \in 1..d, e # d
                 PROVE  e \in missing \cup unrecorded' \/ \E i \in 1..Len(rows) : rows[i].data = e
      BY <2>1
    <3>1. e \in 1..Logged  BY <1>1, <1>3
    <3> QED BY <2>1, <3>1 DEF IInv, RowsFacts, IsLost
  <2>4. \A e \in unrecorded' : e <= d  BY <1>1, <1>3, <2>1 DEF IInv, RowsFacts
  <2>5. \A i, j \in 1..Len(rows) : i <= j => rows[i].data <= rows[j].data
    BY DEF IInv, RowsFacts
  <2> QED BY <1>1, <2>1, <2>2, <2>3, <2>4, <2>5 DEF RowsFacts, IsLost
<1> QED BY <1>4, <1>5

LEMMA LogKeepsIds ==
  ASSUME IInv, LogData
  PROVE  IdsFacts'
<1>1. /\ Logged \in Nat /\ Logged' = Logged + 1 /\ missing' = missing /\ made' = made
      /\ last' = last /\ lgFbk' = lgFbk /\ Logged < made /\ made \in Nat
      /\ pc = "sent" /\ Len(list) \in Nat /\ Logged = made - Len(list)
      /\ 1 \in 1..Len(list) /\ Len(rows) \in Nat
      /\ \A i \in 1..Len(rows) : rows[i].data \in Nat
      /\ \A t \in Targets : last[t] \in Nat /\ last[t] <= made /\ lastIds[t] \in Nat
  BY LogSteps, TypeFacts DEF IInv, IdsFacts
<1>2. \A i \in 1..Len(lgFbk') : lgFbk'[i] <= made'  BY <1>1 DEF IInv, IdsFacts
<1>3. \A t \in Targets : last[t] > Logged + 1 => Pending' /\ t \in list'[last[t] - (Logged + 1)]
  <2> SUFFICES ASSUME NEW t \in Targets, last[t] > Logged + 1
               PROVE  Pending' /\ t \in list'[last[t] - (Logged + 1)]
    OBVIOUS
  <2> DEFINE i == last[t] - (Logged + 1)
  <2>1. t \in list[last[t] - Logged]  BY <1>1 DEF IInv, IdsFacts
  <2>2. i \in 1..Len(list) - 1 /\ i + 1 = last[t] - Logged /\ Len(list) > 1
    <3>1. last[t] \in Nat /\ last[t] <= made /\ last[t] > Logged + 1  BY <1>1
    <3>2. Logged \in Nat /\ Logged = made - Len(list) /\ made \in Nat /\ Len(list) \in Nat
      BY <1>1
    <3> QED BY <3>1, <3>2, NextOnes
  <2>3. list'[i] = list[i + 1] /\ Pending'  BY <2>2, LogSteps
  <2> QED BY <2>1, <2>2, <2>3
<1>4. CASE Recorded
  <2> DEFINE k == Cardinality(list[1])
             n == Len(rows)
  <2>1. /\ k \in Nat /\ k >= 1 /\ Len(rows') = n + k
        /\ \A i \in 1..n : rows'[i] = rows[i]
        /\ \A i \in n + 1..n + k : rows'[i].data = Logged + 1
        /\ \A t \in Targets \ list[1] : lastIds'[t] = lastIds[t]
        /\ \A t \in list[1] : /\ lastIds'[t] \in n + 1..n + k
                              /\ rows'[lastIds'[t]].tg = t
        /\ \E t \in Targets : lastIds'[t] = n + k
        /\ unrecorded' = unrecorded
    BY <1>4, LogRows
  <2> HIDE DEF k
  <2>2. ASSUME NEW t \in Targets
        PROVE  /\ lastIds'[t] <= Len(rows')
               /\ lastIds'[t] # 0 =>
                    /\ rows'[lastIds'[t]].tg = t
                    /\ \/ rows'[lastIds'[t]].data >= last[t]
                       \/ last[t] \in missing' \cup unrecorded' \/ last[t] > Logged'
    <3>1. CASE t \in list[1]
      <4>1. lastIds'[t] \in n + 1..n + k /\ rows'[lastIds'[t]].tg = t  BY <2>1, <3>1
      <4>2. rows'[lastIds'[t]].data = Logged + 1  BY <2>1, <4>1
      <4>3. Logged + 1 >= last[t] \/ last[t] > Logged + 1  BY <1>1
      <4>4. lastIds'[t] <= n + k  BY <1>1, <2>1, <4>1
      <4> QED BY <1>1, <2>1, <4>1, <4>2, <4>3, <4>4
    <3>2. CASE t \notin list[1]
      <4>1. lastIds'[t] = lastIds[t] /\ lastIds[t] <= n  BY <2>1, <3>2 DEF IInv, IdsFacts
      <4>2. lastIds[t] <= n + k  BY <1>1, <2>1, <4>1
      <4>3. ASSUME lastIds[t] # 0
            PROVE  /\ rows[lastIds[t]].tg = t /\ rows'[lastIds[t]] = rows[lastIds[t]]
                   /\ \/ rows[lastIds[t]].data >= last[t]
                      \/ last[t] \in missing \cup unrecorded \/ last[t] > Logged
        <5>1. lastIds[t] \in 1..n  BY <1>1, <4>1, <4>3
        <5> QED BY <2>1, <4>3, <5>1 DEF IInv, IdsFacts, IsLost
      <4>4. last[t] > Logged => last[t] > Logged + 1
        <5> SUFFICES ASSUME last[t] > Logged, ~(last[t] > Logged + 1) PROVE FALSE
          OBVIOUS
        <5>1. last[t] - Logged = 1  BY <1>1
        <5>2. t \in list[last[t] - Logged]  BY DEF IInv, IdsFacts
        <5> QED BY <3>2, <5>1, <5>2
      <4> QED BY <1>1, <2>1, <4>1, <4>2, <4>3, <4>4
    <3> QED BY <3>1, <3>2
  <2> QED BY <1>1, <1>2, <1>3, <2>1, <2>2 DEF IdsFacts, IsLost
<1>5. CASE ~Recorded
  <2>1. rows' = rows /\ lastIds' = lastIds /\ unrecorded' = unrecorded \cup {Logged + 1}
    BY <1>1, <1>5 DEF LogData, Over
  <2>2. ASSUME NEW t \in Targets
        PROVE  /\ lastIds[t] <= Len(rows)
               /\ lastIds[t] # 0 =>
                    /\ rows[lastIds[t]].tg = t
                    /\ \/ rows[lastIds[t]].data >= last[t]
                       \/ last[t] \in missing' \cup unrecorded' \/ last[t] > Logged'
    <3>1. last[t] > Logged => last[t] = Logged + 1 \/ last[t] > Logged + 1  BY <1>1
    <3> QED BY <1>1, <2>1, <3>1 DEF IInv, IdsFacts, IsLost
  <2>3. \/ \A t \in Targets : lastIds[t] = 0
        \/ \E t \in Targets : lastIds[t] = Len(rows)
    BY DEF IInv, IdsFacts
  <2> QED BY <1>1, <1>2, <1>3, <2>1, <2>2, <2>3 DEF IdsFacts, IsLost
<1> QED BY <1>4, <1>5

LEMMA LogKeepsStraight ==
  ASSUME IInv, LogData
  PROVE  Straight'
<1> SUFFICES ASSUME ~drift' PROVE Straight'  BY DEF Straight
<1>1. Recorded /\ ~drift /\ Cardinality(list[1]) = 1
  <2>1. Recorded  BY DEF LogData
  <2>2. Cardinality(list[1]) \in Nat /\ Cardinality(list[1]) >= 1 /\ drift' = (drift \/ Cardinality(list[1]) > 1)
    BY <2>1, LogRows
  <2>3. ~drift /\ ~(Cardinality(list[1]) > 1)  BY <2>2
  <2>4. Cardinality(list[1]) = 1  BY <2>2, <2>3
  <2> QED BY <2>1, <2>3, <2>4
<1>2. /\ Len(rows') = Len(rows) + 1
      /\ \A i \in 1..Len(rows) : rows'[i] = rows[i]
      /\ \A i \in Len(rows) + 1..Len(rows) + 1 : rows'[i].data = Logged + 1
  BY <1>1, LogRows
<1>3. /\ Logged \in Nat /\ Logged' = Logged + 1 /\ todo' = {} /\ pc = "sent" /\ Pending
      /\ UNCHANGED <<nextId, pendingId, made, last>>
      /\ Len(list) \in Nat /\ Len(list') = Len(list) - 1
      /\ \A i \in 1..Len(list') : i + 1 \in 1..Len(list) /\ list'[i] = list[i + 1]
  BY LogSteps
<1>4. /\ Len(rows) = Logged /\ \A i \in 1..Len(rows) : rows[i].data = i
      /\ nextId \in {None, made} /\ \A t \in Targets : pendingId[t] \in {None, last[t]}
      /\ OneEach
  BY <1>1, <1>3 DEF IInv, Straight, Pending
<1>5. \A i \in 1..Logged + 1 : rows'[i].data = i
  <2> SUFFICES ASSUME NEW i \in 1..Logged + 1 PROVE rows'[i].data = i
    OBVIOUS
  <2>1. CASE i = Logged + 1
    <3>1. i \in Len(rows) + 1..Len(rows) + 1  BY <1>3, <1>4, <2>1
    <3> QED BY <1>2, <2>1, <3>1
  <2>2. CASE i # Logged + 1
    <3>1. i \in 1..Len(rows)  BY <1>3, <1>4, <2>2
    <3> QED BY <1>2, <1>4, <3>1
  <2> QED BY <2>1, <2>2
<1>6. OneEach'
  <2> SUFFICES ASSUME NEW i \in 1..Len(list') - 1 PROVE Cardinality(list'[i]) = 1
    BY DEF OneEach
  <2>1. i \in 1..Len(list') /\ i + 1 \in 1..Len(list) - 1  BY <1>3
  <2> QED BY <1>3, <1>4, <2>1 DEF OneEach
<1> QED BY <1>2, <1>3, <1>4, <1>5, <1>6 DEF Straight, None

LEMMA LogKeepsAsync ==
  ASSUME IInv, LogData
  PROVE  AsyncFacts'
<1>1. /\ Logged \in Nat /\ Logged' = Logged + 1 /\ asyncRows' = asyncRows
      /\ (Pending' <=> Len(list) > 1)
      /\ UNCHANGED <<explicit, keep, made, missing>>
      /\ Len(list) \in Nat /\ Len(list) >= 1 /\ Logged = made - Len(list) /\ Len(list') = Len(list) - 1
      /\ \A i \in 1..Len(list') : i + 1 \in 1..Len(list) /\ list'[i] = list[i + 1]
      /\ made \in Nat /\ Len(rows) \in Nat
  BY LogSteps, TypeFacts DEF IInv
<1> SUFFICES ASSUME NEW r \in asyncRows, r.guessed, ~r.drift
             PROVE  r.id = r.data /\ (IsLost(r.data)' \/ HasItsRow(r.data)' \/ Ahead(r.data)')
  BY <1>1 DEF AsyncFacts
<1> DEFINE d == r.data
<1>2. d \in Nat
  <2>1. d \in Data  BY DEF IInv, TypeOK
  <2> QED BY <2>1, TypeFacts DEF IInv
<1>3. r.id = d /\ (IsLost(d) \/ HasItsRow(d) \/ Ahead(d))  BY DEF IInv, AsyncFacts
<1> HIDE DEF d
<1>4. Logged + 1 = made - Len(list) + 1  BY <1>1
<1>5. unrecorded \subseteq unrecorded' /\ (~Recorded => Logged + 1 \in unrecorded' /\ rows' = rows)
  BY <1>4 DEF LogData, Over
<1>6. IsLost(d) => IsLost(d)'  BY <1>1, <1>5 DEF IsLost
<1>7. Recorded' <=> Recorded  BY <1>1 DEF Recorded
<1>8. ASSUME d > Logged, d # Logged + 1, d <= made
      PROVE  Pending' /\ d > Logged' /\ Len(list) > 1
  <2>1. d > Logged + 1
    <3>1. Logged \in Nat  BY <1>1
    <3> QED BY <1>2, <1>8, <3>1
  <2>2. Len(list) > 1 /\ Len(list) # 1  BY <1>1, <1>2, <1>8, <2>1, NextOnes
  <2> QED BY <1>1, <2>1, <2>2
<1>9. CASE ~Recorded
  <2>1. HasItsRow(d) => HasItsRow(d)'  BY <1>5, <1>9 DEF HasItsRow
  <2>2. CASE Ahead(d)
    <3>1. d > Logged /\ d > Len(rows) /\ d <= made  BY <2>2 DEF Ahead
    <3>2. CASE d = Logged + 1
      <4>1. IsLost(d)'  BY <1>5, <1>9, <3>2 DEF IsLost, d
      <4> QED BY <1>3, <4>1 DEF d
    <3>3. CASE d # Logged + 1
      <4>1. Ahead(d)'  BY <1>1, <1>5, <1>7, <1>8, <1>9, <3>1, <3>3 DEF Ahead, d
      <4> QED BY <1>3, <4>1 DEF d
    <3> QED BY <1>3, <3>2, <3>3 DEF d
  <2> QED BY <1>3, <1>6, <2>1, <2>2 DEF d
<1>10. CASE Recorded
  <2> DEFINE k == Cardinality(list[1])
             n == Len(rows)
  <2>1. /\ k \in Nat /\ k >= 1 /\ Len(rows') = n + k
        /\ \A i \in 1..n : rows'[i] = rows[i]
        /\ \A i \in n + 1..n + k : rows'[i].data = Logged + 1
    BY <1>10, LogRows
  <2> HIDE DEF k
  <2>2. HasItsRow(d) => HasItsRow(d)'
    <3>1. 1..n \subseteq 1..n + k  BY <1>1, <2>1
    <3> QED BY <1>1, <2>1, <3>1 DEF HasItsRow, d
  <2>3. CASE Ahead(d)
    <3>1. d > Logged /\ d > n /\ d <= made /\ n = Logged /\ OneEach
      BY <1>10, <2>3 DEF Ahead
    <3>2. CASE d = Logged + 1
      <4>1. d \in n + 1..n + k /\ d \in 1..n + k  BY <1>1, <2>1, <3>1, <3>2
      <4>2. HasItsRow(d)'  BY <1>1, <2>1, <3>2, <4>1 DEF HasItsRow, d
      <4> QED BY <1>3, <4>2 DEF d
    <3>3. CASE d # Logged + 1
      <4>1. Pending' /\ d > Logged' /\ Len(list) > 1  BY <1>8, <3>1, <3>3
      <4>2. k = 1
        <5>1. 1 \in 1..Len(list) - 1  BY <1>1, <4>1
        <5> QED BY <3>1, <5>1 DEF OneEach, k
      <4>3. Len(rows') = Logged' /\ d > Len(rows')
        <5>1. Len(rows') = Logged + 1 /\ Logged' = Logged + 1  BY <1>1, <2>1, <3>1, <4>2
        <5> QED BY <4>1, <5>1
      <4>4. OneEach'
        <5> SUFFICES ASSUME NEW i \in 1..Len(list') - 1 PROVE Cardinality(list'[i]) = 1
          BY DEF OneEach
        <5>1. i \in 1..Len(list') /\ i + 1 \in 1..Len(list) - 1  BY <1>1
        <5> QED BY <1>1, <3>1, <5>1 DEF OneEach
      <4>5. Ahead(d)'  BY <1>1, <3>1, <4>1, <4>3, <4>4 DEF Ahead, d
      <4> QED BY <1>3, <4>5 DEF d
    <3> QED BY <3>2, <3>3
  <2> QED BY <1>3, <1>6, <2>2, <2>3 DEF d
<1> QED BY <1>9, <1>10

LEMMA LogKeeps ==
  ASSUME IInv, LogData
  PROVE  IInv'
<1>1. TypeOK'
  <2>1. /\ UNCHANGED <<explicit, mode, todo, failed, keep, est, countdown, nextId, pendingId,
                       lgFbk, lastFbk, fbkRows, asyncRows, made, last, missing>>
        /\ list' \in Seq(SUBSET Targets) /\ pc' \in {"logged", "sent", "waiting"}
        /\ Logged + 1 \in 0..made /\ Logged = made - Len(list)
    <3>1. Logged \in Nat /\ made \in Nat /\ Logged < made  BY LogSteps, TypeFacts DEF IInv
    <3>2. Logged + 1 \in 0..made  BY <3>1
    <3> QED BY <3>2, LogSteps
  <2>2. rows' \in Seq([data : Data, tg : Targets]) /\ lastIds' \in [Targets -> Nat]
    <3>1. CASE Recorded  BY <3>1, LogRows
    <3>2. CASE ~Recorded  BY <3>2, TypeFacts DEF LogData, IInv, TypeOK
    <3> QED BY <3>1, <3>2
  <2>3. recordable' \in BOOLEAN /\ drift' \in BOOLEAN  BY DEF LogData, IInv, TypeOK
  <2>4. unrecorded' \subseteq Data
    <3>1. Logged + 1 \in Data  BY <2>1, TypeFacts DEF IInv
    <3> QED BY <2>1, <3>1 DEF LogData, IInv, TypeOK, Over
  <2> QED BY <2>1, <2>2, <2>3, <2>4 DEF IInv, TypeOK
<1>2. RoundFacts'
  <2>1. /\ pc = "sent" /\ Len(list) \in Nat /\ Len(list') = Len(list) - 1 /\ made \in Nat
        /\ \A i \in 1..Len(list') : i + 1 \in 1..Len(list) /\ list'[i] = list[i + 1]
        /\ list' = <<>> <=> Len(list) = 1
        /\ pc' = IF Len(list) > 1 THEN "sent" ELSE IF mode = "shell" THEN "logged" ELSE "waiting"
        /\ made' = made /\ todo' = {} /\ mode' = mode
        /\ mode \in {"shell", "operator"} /\ (Len(list) > 1 <=> Len(list) # 1)
    BY LogSteps, TypeFacts DEF IInv
  <2>2. Len(list) <= made /\ \A i \in 1..Len(list) : list[i] # {}
    BY <2>1 DEF IInv, RoundFacts
  <2>3. Len(list') <= made'  BY <2>1, <2>2
  <2>4. \A i \in 1..Len(list') : list'[i] # {}  BY <2>1, <2>2
  <2>5. /\ pc' \in {"logged", "sent", "waiting"} /\ (pc' = "sent" <=> list' # <<>>)
        /\ pc' = "waiting" => mode' = "operator"
    BY <2>1
  <2> QED BY <2>1, <2>3, <2>4, <2>5 DEF RoundFacts
<1>3. FbkFacts' /\ FeedbackRowRight'
  <2>1. /\ fbkRows' = fbkRows /\ missing' = missing /\ unrecorded \subseteq unrecorded'
        /\ Len(rows) \in Nat /\ Len(rows') \in Nat /\ Len(rows) <= Len(rows')
        /\ \A i \in 1..Len(rows) : rows'[i] = rows[i]
        /\ \A i \in 1..Len(rows') : i > Len(rows) => rows'[i].data = Logged + 1
    <3>1. fbkRows' = fbkRows /\ missing' = missing /\ unrecorded \subseteq unrecorded'
      BY LogSteps DEF LogData
    <3>2. Len(rows) \in Nat  BY TypeFacts DEF IInv
    <3>3. CASE Recorded
      <4> DEFINE k == Cardinality(list[1])
      <4>1. /\ k \in Nat /\ k >= 1 /\ Len(rows') = Len(rows) + k
            /\ \A i \in 1..Len(rows) : rows'[i] = rows[i]
            /\ \A i \in Len(rows) + 1..Len(rows) + k : rows'[i].data = Logged + 1
        BY <3>3, LogRows
      <4> HIDE DEF k
      <4> QED BY <3>1, <3>2, <4>1
    <3>4. CASE ~Recorded
      <4>1. rows' = rows  BY <3>4 DEF LogData
      <4> QED BY <3>1, <3>2, <4>1
    <3> QED BY <3>3, <3>4
  <2>2. \A r \in fbkRows : r.id \in Nat /\ r.id <= Len(rows) /\ r.over \in Nat /\ r.over <= Logged
    <3>1. Data \subseteq Nat  BY TypeFacts DEF IInv
    <3> QED BY <3>1 DEF IInv, FbkFacts, TypeOK
  <2>3. \A r \in fbkRows : r.id # None => r.id \in 1..Len(rows)  BY <2>1, <2>2 DEF None
  <2>4. \A r \in fbkRows : r.id <= Len(rows') /\ r.over <= Logged' /\ Logged + 1 > r.over
    <3>1. Logged \in Nat /\ Logged' = Logged + 1  BY LogSteps
    <3> QED BY <2>1, <2>2, <3>1
  <2>5. FbkFacts'  BY <2>1, <2>4 DEF FbkFacts
  <2>6. ASSUME NEW r \in fbkRows, r.id # None
        PROVE  (IF r.born <= r.over THEN AnswersRight(r) ELSE RemarksRight(r))'
    <3>1. r.id \in 1..Len(rows) /\ r.id \in 1..Len(rows') /\ rows'[r.id] = rows[r.id]
      BY <2>1, <2>3, <2>6
    <3>2. CASE r.born <= r.over
      <4>1. AnswersRight(r)  BY <2>6, <3>2 DEF IInv, FeedbackRowRight
      <4>2. AnswersRight(r)'  BY <2>1, <3>1, <4>1 DEF AnswersRight
      <4> QED BY <3>2, <4>2
    <3>3. CASE ~(r.born <= r.over)
      <4>1. RemarksRight(r)  BY <2>6, <3>3 DEF IInv, FeedbackRowRight
      <4>2. ASSUME NEW i \in 1..Len(rows'), i > r.id PROVE rows'[i].data > r.over
        <5>1. CASE i > Len(rows)  BY <2>1, <2>4, <5>1
        <5>2. CASE ~(i > Len(rows))
          <6>1. i \in 1..Len(rows) /\ i \in DOMAIN rows  BY <2>1, <5>2, TypeFacts DEF IInv
          <6> QED BY <2>1, <4>1, <4>2, <6>1 DEF RemarksRight
        <5> QED BY <5>1, <5>2
      <4>3. DOMAIN rows' = 1..Len(rows')
        <5>1. rows' \in Seq([data : Data, tg : Targets])  BY <1>1 DEF TypeOK
        <5> QED BY <5>1
      <4>4. RemarksRight(r)'  BY <3>1, <4>1, <4>2, <4>3 DEF RemarksRight
      <4> QED BY <3>3, <4>4
    <3> QED BY <3>2, <3>3
  <2> QED BY <2>1, <2>5, <2>6 DEF FeedbackRowRight, None
<1>4. CallbacksSeeFresh'  BY LogSteps DEF IInv, CallbacksSeeFresh
<1> QED BY <1>1, <1>2, <1>3, <1>4, LogKeepsRows, LogKeepsIds, LogKeepsStraight, LogKeepsAsync
        DEF IInv

-----------------------------------------------------------------------------
(* The theorems.                                                           *)

LEMMA InitIsRight == Init => IInv
<1> SUFFICES ASSUME Init PROVE IInv
  OBVIOUS
<1>1. /\ Data = 0..MaxData /\ MaxData \in Nat /\ Burst \in Nat \ {0}
  BY RecordingAssumption DEF RecordingAssumption, Data
<1>2. /\ Len(<<>>) = 0 /\ <<>> \in Seq(SUBSET Targets) /\ <<>> \in Seq(Data)
      /\ <<>> \in Seq([data : Data, tg : Targets])
  OBVIOUS
<1>3. Logged = 0 /\ Len(rows) = 0 /\ Len(list) = 0 /\ Len(lgFbk) = 0
  <2>1. list = <<>> /\ rows = <<>> /\ lgFbk = <<>> /\ pc = "idle" /\ made = 0  BY DEF Init
  <2>2. Len(list) = 0 /\ Len(rows) = 0 /\ Len(lgFbk) = 0  BY <1>2, <2>1
  <2>3. Logged = made - Len(list)  BY <2>1 DEF Logged
  <2> QED BY <2>1, <2>2, <2>3
<1>4. TypeOK
  <2>1. 0 \in Data /\ 0 \in Nat /\ Burst \in 1..Burst  BY <1>1
  <2>2. Nothing \in [Targets -> Nat] /\ Nothing \in [Targets -> Data]  BY <2>1 DEF Nothing
  <2>3. /\ explicit \in BOOLEAN /\ failed \in BOOLEAN /\ keep \in BOOLEAN /\ drift \in BOOLEAN
        /\ recordable \in BOOLEAN
    BY DEF Init
  <2>4. /\ pc \in {"idle", "prepared", "sending", "waiting", "sent", "logged", "callbacks", "stopping"}
        /\ mode \in {"shell", "operator"} /\ countdown \in 1..Burst /\ todo \subseteq Targets
    BY <2>1 DEF Init
  <2>5. /\ nextId \in Nat /\ made \in Data
        /\ est \in [Targets -> Nat] /\ pendingId \in [Targets -> Nat]
        /\ lastIds \in [Targets -> Nat] /\ last \in [Targets -> Data]
    BY <2>1, <2>2 DEF Init, None
  <2>6. list = <<>> /\ rows = <<>> /\ lgFbk = <<>>  BY DEF Init
  <2>7. /\ list \in Seq(SUBSET Targets) /\ lgFbk \in Seq(Data)
        /\ rows \in Seq([data : Data, tg : Targets])
    BY <1>2, <2>6
  <2>8. lastFbk = {} /\ fbkRows = {} /\ asyncRows = {} /\ missing = {} /\ unrecorded = {}
    BY DEF Init
  <2> QED BY <2>3, <2>4, <2>5, <2>7, <2>8 DEF TypeOK
<1>5. RoundFacts  BY <1>3 DEF Init, RoundFacts
<1>6. RowsFacts  BY <1>3 DEF Init, RowsFacts
<1>7. IdsFacts  BY <1>3 DEF Init, IdsFacts, Nothing
<1>8. FbkFacts /\ FeedbackRowRight /\ AsyncFacts /\ CallbacksSeeFresh
  BY DEF Init, FbkFacts, FeedbackRowRight, AsyncFacts, CallbacksSeeFresh
<1>9. Straight  BY <1>3 DEF Init, Straight, Nothing, None, Pending
<1> QED BY <1>4, <1>5, <1>6, <1>7, <1>8, <1>9 DEF IInv

LEMMA NextKeeps == IInv /\ [Next]_vars => IInv'
<1> SUFFICES ASSUME IInv, [Next]_vars PROVE IInv'
  OBVIOUS
<1>1. ASSUME NEW m \in {"shell", "operator"}, NEW l \in Lists, Begin(m, l) PROVE IInv'
  BY <1>1, BeginKeeps
<1>2. CASE GiveIds  BY <1>2, GiveIdsKeeps
<1>3. CASE SendingFailed  BY <1>3, FailedKeeps
<1>4. CASE SendingDone  BY <1>4, DoneKeeps
<1>12. CASE Wait  BY <1>12, WaitKeeps
<1>5. CASE LogData  BY <1>5, LogKeeps
<1>6. CASE RetrieveFeedback  BY <1>6, RetrieveKeeps
<1>7. CASE EndRound \/ OperatorFeedback  BY <1>7, EndKeeps
<1>8. CASE Stop  BY <1>8, StopKeeps
<1>9. CASE Relaunch  BY <1>9, RelaunchKeeps
<1>10. ASSUME NEW t \in Targets, Sent(t) \/ NotReady(t) \/ Stuck(t) \/ Collect(t) \/ SendAsync(t)
       PROVE  IInv'
  BY <1>10, SentKeeps, NotSentKeeps, CollectKeeps, SendAsyncKeeps
<1>11. CASE UNCHANGED vars
  <2>1. UNCHANGED <<explicit, pc, mode, list, todo, failed, keep, est, countdown, ids, fbks,
                    asyncRows, history>>
    BY <1>11 DEF vars, round
  <2>0. Logged' = Logged
    <3>1. pc' = pc /\ list' = list /\ made' = made  BY <2>1 DEF history
    <3> QED BY <3>1 DEF Logged
  <2> USE <2>1, <2>0 DEF IInv, ids, fbks, history
  <2>2. TypeOK'  BY DEF TypeOK
  <2>3. RoundFacts'  BY DEF RoundFacts
  <2>4. RowsFacts'  BY RowsKept
  <2>5. IdsFacts'
    <3>1. \A i \in 1..Len(lgFbk') : lgFbk'[i] <= made'  BY DEF IdsFacts
    <3> QED BY <3>1, IdsKept, TypeFacts DEF Pending
  <2>6. FbkFacts' /\ FeedbackRowRight'  BY FeedbackKept DEF FbkFacts
  <2>7. Straight'  BY StraightKept DEF Pending
  <2>8. AsyncFacts'  BY AsyncKept DEF Recorded, Pending
  <2>9. CallbacksSeeFresh'  BY DEF CallbacksSeeFresh
  <2> QED BY <2>2, <2>3, <2>4, <2>5, <2>6, <2>7, <2>8, <2>9
<1> QED BY <1>1, <1>2, <1>3, <1>4, <1>5, <1>6, <1>7, <1>8, <1>9, <1>10, <1>11, <1>12 DEF Next

LEMMA Inductive == Spec => []IInv
BY InitIsRight, NextKeeps, PTL DEF Spec

\* Every variable keeps its type: the ids and the rows have no bound of their own.
THEOREM TypeCorrect == Spec => []TypeOK
<1>1. IInv => TypeOK  BY DEF IInv
<1> QED BY <1>1, Inductive, PTL

\* A guessed id is either that of a row that is there or of one that is still to come.
LEMMA AsyncIsRight == IInv => AsyncRowRight
<1> SUFFICES ASSUME IInv, NEW r \in asyncRows, r.guessed, ~r.drift,
                    r.data \notin missing \cup unrecorded
             PROVE  IF r.id \in DOMAIN rows THEN rows[r.id].data = r.data ELSE r.data \in Current
  BY DEF AsyncRowRight
<1>1. r.id = r.data /\ (HasItsRow(r.data) \/ Ahead(r.data))  BY DEF IInv, AsyncFacts, IsLost
<1>2. /\ DOMAIN rows = 1..Len(rows) /\ Len(rows) \in Nat /\ Len(list) \in Nat /\ made \in Nat
      /\ r.data \in Nat
  <2>1. r.data \in Data  BY DEF IInv, TypeOK
  <2> QED BY <2>1, TypeFacts DEF IInv
<1>3. CASE HasItsRow(r.data)  BY <1>1, <1>2, <1>3 DEF HasItsRow
<1>4. CASE Ahead(r.data)
  <2>1. r.data > made - Len(list) /\ r.data <= made /\ r.data > Len(rows)
    BY <1>4 DEF Ahead, Logged, Pending
  <2>2. r.id \notin DOMAIN rows  BY <1>1, <1>2, <2>1
  <2>3. r.data \in Current  BY <1>2, <2>1 DEF Current, Over
  <2> QED BY <2>2, <2>3
<1> QED BY <1>1, <1>3, <1>4

\* Feedback and async data are attached to the right row, whatever the interleaving of
\* the rounds, of the threads of the targets and of the stops (logger.py:476-500,
\* plumbing.py:2471-2478, 2540-2582, 2858-2870).
THEOREM RowsRight == Spec => []RowsAreRight
<1>1. IInv => RowsAreRight  BY AsyncIsRight DEF IInv, RowsAreRight
<1> QED BY <1>1, Inductive, PTL

\* What callbacks see is feedback of their own round: what was recorded before was
\* flushed once the data were sent.
THEOREM CallbacksFresh == Spec => []CallbacksSeeFresh
<1>1. IInv => CallbacksSeeFresh  BY DEF IInv
<1> QED BY <1>1, Inductive, PTL
=============================================================================
