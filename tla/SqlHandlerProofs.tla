-------------------------- MODULE SqlHandlerProofs --------------------------
(***************************************************************************)
(* Proofs about SqlHandler, for any number of threads and statements: the  *)
(* handler thread and its callers implement SqlService, and as long as no  *)
(* statement fails the rows that insert_data guesses are rows.             *)
(*                                                                         *)
(* Three invariants, each proved with the ones before it: Placed says who  *)
(* is where and what is counted, Served what the caller that waits for an  *)
(* outcome can count on, and Guessed what a guessed id is worth.           *)
(***************************************************************************)
EXTENDS SqlHandler, FiniteSetTheorems, SequenceTheorems, TLAPS

\* _sync_lock is held from the submission to the outcome, and by stop().
HoldersHold ==
    /\ \A t \in Threads : pcT[t] \in {"append", "await", "take"} => lock = t
    /\ pcT[Fmk] = "join" => lock = Fmk

\* Which callers have a statement in hand, and of which kind.
InHand ==
    \A t \in Threads :
      /\ pcT[t] \in {"lock", "append", "await", "take", "record"} => mine[t] # None
      /\ pcT[t] \in {"await", "take"} => mine[t].waits
      /\ pcT[t] \in {"record", "stopLock", "join", "stopped"} => t = Fmk
      /\ pcT[t] = "record" => mine[t].kind = "data"
      /\ mine[t] # None /\ mine[t].kind = "data" =>
           t = Fmk /\ (mine[t].waits <=> dataId = None)

\* The handler executes a batch in one state only, and it knows its last
\* statement from then on.
InBatch ==
    /\ batch # << >> => pcH = "run"
    /\ pcH \in {"run", "publish", "announce"} => last # None

\* Nothing is executed that was not submitted.
Counted ==
    /\ Len(table) + Len(batch) + Len(list) + Cardinality(Unsubmitted) <= count
    /\ dataId # None => dataId <= count
    /\ dataId # None /\ mine[Fmk] # None /\ mine[Fmk].kind = "data" => dataId < count

Placed == TypeOK /\ HoldersHold /\ InHand /\ InBatch /\ Counted
-----------------------------------------------------------------------------
LEMMA UnsubmittedFinite ==
  IsFiniteSet(Unsubmitted) /\ Cardinality(Unsubmitted) \in Nat
<1>1. Unsubmitted \subseteq Threads  BY DEF Unsubmitted
<1>2. IsFiniteSet(Threads)  BY SqlHandlerAssumption
<1> QED BY <1>1, <1>2, FS_Subset, FS_CardinalityType

\* How the number of statements under way changes.
LEMMA UnsubmittedSteps ==
  ASSUME TypeOK, NEW t \in Threads
  PROVE  /\ pcT' = pcT => Unsubmitted' = Unsubmitted
         /\ pcT' = [pcT EXCEPT ![t] = "lock"] /\ pcT[t] \notin {"lock", "append"}
              => Cardinality(Unsubmitted') = Cardinality(Unsubmitted) + 1
         /\ pcT[t] = "append" /\ (\E s \in CallerStates \ {"lock", "append"} : pcT' = [pcT EXCEPT ![t] = s])
              => Cardinality(Unsubmitted') = Cardinality(Unsubmitted) - 1
         /\ pcT[t] = "lock" /\ pcT' = [pcT EXCEPT ![t] = "append"] => Unsubmitted' = Unsubmitted
         /\ pcT[t] \notin {"lock", "append"}
              /\ (\E s \in CallerStates \ {"lock", "append"} : pcT' = [pcT EXCEPT ![t] = s])
              => Unsubmitted' = Unsubmitted
<1> USE DEF Unsubmitted, TypeOK
<1>1. pcT' = pcT => Unsubmitted' = Unsubmitted  OBVIOUS
<1>2. ASSUME pcT' = [pcT EXCEPT ![t] = "lock"], pcT[t] \notin {"lock", "append"}
      PROVE  Cardinality(Unsubmitted') = Cardinality(Unsubmitted) + 1
  <2>1. Unsubmitted' = Unsubmitted \cup {t} /\ t \notin Unsubmitted  BY <1>2
  <2> HIDE DEF Unsubmitted
  <2> QED BY <2>1, UnsubmittedFinite, FS_AddElement
<1>3. ASSUME pcT[t] = "append", NEW s \in CallerStates \ {"lock", "append"},
             pcT' = [pcT EXCEPT ![t] = s]
      PROVE  Cardinality(Unsubmitted') = Cardinality(Unsubmitted) - 1
  <2>1. Unsubmitted' = Unsubmitted \ {t} /\ t \in Unsubmitted  BY <1>3
  <2> HIDE DEF Unsubmitted
  <2> QED BY <2>1, UnsubmittedFinite, FS_RemoveElement
<1>4. pcT[t] = "lock" /\ pcT' = [pcT EXCEPT ![t] = "append"] => Unsubmitted' = Unsubmitted
  OBVIOUS
<1>5. ASSUME pcT[t] \notin {"lock", "append"}, NEW s \in CallerStates \ {"lock", "append"},
             pcT' = [pcT EXCEPT ![t] = s]
      PROVE  Unsubmitted' = Unsubmitted
  BY <1>5
<1> QED BY <1>1, <1>2, <1>3, <1>4, <1>5

\* The statement removed from a batch is its first one.
LEMMA RestOfBatch ==
  ASSUME NEW q \in Seq(Stmts), q # << >>
  PROVE  /\ RemoveAt(q, OldestFirst) = Tail(q)
         /\ RemoveAt(q, OldestFirst) \in Seq(Stmts)
         /\ Len(RemoveAt(q, OldestFirst)) = Len(q) - 1
         /\ q[OldestFirst] = Head(q) /\ q[OldestFirst] \in Stmts
<1>1. /\ SubSeq(q, 1, 0) = << >> /\ Tail(q) = SubSeq(q, 2, Len(q))
      /\ Tail(q) \in Seq(Stmts) /\ Len(Tail(q)) = Len(q) - 1
      /\ Head(q) = q[1] /\ q[1] \in Stmts
  OBVIOUS
<1>2. << >> \o Tail(q) = Tail(q)  BY <1>1, ConcatEmptySeq
<1> QED BY <1>1, <1>2 DEF RemoveAt, OldestFirst

\* Counting the data of a sequence of statements.
LEMMA DataUpToFacts ==
  ASSUME NEW q \in Seq(Stmts), NEW i \in 0..Len(q)
  PROVE  /\ DataUpTo(q, i) \in 0..i
         /\ (\E j \in 1..i : q[j].kind = "data") => DataUpTo(q, i) # 0
         /\ i < Len(q) => DataUpTo(q, i + 1) = DataUpTo(q, i) + (IF q[i + 1].kind = "data" THEN 1 ELSE 0)
<1> DEFINE D == {j \in 1..i : q[j].kind = "data"}
<1>1. IsFiniteSet(1..i) /\ Cardinality(1..i) = i  BY FS_Interval
<1>2. IsFiniteSet(D) /\ Cardinality(D) \in Nat /\ Cardinality(D) <= i
  BY <1>1, FS_Subset, FS_CardinalityType
<1>3. ASSUME i < Len(q), q[i + 1].kind = "data"
      PROVE  DataUpTo(q, i + 1) = DataUpTo(q, i) + 1
  <2>1. {j \in 1..(i + 1) : q[j].kind = "data"} = D \cup {i + 1} /\ i + 1 \notin D  BY <1>3
  <2> QED BY <2>1, <1>2, FS_AddElement DEF DataUpTo
<1>4. ASSUME i < Len(q), q[i + 1].kind # "data"
      PROVE  DataUpTo(q, i + 1) = DataUpTo(q, i)
  <2>1. {j \in 1..(i + 1) : q[j].kind = "data"} = D  BY <1>4
  <2> QED BY <2>1 DEF DataUpTo
<1>5. (\E j \in 1..i : q[j].kind = "data") => Cardinality(D) # 0
  <2>1. Cardinality(D) = 0 => D = {}  BY <1>2, FS_EmptySet
  <2> QED BY <2>1
<1> QED BY <1>2, <1>3, <1>4, <1>5 DEF DataUpTo
-----------------------------------------------------------------------------
LEMMA InitPlaced == Init => Placed
<1> SUFFICES ASSUME Init PROVE Placed  OBVIOUS
<1>1. Unsubmitted = {}  BY DEF Init, Unsubmitted
<1>2. Cardinality(Unsubmitted) = 0  BY <1>1, FS_EmptySet
<1>3. TypeOK
  <2>1. /\ pcT \in [Threads -> CallerStates] /\ mine \in [Threads -> Stmts \cup {None}]
        /\ answer \in [Threads -> Stmts \cup {None}]
    BY DEF Init, CallerStates
  <2>2. list \in Seq(Stmts) /\ batch \in Seq(Stmts) /\ table \in Seq(Stmts)
    BY DEF Init
  <2>3. dataId \in 0..MaxStmts \cup {None} /\ count \in 0..MaxStmts
    BY SqlHandlerAssumption DEF Init
  <2> QED BY <2>1, <2>2, <2>3 DEF Init, TypeOK, HandlerStates
<1>4. HoldersHold /\ InHand /\ InBatch
  BY SqlHandlerAssumption DEF Init, HoldersHold, InHand, InBatch
<1>5. Counted  BY <1>2 DEF Init, Counted
<1> QED BY <1>3, <1>4, <1>5 DEF Placed

\* A caller builds a statement.
LEMMA PreparePlaced ==
  ASSUME Placed, InsertData \/ \E t \in Threads : InsertAsync(t) \/ Ask(t)
  PROVE  Placed'
<1>1. PICK t \in Threads, k \in {"data", "async", "ask"}, waits \in BOOLEAN,
           ref \in 0..MaxStmts \cup {None} :
        /\ Prepare(t, k, waits, ref)
        /\ k = "data" => t = Fmk /\ (waits <=> dataId = None)
  BY SqlHandlerAssumption DEF InsertData, InsertAsync, Ask, Placed, TypeOK
<1> DEFINE s == [n |-> count + 1, kind |-> k, waits |-> waits, ref |-> ref]
<1>2. count' = count + 1 /\ count < MaxStmts /\ pcT[t] = "out"
      /\ mine' = [mine EXCEPT ![t] = s] /\ pcT' = [pcT EXCEPT ![t] = "lock"]
      /\ UNCHANGED <<lock, enabled, dataId, answer, handlerVars, sharedVars>>
  BY <1>1 DEF Prepare, Goto
<1>3. s \in Stmts  BY <1>2, SqlHandlerAssumption DEF Stmts, Placed, TypeOK
<1> HIDE DEF s
<1>4. TypeOK'
  BY <1>2, <1>3, SqlHandlerAssumption
  DEF Placed, TypeOK, CallerStates, handlerVars, sharedVars
<1>5. HoldersHold'  BY <1>2 DEF Placed, TypeOK, HoldersHold
<1>6. s.kind = k /\ s.waits = waits /\ s # None
  BY <1>1, <1>3, SqlHandlerAssumption DEF s
<1>7. InHand'
  BY <1>1, <1>2, <1>6 DEF Placed, TypeOK, InHand
<1>8. InBatch'  BY <1>2 DEF Placed, InBatch, handlerVars
<1>9. Counted'
  <2>1. Cardinality(Unsubmitted') = Cardinality(Unsubmitted) + 1
    BY <1>2, UnsubmittedSteps DEF Placed
  <2>2. Cardinality(Unsubmitted) \in Nat  BY UnsubmittedFinite
  <2> QED BY <1>2, <2>1, <2>2 DEF Placed, TypeOK, Counted, handlerVars, sharedVars
<1> QED BY <1>4, <1>5, <1>7, <1>8, <1>9 DEF Placed

LEMMA LockPlaced ==
  ASSUME Placed, NEW t \in Threads, Lock(t)
  PROVE  Placed'
<1>1. TypeOK'
  BY DEF Placed, TypeOK, Lock, Goto, CallerStates, handlerVars, sharedVars
<1>2. HoldersHold'
  BY SqlHandlerAssumption
  DEF Placed, TypeOK, HoldersHold, Lock, Goto
<1>3. InHand'  BY DEF Placed, TypeOK, InHand, Lock, Goto
<1>4. InBatch'  BY DEF Placed, InBatch, Lock, handlerVars
<1>5. Counted'
  <2>1. Unsubmitted' = Unsubmitted  BY UnsubmittedSteps DEF Lock, Goto, Placed
  <2> QED BY <2>1 DEF Placed, TypeOK, Counted, Lock, handlerVars, sharedVars
<1> QED BY <1>1, <1>2, <1>3, <1>4, <1>5 DEF Placed

LEMMA AppendPlaced ==
  ASSUME Placed, NEW t \in Threads, AppendStmt(t)
  PROVE  Placed'
<1>1. mine[t] \in Stmts /\ pcT[t] = "append" /\ list' = Append(list, mine[t])
      /\ lock = t
  BY DEF AppendStmt, Placed, TypeOK, InHand, HoldersHold
<1>2. PICK s \in {"await", "record", "out"} :
        /\ pcT' = [pcT EXCEPT ![t] = s]
        /\ s = "await" => mine[t].waits /\ mine' = mine /\ lock' = lock
        /\ s # "await" => lock' = None
        /\ s = "record" => mine[t].kind = "data" /\ mine' = mine
        /\ s = "out" => mine' = [mine EXCEPT ![t] = None]
  BY DEF AppendStmt, Leave, ReleaseLock, Goto
<1>3. UNCHANGED <<enabled, dataId, answer, count, handlerVars, stopEvent, handled, outcome>>
  BY DEF AppendStmt
<1>4. list' \in Seq(Stmts) /\ Len(list') = Len(list) + 1
  BY <1>1 DEF Placed, TypeOK
<1>5. TypeOK'
  BY <1>1, <1>2, <1>3, <1>4 DEF Placed, TypeOK, CallerStates, handlerVars
<1>6. HoldersHold'
  BY <1>1, <1>2, SqlHandlerAssumption DEF Placed, TypeOK, HoldersHold
<1>7. InHand'
  BY <1>1, <1>2, <1>3, SqlHandlerAssumption DEF Placed, TypeOK, InHand
<1>8. InBatch'  BY <1>3 DEF Placed, InBatch, handlerVars
<1>9. Counted'
  <2>1. Cardinality(Unsubmitted') = Cardinality(Unsubmitted) - 1
    BY <1>1, <1>2, UnsubmittedSteps DEF Placed, CallerStates
  <2>2. Cardinality(Unsubmitted) \in Nat  BY UnsubmittedFinite
  <2>3. mine'[Fmk] # None => mine'[Fmk] = mine[Fmk]
    BY <1>2, SqlHandlerAssumption DEF Placed, TypeOK
  <2> QED BY <1>3, <1>4, <2>1, <2>2, <2>3 DEF Placed, TypeOK, Counted, handlerVars
<1> QED BY <1>5, <1>6, <1>7, <1>8, <1>9 DEF Placed

LEMMA AwaitPlaced ==
  ASSUME Placed, NEW t \in Threads, AwaitHandled(t)
  PROVE  Placed'
<1>1. TypeOK'
  BY DEF Placed, TypeOK, AwaitHandled, Goto, CallerStates, handlerVars
<1>2. HoldersHold'  BY DEF Placed, TypeOK, HoldersHold, AwaitHandled, Goto
<1>3. InHand'  BY DEF Placed, TypeOK, InHand, AwaitHandled, Goto
<1>4. InBatch'  BY DEF Placed, InBatch, AwaitHandled, handlerVars
<1>5. Counted'
  <2>1. Unsubmitted' = Unsubmitted
    BY UnsubmittedSteps DEF AwaitHandled, Goto, Placed, CallerStates
  <2> QED BY <2>1 DEF Placed, TypeOK, Counted, AwaitHandled, handlerVars
<1> QED BY <1>1, <1>2, <1>3, <1>4, <1>5 DEF Placed

LEMMA TakePlaced ==
  ASSUME Placed, NEW t \in Threads, TakeOutcome(t)
  PROVE  Placed'
<1>1. PICK s \in {"record", "out"} :
        /\ pcT' = [pcT EXCEPT ![t] = s]
        /\ s = "record" => mine[t].kind = "data" /\ mine' = mine
        /\ s = "out" => mine' = [mine EXCEPT ![t] = None]
  BY DEF TakeOutcome, Leave, Goto
<1>2. /\ pcT[t] = "take" /\ answer' = [answer EXCEPT ![t] = outcome] /\ outcome' = None
      /\ lock' = None /\ lock = t /\ mine[t] # None
      /\ UNCHANGED <<enabled, dataId, count, handlerVars, list, stopEvent, handled>>
  BY DEF TakeOutcome, Leave, ConsumeOutcome, ReleaseLock, Placed, HoldersHold, InHand
<1>3. TypeOK'
  BY <1>1, <1>2 DEF Placed, TypeOK, CallerStates, handlerVars
<1>4. HoldersHold'
  BY <1>1, <1>2, SqlHandlerAssumption DEF Placed, TypeOK, HoldersHold
<1>5. InHand'
  BY <1>1, <1>2, SqlHandlerAssumption DEF Placed, TypeOK, InHand
<1>6. InBatch'  BY <1>2 DEF Placed, InBatch, handlerVars
<1>7. Counted'
  <2>1. Unsubmitted' = Unsubmitted
    BY <1>1, <1>2, UnsubmittedSteps DEF Placed, CallerStates
  <2>2. mine'[Fmk] # None => mine'[Fmk] = mine[Fmk]
    BY <1>1, SqlHandlerAssumption DEF Placed, TypeOK
  <2> QED BY <1>2, <2>1, <2>2 DEF Placed, TypeOK, Counted, handlerVars
<1> QED BY <1>3, <1>4, <1>5, <1>6, <1>7 DEF Placed

LEMMA RecordPlaced ==
  ASSUME Placed, RecordId
  PROVE  Placed'
<1>1. /\ Fmk \in Threads /\ pcT[Fmk] = "record" /\ mine[Fmk] \in Stmts
      /\ mine[Fmk].kind = "data" /\ (mine[Fmk].waits <=> dataId = None)
  BY SqlHandlerAssumption DEF RecordId, Placed, TypeOK, InHand
<1>2. /\ pcT' = [pcT EXCEPT ![Fmk] = "out"] /\ mine' = [mine EXCEPT ![Fmk] = None]
      /\ UNCHANGED <<lock, enabled, answer, count, handlerVars, sharedVars>>
  BY DEF RecordId, Goto
<1>3. dataId' # None => dataId' \in Nat /\ dataId' <= count
  <2>1. Rows \in 0..Len(table)
    <3>1. table \in Seq(Stmts) /\ Len(table) \in 0..Len(table)  BY DEF Placed, TypeOK
    <3> QED BY <3>1, DataUpToFacts DEF Rows
  <2>2. Len(table) <= count
    BY UnsubmittedFinite DEF Placed, TypeOK, Counted
  <2>3. dataId # None => dataId \in Nat /\ dataId < count
    BY <1>1, SqlHandlerAssumption DEF Placed, TypeOK, Counted
  <2> QED
    BY <1>1, <2>1, <2>2, <2>3, SqlHandlerAssumption DEF RecordId, RowId, Placed, TypeOK
<1>4. count \in 0..MaxStmts /\ MaxStmts \in Nat
  BY SqlHandlerAssumption DEF Placed, TypeOK
<1>5. TypeOK'
  BY <1>1, <1>2, <1>3, <1>4
  DEF Placed, TypeOK, CallerStates, handlerVars, sharedVars
<1>6. HoldersHold'  BY <1>1, <1>2 DEF Placed, TypeOK, HoldersHold
<1>7. InHand'  BY <1>1, <1>2 DEF Placed, TypeOK, InHand
<1>8. InBatch'  BY <1>2 DEF Placed, InBatch, handlerVars
<1>9. Counted'
  <2>1. Unsubmitted' = Unsubmitted
    BY <1>1, <1>2, UnsubmittedSteps DEF Placed, CallerStates
  <2> QED BY <1>1, <1>2, <1>3, <2>1 DEF Placed, TypeOK, Counted, handlerVars, sharedVars
<1> QED BY <1>5, <1>6, <1>7, <1>8, <1>9 DEF Placed

\* The three steps of stop().
LEMMA StopPlaced ==
  ASSUME Placed, Stop \/ StopHandler \/ Join
  PROVE  Placed'
<1>1. PICK s \in {"stopLock", "join", "stopped"} :
        /\ pcT' = [pcT EXCEPT ![Fmk] = s]
        /\ s = "join" => lock = None /\ lock' = Fmk
        /\ s = "stopLock" => lock' = lock
        /\ s = "stopped" => lock' = None /\ lock = Fmk
  BY DEF Stop, StopHandler, Join, Goto, Placed, HoldersHold
<1>2. /\ Fmk \in Threads /\ pcT[Fmk] \in {"out", "stopLock", "join"}
      /\ UNCHANGED <<mine, dataId, answer, count, handlerVars, list, handled, outcome>>
      /\ stopEvent' \in {stopEvent, TRUE} /\ enabled' \in {enabled, FALSE}
  BY SqlHandlerAssumption DEF Stop, StopHandler, Join, Goto, sharedVars
<1>3. TypeOK'
  BY <1>1, <1>2 DEF Placed, TypeOK, CallerStates, handlerVars
<1>4. HoldersHold'
  BY <1>1, <1>2, SqlHandlerAssumption DEF Placed, TypeOK, HoldersHold
<1>5. InHand'  BY <1>1, <1>2 DEF Placed, TypeOK, InHand
<1>6. InBatch'  BY <1>2 DEF Placed, InBatch, handlerVars
<1>7. Counted'
  <2>1. Unsubmitted' = Unsubmitted
    BY <1>1, <1>2, UnsubmittedSteps DEF Placed, CallerStates
  <2> QED BY <1>2, <2>1 DEF Placed, TypeOK, Counted, handlerVars
<1> QED BY <1>3, <1>4, <1>5, <1>6, <1>7 DEF Placed

\* What the handler does to the statements and to the callers' variables.
LEMMA HandlerChanges ==
  ASSUME Placed, Handler
  PROVE  /\ UNCHANGED <<callerVars, stopEvent>>
         /\ \/ UNCHANGED <<batch, list, table>>
            \/ batch = << >> /\ batch' = list /\ list' = << >> /\ table' = table
            \/ /\ batch # << >> /\ batch' = Tail(batch) /\ list' = list
               /\ table' \in {table, Append(table, Head(batch))}
<1>1. CASE TakeList
  BY <1>1 DEF TakeList, Placed, InBatch
<1>2. CASE Run
  <2>1. batch # << >> /\ batch \in Seq(Stmts)  BY <1>2 DEF Run, Placed, TypeOK
  <2>2. RemoveAt(batch, OldestFirst) = Tail(batch) /\ batch[OldestFirst] = Head(batch)
    BY <2>1, RestOfBatch
  <2> QED BY <1>2, <2>1, <2>2 DEF Run, sharedVars
<1>3. CASE Test \/ EndBatch \/ Publish \/ Announce
  BY <1>3 DEF Test, EndBatch, Publish, Announce, sharedVars
<1> QED BY <1>1, <1>2, <1>3 DEF Handler

LEMMA HandlerPlaced ==
  ASSUME Placed, Handler
  PROVE  Placed'
<1>1. UNCHANGED <<pcT, mine, lock, enabled, dataId, answer, count, stopEvent>>
  BY HandlerChanges DEF callerVars
<1>2. /\ list' \in Seq(Stmts) /\ batch' \in Seq(Stmts) /\ table' \in Seq(Stmts)
      /\ Len(table') + Len(batch') + Len(list') <= Len(table) + Len(batch) + Len(list)
  <2>1. list \in Seq(Stmts) /\ batch \in Seq(Stmts) /\ table \in Seq(Stmts)
    BY DEF Placed, TypeOK
  <2>2. CASE UNCHANGED <<batch, list, table>>  BY <2>1, <2>2
  <2>3. CASE batch = << >> /\ batch' = list /\ list' = << >> /\ table' = table
    BY <2>1, <2>3
  <2>4. ASSUME batch # << >>, batch' = Tail(batch), list' = list,
               table' \in {table, Append(table, Head(batch))}
        PROVE  /\ list' \in Seq(Stmts) /\ batch' \in Seq(Stmts) /\ table' \in Seq(Stmts)
               /\ Len(table') + Len(batch') + Len(list') <= Len(table) + Len(batch) + Len(list)
    <3>1. Tail(batch) \in Seq(Stmts) /\ Len(Tail(batch)) = Len(batch) - 1 /\ Head(batch) \in Stmts
      BY <2>1, <2>4
    <3>2. table' \in Seq(Stmts) /\ Len(table') <= Len(table) + 1
      <4>1. Append(table, Head(batch)) \in Seq(Stmts)
            /\ Len(Append(table, Head(batch))) = Len(table) + 1
        BY <2>1, <3>1
      <4>2. Len(table) \in Nat  BY <2>1
      <4>3. CASE table' = table  BY <2>1, <4>2, <4>3
      <4>4. CASE table' = Append(table, Head(batch))  BY <4>1, <4>2, <4>4
      <4> QED BY <2>4, <4>3, <4>4
    <3>3. Len(table') \in Nat /\ Len(table) \in Nat /\ Len(batch) \in Nat /\ Len(list) \in Nat
      BY <2>1, <3>2
    <3>4. Len(table') + (Len(batch) - 1) + Len(list) <= Len(table) + Len(batch) + Len(list)
      BY <3>2, <3>3
    <3> QED BY <2>1, <2>4, <3>1, <3>2, <3>4
  <2> QED BY <2>2, <2>3, <2>4, HandlerChanges
<1>3. /\ pcH' \in HandlerStates /\ last' \in Stmts \cup {None} /\ outcome' \in Stmts \cup {None}
      /\ handled' \in BOOLEAN /\ lastError' \in BOOLEAN
      /\ InBatch'
  <2>1. list \in Seq(Stmts) /\ (list # << >> => list[Len(list)] \in Stmts)
    BY DEF Placed, TypeOK
  <2>2. CASE Test \/ EndBatch \/ Publish \/ Announce
    BY <2>2
    DEF Test, EndBatch, Publish, Announce, Placed, TypeOK, InBatch, HandlerStates, sharedVars
  <2>3. CASE TakeList
    BY <2>1, <2>3, SqlHandlerAssumption
    DEF TakeList, Placed, TypeOK, InBatch, HandlerStates
  <2>4. CASE Run
    BY <2>4 DEF Run, Placed, TypeOK, InBatch, HandlerStates, sharedVars
  <2> QED BY <2>2, <2>3, <2>4 DEF Handler
<1>4. TypeOK'  BY <1>1, <1>2, <1>3 DEF Placed, TypeOK
<1>5. HoldersHold' /\ InHand'  BY <1>1 DEF Placed, HoldersHold, InHand
<1>6. Counted'
  <2>1. Unsubmitted' = Unsubmitted  BY <1>1 DEF Unsubmitted
  <2>2. Cardinality(Unsubmitted) \in Nat  BY UnsubmittedFinite
  <2> QED BY <1>1, <1>2, <2>1, <2>2 DEF Placed, TypeOK, Counted
<1> QED BY <1>3, <1>4, <1>5, <1>6 DEF Placed

LEMMA NextPlaced == Placed /\ [Next \/ Finished]_vars => Placed'
<1> SUFFICES ASSUME Placed, [Next \/ Finished]_vars PROVE Placed'  OBVIOUS
<1>1. CASE UNCHANGED vars
  <2>1. UNCHANGED <<callerVars, handlerVars, sharedVars>>  BY <1>1 DEF vars
  <2> QED
    BY <2>1
    DEF callerVars, handlerVars, sharedVars, Placed, TypeOK, HoldersHold, InHand,
        InBatch, Counted, Unsubmitted
<1>2. CASE Handler  BY <1>2, HandlerPlaced
<1>3. CASE InsertData \/ \E t \in Threads : InsertAsync(t) \/ Ask(t)
  BY <1>3, PreparePlaced
<1>4. CASE \E t \in Threads : Lock(t) \/ AppendStmt(t) \/ AwaitHandled(t) \/ TakeOutcome(t)
  BY <1>4, LockPlaced, AppendPlaced, AwaitPlaced, TakePlaced
<1>5. CASE RecordId  BY <1>5, RecordPlaced
<1>6. CASE Stop \/ StopHandler \/ Join  BY <1>6, StopPlaced
<1> QED BY <1>1, <1>2, <1>3, <1>4, <1>5, <1>6 DEF Next, Caller, Finished

\* Every variable of the database threads keeps its type, for any threads and
\* any number of statements (Database._sql_handler and submit_sql_stmt); with
\* the rest of Placed: a caller between its submission and its outcome holds
\* _sync_lock, and never more statements are executed than were submitted.
THEOREM TypeCorrect == Spec => []TypeOK
<1>1. Placed => TypeOK  BY DEF Placed
<1> QED BY <1>1, InitPlaced, NextPlaced, PTL DEF Spec
-----------------------------------------------------------------------------
(* What the caller that waits for an outcome can count on.                  *)

Numbers(q) == {q[i].n : i \in 1..Len(q)}
Known == Numbers(table) \cup Numbers(batch) \cup Numbers(list)
Holding(t) == pcT[t] \in {"lock", "append"}

\* Every statement has a number of its own.
Fresh ==
    /\ Known \subseteq 1..count
    /\ \A t \in Threads : mine[t] # None => mine[t].n <= count
    /\ \A t \in Threads : Holding(t) => mine[t].n \notin Known
    /\ \A t, u \in Threads : Holding(t) /\ Holding(u) /\ t # u => mine[t].n # mine[u].n

Occurs(s, q) == Service!IsIn(s, q)
OnlyLast(s, q) ==
    q # << >> /\ q[Len(q)] = s /\ \A i \in 1..Len(q) : q[i] = s => i = Len(q)
Nothing == batch = << >> /\ list = << >>
Result(t) == IF Occurs(mine[t], table) THEN mine[t] ELSE None

\* The handler has not seen a statement whose outcome is wanted.
Quiet ==
    /\ ~handled /\ outcome = None
    /\ pcH \in {"test", "wait", "run", "gone"}
    /\ pcH = "run" => ~last.waits

\* The phases of a statement whose outcome is wanted.
InList(t) ==
    /\ Quiet /\ OnlyLast(mine[t], list)
    /\ ~Occurs(mine[t], batch) /\ ~Occurs(mine[t], table)
InRun(t) ==
    /\ ~handled /\ outcome = None /\ pcH = "run" /\ list = << >> /\ last = mine[t]
    /\ IF batch # << >> THEN OnlyLast(mine[t], batch) /\ ~Occurs(mine[t], table)
       ELSE lastError <=> ~Occurs(mine[t], table)
InPublish(t) ==
    /\ ~handled /\ outcome = None /\ pcH = "publish" /\ Nothing /\ last = mine[t]
    /\ lastError <=> ~Occurs(mine[t], table)
InAnnounce(t) == ~handled /\ pcH = "announce" /\ Nothing /\ outcome = Result(t)
Answered(t) == pcH \in {"test", "wait", "gone"} /\ Nothing /\ outcome = Result(t)

Waiters == {t \in Threads : pcT[t] \in {"await", "take"}}
Waiting ==
    /\ \A t \in Threads : pcT[t] = "await" =>
         InList(t) \/ InRun(t) \/ InPublish(t) \/ InAnnounce(t) \/ (handled /\ Answered(t))
    /\ \A t \in Threads : pcT[t] = "take" => ~handled /\ Answered(t)
    /\ Waiters = {} => Quiet /\ (list # << >> => ~list[Len(list)].waits)

Served == Fresh /\ Waiting

-----------------------------------------------------------------------------
\* How the numbers of a queue change.
LEMMA NumbersFacts ==
  ASSUME NEW q \in Seq(Stmts)
  PROVE  /\ \A s \in Stmts : Numbers(Append(q, s)) = Numbers(q) \cup {s.n}
         /\ q # << >> => Numbers(Tail(q)) \subseteq Numbers(q) /\ Head(q).n \in Numbers(q)
         /\ \A s \in Stmts : s.n \notin Numbers(q) => ~Occurs(s, q)
<1>1. ASSUME NEW s \in Stmts
      PROVE  Numbers(Append(q, s)) = Numbers(q) \cup {s.n}
  <2>1. /\ Len(Append(q, s)) = Len(q) + 1 /\ Len(q) \in Nat
        /\ Append(q, s)[Len(q) + 1] = s
        /\ \A i \in 1..Len(q) : Append(q, s)[i] = q[i]
    OBVIOUS
  <2>2. 1..(Len(q) + 1) = 1..Len(q) \cup {Len(q) + 1}  BY <2>1
  <2> QED BY <2>1, <2>2 DEF Numbers
<1>2. ASSUME q # << >>
      PROVE  Numbers(Tail(q)) \subseteq Numbers(q) /\ Head(q).n \in Numbers(q)
  <2>1. /\ Len(Tail(q)) = Len(q) - 1 /\ Len(q) \in Nat \ {0} /\ Head(q) = q[1]
        /\ \A i \in 1..Len(Tail(q)) : Tail(q)[i] = q[i + 1]
    BY <1>2
  <2> QED BY <2>1 DEF Numbers
<1>3. \A s \in Stmts : s.n \notin Numbers(q) => ~Occurs(s, q)
  BY DEF Numbers, Occurs, Service!IsIn
<1> QED BY <1>1, <1>2, <1>3

\* Appending a statement to a queue, and executing the oldest one.
LEMMA OccursFacts ==
  ASSUME NEW q \in Seq(Stmts), NEW s \in Stmts
  PROVE  /\ ~Occurs(s, << >>)
         /\ ~Occurs(s, q) => OnlyLast(s, Append(q, s))
         /\ \A r \in Stmts : Occurs(s, Append(q, r)) <=> Occurs(s, q) \/ s = r
         /\ OnlyLast(s, q) /\ Len(q) > 1 => Head(q) # s /\ OnlyLast(s, Tail(q))
         /\ OnlyLast(s, q) /\ Len(q) <= 1 => Head(q) = s /\ Tail(q) = << >>
         /\ q # << >> /\ ~Occurs(s, q) => Head(q) # s /\ ~Occurs(s, Tail(q))
<1> USE DEF Occurs, Service!IsIn
<1>1. ~Occurs(s, << >>)  OBVIOUS
<1>2. ASSUME NEW r \in Stmts
      PROVE  /\ Len(Append(q, r)) = Len(q) + 1 /\ Len(q) \in Nat
             /\ Append(q, r)[Len(q) + 1] = r
             /\ \A i \in 1..Len(q) : Append(q, r)[i] = q[i]
             /\ Append(q, r) # << >>
  OBVIOUS
<1>3. \A r \in Stmts : Occurs(s, Append(q, r)) <=> Occurs(s, q) \/ s = r
  <2>1. 1..(Len(q) + 1) = 1..Len(q) \cup {Len(q) + 1}  BY <1>2
  <2> QED BY <1>2, <2>1
<1>4. ~Occurs(s, q) => OnlyLast(s, Append(q, s))
  <2>1. 1..(Len(q) + 1) = 1..Len(q) \cup {Len(q) + 1}  BY <1>2
  <2> QED BY <1>2, <2>1 DEF OnlyLast
<1>5. ASSUME q # << >>
      PROVE  /\ Len(Tail(q)) = Len(q) - 1 /\ Len(q) \in Nat \ {0} /\ Head(q) = q[1]
             /\ \A i \in 1..Len(Tail(q)) : Tail(q)[i] = q[i + 1]
             /\ Tail(q) \in Seq(Stmts)
  BY <1>5
<1>6. ASSUME OnlyLast(s, q), Len(q) > 1
      PROVE  Head(q) # s /\ OnlyLast(s, Tail(q))
  <2>1. q # << >> /\ q[Len(q)] = s /\ \A i \in 1..Len(q) : q[i] = s => i = Len(q)
    BY <1>6 DEF OnlyLast
  <2>2. Len(q) - 1 \in 1..Len(Tail(q)) /\ Tail(q)[Len(q) - 1] = s
    BY <1>5, <1>6, <2>1
  <2>3. Tail(q) # << >>  BY <1>5, <1>6, <2>1
  <2>4. \A i \in 1..Len(Tail(q)) : Tail(q)[i] = s => i = Len(Tail(q))
    <3>1. SUFFICES ASSUME NEW i \in 1..Len(Tail(q)), Tail(q)[i] = s PROVE i = Len(Tail(q))
      OBVIOUS
    <3>2. q[i + 1] = s /\ i + 1 \in 1..Len(q)  BY <1>5, <2>1, <3>1
    <3> QED BY <1>5, <2>1, <3>2
  <2>5. Head(q) # s  BY <1>5, <1>6, <2>1
  <2> QED BY <1>5, <2>1, <2>2, <2>3, <2>4, <2>5 DEF OnlyLast
<1>7. OnlyLast(s, q) /\ Len(q) <= 1 => Head(q) = s /\ Tail(q) = << >>
  BY <1>5 DEF OnlyLast
<1>8. q # << >> /\ ~Occurs(s, q) => Head(q) # s /\ ~Occurs(s, Tail(q))
  BY <1>5
<1> QED BY <1>1, <1>3, <1>4, <1>6, <1>7, <1>8

\* What one execution adds to a table.
LEMMA ExecuteFacts ==
  ASSUME NEW q \in Seq(Stmts), NEW r \in Stmts, NEW p \in {q, Append(q, r)}
  PROVE  /\ Numbers(p) \subseteq Numbers(q) \cup {r.n}
         /\ \A s \in Stmts : ~Occurs(s, q) /\ r # s => ~Occurs(s, p)
<1>1. CASE p = q  BY <1>1
<1>2. CASE p = Append(q, r)
  <2>1. Numbers(Append(q, r)) = Numbers(q) \cup {r.n}  BY NumbersFacts
  <2>2. \A s \in Stmts : Occurs(s, Append(q, r)) <=> Occurs(s, q) \/ s = r
    BY OccursFacts
  <2> QED BY <1>2, <2>1, <2>2
<1> QED BY <1>1, <1>2

LEMMA InitServed == Init => Served
<1> SUFFICES ASSUME Init PROVE Served  OBVIOUS
<1>1. Known = {}  BY DEF Init, Known, Numbers
<1>2. Fresh  BY <1>1 DEF Init, Fresh, Holding
<1>3. Waiting  BY DEF Init, Waiting, Quiet
<1> QED BY <1>2, <1>3 DEF Served

\* A step of a caller that touches neither the handler nor a waiting caller.
LEMMA Untouched ==
  ASSUME Waiting, Waiters' = Waiters,
         \A t \in Waiters : pcT'[t] = pcT[t] /\ mine'[t] = mine[t],
         UNCHANGED <<handlerVars, list, handled, outcome>>
  PROVE  Waiting'
<1>1. \A t \in Waiters :
        /\ InList(t)' = InList(t) /\ InRun(t)' = InRun(t) /\ InPublish(t)' = InPublish(t)
        /\ InAnnounce(t)' = InAnnounce(t) /\ Answered(t)' = Answered(t)
  BY DEF InList, InRun, InPublish, InAnnounce, Answered, Quiet, OnlyLast, Occurs, Service!IsIn,
         Nothing, Result, handlerVars
<1>2. Quiet' = Quiet  BY DEF Quiet, handlerVars
<1>3. \A t \in Threads : pcT'[t] \in {"await", "take"} => t \in Waiters /\ pcT[t] = pcT'[t]
  BY DEF Waiters
<1>4. \A t \in Threads : pcT'[t] = "await" =>
        InList(t)' \/ InRun(t)' \/ InPublish(t)' \/ InAnnounce(t)' \/ (handled' /\ Answered(t)')
  BY <1>1, <1>3 DEF Waiting
<1>5. \A t \in Threads : pcT'[t] = "take" => ~handled' /\ Answered(t)'
  BY <1>1, <1>3 DEF Waiting
<1>6. Waiters' = {} => Quiet' /\ (list' # << >> => ~list'[Len(list')].waits)
  BY <1>2 DEF Waiting
<1> QED BY <1>4, <1>5, <1>6 DEF Waiting

LEMMA PrepareServed ==
  ASSUME Placed, Served, InsertData \/ \E t \in Threads : InsertAsync(t) \/ Ask(t)
  PROVE  Served'
<1>1. PICK t \in Threads, k \in {"data", "async", "ask"}, waits \in BOOLEAN,
           ref \in 0..MaxStmts \cup {None} : Prepare(t, k, waits, ref)
  BY SqlHandlerAssumption DEF InsertData, InsertAsync, Ask, Placed, TypeOK
<1>2. PICK s : s.n = count + 1 /\ mine' = [mine EXCEPT ![t] = s]
  BY <1>1 DEF Prepare
<1>3. /\ pcT[t] = "out" /\ pcT' = [pcT EXCEPT ![t] = "lock"] /\ count' = count + 1
      /\ UNCHANGED <<handlerVars, sharedVars>> /\ count \in Nat
  BY <1>1 DEF Prepare, Goto, Placed, TypeOK
<1>4. Known' = Known  BY <1>3 DEF Known, Numbers, handlerVars, sharedVars
<1>5. Fresh'
  <2>1. Known \subseteq 1..count  BY DEF Served, Fresh
  <2>2. \A u \in Threads : mine[u] # None => mine[u].n \in Nat /\ mine[u].n <= count
    BY SqlHandlerAssumption DEF Served, Fresh, Placed, TypeOK, Stmts
  <2>3. \A u \in Threads :
          /\ u # t => mine'[u] = mine[u] /\ (Holding(u)' <=> Holding(u))
          /\ mine'[t] = s
    BY <1>2, <1>3 DEF Placed, TypeOK, Holding
  <2>4. \A u \in Threads : Holding(u) => mine[u] # None
    BY DEF Placed, InHand, Holding
  <2>5. Known' \subseteq 1..count' /\ s.n \notin Known'
    BY <1>2, <1>3, <1>4, <2>1
  <2>6. \A u \in Threads : mine'[u] # None => mine'[u].n <= count'
    BY <1>2, <1>3, <2>2, <2>3
  <2>7. \A u \in Threads : Holding(u)' => mine'[u].n \notin Known'
    BY <1>4, <2>3, <2>5 DEF Served, Fresh
  <2>8. \A u, v \in Threads : Holding(u)' /\ Holding(v)' /\ u # v => mine'[u].n # mine'[v].n
    <3>1. \A u \in Threads : u # t /\ Holding(u)' => mine'[u].n # s.n
      BY <1>2, <1>3, <2>2, <2>3, <2>4
    <3> QED BY <2>3, <3>1 DEF Served, Fresh
  <2> QED BY <2>5, <2>6, <2>7, <2>8 DEF Fresh
<1>6. Waiters' = Waiters /\ t \notin Waiters
  BY <1>3 DEF Waiters, Placed, TypeOK
<1>7. \A u \in Waiters : pcT'[u] = pcT[u] /\ mine'[u] = mine[u]
  BY <1>2, <1>3, <1>6 DEF Waiters, Placed, TypeOK
<1>8. Waiting'  BY <1>3, <1>6, <1>7, Untouched DEF Served, sharedVars
<1> QED BY <1>5, <1>8 DEF Served

\* Lock, stop() and the recording of an id leave the statements alone.
LEMMA AsideServed ==
  ASSUME Placed, Served,
         (\E t \in Threads : Lock(t)) \/ RecordId \/ Stop \/ StopHandler \/ Join
  PROVE  Served'
<1>1. PICK t \in Threads, s \in CallerStates :
        /\ pcT' = [pcT EXCEPT ![t] = s] /\ pcT[t] \notin {"await", "take", "append"}
        /\ s \notin {"lock", "await", "take"} /\ (s = "append" => pcT[t] = "lock")
        /\ mine' = [mine EXCEPT ![t] = None] \/ mine' = mine
        /\ mine'[t] = mine[t] \/ s = "out"
  <2>1. Fmk \in Threads  BY SqlHandlerAssumption
  <2>2. CASE \E t \in Threads : Lock(t)
    BY <2>2 DEF Lock, Goto, CallerStates
  <2>3. CASE RecordId
    BY <2>1, <2>3 DEF RecordId, Goto, CallerStates
  <2>4. CASE Stop \/ StopHandler \/ Join
    BY <2>1, <2>4 DEF Stop, StopHandler, Join, Goto, CallerStates
  <2> QED BY <2>2, <2>3, <2>4
<1>2. UNCHANGED <<count, handlerVars, list, handled, outcome>>
  BY DEF Lock, RecordId, Stop, StopHandler, Join, sharedVars
<1>3. Known' = Known  BY <1>2 DEF Known, Numbers, handlerVars
<1>4. \A u \in Threads : mine'[u] # None => mine'[u] = mine[u]
  BY <1>1 DEF Placed, TypeOK
<1>5. \A u \in Threads : Holding(u)' => Holding(u) /\ mine'[u] = mine[u]
  BY <1>1 DEF Placed, TypeOK, Holding
<1>6. Fresh'
  BY <1>2, <1>3, <1>4, <1>5 DEF Served, Fresh
<1>7. Waiters' = Waiters /\ t \notin Waiters
  BY <1>1 DEF Waiters, Placed, TypeOK
<1>8. \A u \in Waiters : pcT'[u] = pcT[u] /\ mine'[u] = mine[u]
  BY <1>1, <1>7 DEF Waiters, Placed, TypeOK
<1>9. Waiting'  BY <1>2, <1>7, <1>8, Untouched DEF Served
<1> QED BY <1>6, <1>9 DEF Served

LEMMA AppendServed ==
  ASSUME Placed, Served, NEW t \in Threads, AppendStmt(t)
  PROVE  Served'
<1>1. /\ mine[t] \in Stmts /\ pcT[t] = "append" /\ list' = Append(list, mine[t]) /\ lock = t
      /\ list \in Seq(Stmts) /\ batch \in Seq(Stmts) /\ table \in Seq(Stmts)
      /\ UNCHANGED <<count, batch, table, pcH, last, lastError, handled, outcome>>
  BY DEF AppendStmt, Placed, TypeOK, InHand, HoldersHold, handlerVars
<1>2. PICK s \in {"await", "record", "out"} :
        /\ pcT' = [pcT EXCEPT ![t] = s]
        /\ s = "await" <=> mine[t].waits
        /\ s # "out" => mine' = mine
        /\ s = "out" => mine' = [mine EXCEPT ![t] = None]
  BY DEF AppendStmt, Leave, Goto
<1>3. Known' = Known \cup {mine[t].n}
  <2>1. Numbers(list') = Numbers(list) \cup {mine[t].n}  BY <1>1, NumbersFacts
  <2>2. Numbers(table') = Numbers(table) /\ Numbers(batch') = Numbers(batch)
    BY <1>1
  <2>3. Known' = Numbers(table') \cup Numbers(batch') \cup Numbers(list')
    BY DEF Known, Numbers
  <2> QED BY <2>1, <2>2, <2>3 DEF Known
<1>4. \A u \in Threads : mine'[u] # None => mine'[u] = mine[u]
  BY <1>2 DEF Placed, TypeOK
<1>5. \A u \in Threads : Holding(u)' => Holding(u) /\ mine'[u] = mine[u] /\ u # t
  BY <1>2 DEF Placed, TypeOK, Holding
<1>6. mine[t].n \in 1..MaxStmts /\ mine[t].n <= count /\ count \in Nat /\ mine[t].n \notin Known
  BY <1>1, SqlHandlerAssumption DEF Served, Fresh, Holding, Stmts, Placed, TypeOK
<1>7. Fresh'
  <2>1. Known' \subseteq 1..count'
    <3>1. mine[t].n \in 1..count /\ count' = count  BY <1>1, <1>6, SqlHandlerAssumption
    <3> QED BY <1>3, <3>1 DEF Served, Fresh
  <2>2. \A u \in Threads : mine'[u] # None => mine'[u].n <= count'
    BY <1>1, <1>4 DEF Served, Fresh
  <2>3. \A u \in Threads : Holding(u)' => mine'[u].n \notin Known'
    BY <1>1, <1>3, <1>5 DEF Served, Fresh, Holding
  <2>4. \A u, v \in Threads : Holding(u)' /\ Holding(v)' /\ u # v => mine'[u].n # mine'[v].n
    BY <1>5 DEF Served, Fresh
  <2> QED BY <2>1, <2>2, <2>3, <2>4 DEF Fresh
<1>8. Waiters = {}
  BY <1>1 DEF Waiters, Placed, HoldersHold
<1>9. Quiet /\ Quiet'
  BY <1>1, <1>8 DEF Served, Waiting, Quiet
<1>10. ~Occurs(mine[t], table) /\ ~Occurs(mine[t], batch) /\ ~Occurs(mine[t], list)
  BY <1>1, <1>6, NumbersFacts DEF Known
<1>11. CASE mine[t].waits
  <2>1. pcT' = [pcT EXCEPT ![t] = "await"] /\ mine' = mine  BY <1>2, <1>11
  <2>2. OnlyLast(mine[t], list')  BY <1>1, <1>10, OccursFacts
  <2>3. InList(t)'
    BY <1>1, <1>9, <1>10, <2>1, <2>2 DEF InList, OnlyLast, Occurs, Service!IsIn
  <2>4. Waiters' = {t}  BY <1>8, <2>1 DEF Waiters, Placed, TypeOK
  <2>5. \A u \in Threads : pcT'[u] \in {"await", "take"} => u = t /\ pcT'[u] = "await"
    BY <1>8, <2>1 DEF Waiters, Placed, TypeOK
  <2> QED BY <1>7, <2>3, <2>4, <2>5 DEF Served, Waiting
<1>12. CASE ~mine[t].waits
  <2>1. Waiters' = {}  BY <1>2, <1>8, <1>12 DEF Waiters, Placed, TypeOK
  <2>2. list'[Len(list')] = mine[t]  BY <1>1
  <2> QED BY <1>7, <1>9, <1>12, <2>1, <2>2 DEF Served, Waiting, Waiters
<1> QED BY <1>11, <1>12

LEMMA AwaitServed ==
  ASSUME Placed, Served, NEW t \in Threads, AwaitHandled(t)
  PROVE  Served'
<1>1. /\ pcT[t] = "await" /\ handled /\ handled' = FALSE /\ lock = t
      /\ pcT' = [pcT EXCEPT ![t] = "take"]
      /\ UNCHANGED <<mine, count, handlerVars, list, outcome>>
  BY DEF AwaitHandled, Goto, Placed, HoldersHold
<1>2. Answered(t)
  BY <1>1 DEF Served, Waiting, InList, InRun, InPublish, InAnnounce, Quiet
<1>3. Answered(t)'
  BY <1>1, <1>2 DEF Answered, Nothing, Result, Occurs, Service!IsIn, handlerVars
<1>4. Known' = Known  BY <1>1 DEF Known, Numbers, handlerVars
<1>5. Fresh'  BY <1>1, <1>4 DEF Served, Fresh, Holding, Placed, TypeOK
<1>6. \A u \in Threads : pcT'[u] \in {"await", "take"} => u = t /\ pcT'[u] = "take"
  BY <1>1 DEF Placed, TypeOK, HoldersHold
<1>7. t \in Waiters'  BY <1>1 DEF Waiters, Placed, TypeOK
<1>8. ~handled'  BY <1>1
<1> QED BY <1>3, <1>5, <1>6, <1>7, <1>8 DEF Served, Waiting

LEMMA TakeServed ==
  ASSUME Placed, Served, NEW t \in Threads, TakeOutcome(t)
  PROVE  Served'
<1>1. /\ pcT[t] = "take" /\ outcome' = None /\ lock = t
      /\ UNCHANGED <<count, handlerVars, list, handled>>
  BY DEF TakeOutcome, ConsumeOutcome, Placed, HoldersHold
<1>2. PICK s \in {"record", "out"} :
        /\ pcT' = [pcT EXCEPT ![t] = s]
        /\ mine' = [mine EXCEPT ![t] = None] \/ mine' = mine
  BY DEF TakeOutcome, Leave, Goto
<1>3. ~handled /\ Answered(t)  BY <1>1 DEF Served, Waiting
<1>4. Known' = Known  BY <1>1 DEF Known, Numbers, handlerVars
<1>5. \A u \in Threads : mine'[u] # None => mine'[u] = mine[u]
  BY <1>2 DEF Placed, TypeOK
<1>6. \A u \in Threads : Holding(u)' => Holding(u) /\ mine'[u] = mine[u]
  BY <1>1, <1>2 DEF Placed, TypeOK, Holding
<1>7. Fresh'  BY <1>1, <1>4, <1>5, <1>6 DEF Served, Fresh
<1>8. \A u \in Threads : pcT'[u] \notin {"await", "take"}
  BY <1>1, <1>2 DEF Placed, TypeOK, HoldersHold
<1>9. Quiet' /\ list' = << >>
  BY <1>1, <1>3 DEF Answered, Nothing, Quiet, handlerVars
<1> QED BY <1>7, <1>8, <1>9 DEF Served, Waiting

LEMMA HandlerServed ==
  ASSUME Placed, Served, Handler
  PROVE  Served'
<1>1. /\ UNCHANGED <<pcT, mine, count>> /\ list \in Seq(Stmts) /\ batch \in Seq(Stmts)
      /\ table \in Seq(Stmts)
  BY HandlerChanges DEF callerVars, Placed, TypeOK
<1>2. Fresh'
  <2>1. Known' \subseteq Known
    <3>1. CASE UNCHANGED <<batch, list, table>>  BY <3>1 DEF Known, Numbers
    <3>2. CASE batch = << >> /\ batch' = list /\ list' = << >> /\ table' = table
      BY <3>2 DEF Known, Numbers
    <3>3. ASSUME batch # << >>, batch' = Tail(batch), list' = list,
                 table' \in {table, Append(table, Head(batch))}
          PROVE  Known' \subseteq Known
      <4>1. Numbers(batch') \subseteq Numbers(batch) /\ Head(batch).n \in Numbers(batch)
        BY <1>1, <3>3, NumbersFacts
      <4>2. Head(batch) \in Stmts  BY <1>1, <3>3
      <4>3. Numbers(table') \subseteq Numbers(table) \cup {Head(batch).n}
        BY <1>1, <3>3, <4>2, ExecuteFacts
      <4>4. Numbers(list') = Numbers(list)  BY <3>3
      <4>5. Known' = Numbers(table') \cup Numbers(batch') \cup Numbers(list')
        BY DEF Known, Numbers
      <4> QED BY <4>1, <4>3, <4>4, <4>5 DEF Known
    <3> QED BY <3>1, <3>2, <3>3, HandlerChanges
  <2> QED BY <1>1, <2>1 DEF Served, Fresh, Holding
<1>3. CASE Waiters = {}
  <2>1. Quiet /\ (list # << >> => ~list[Len(list)].waits)  BY <1>3 DEF Served, Waiting
  <2>2. Quiet' /\ (list' # << >> => ~list'[Len(list')].waits)
    <3>1. CASE TakeList  BY <2>1, <3>1 DEF TakeList, Quiet
    <3>2. CASE Test \/ Run \/ EndBatch \/ Publish \/ Announce
      BY <2>1, <3>2 DEF Test, Run, EndBatch, Publish, Announce, Quiet, WantsOutcome, sharedVars
    <3> QED BY <3>1, <3>2 DEF Handler
  <2>3. \A t \in Threads : pcT'[t] \notin {"await", "take"}
    BY <1>1, <1>3 DEF Waiters
  <2> QED BY <1>2, <2>2, <2>3 DEF Served, Waiting
<1>4. ASSUME Waiters # {} PROVE Served'
  <2>1. PICK t \in Waiters : lock = t
    BY <1>4 DEF Waiters, Placed, HoldersHold
  <2>2. /\ t \in Threads /\ mine[t] \in Stmts /\ mine[t].waits
        /\ \A u \in Threads : pcT'[u] \in {"await", "take"} => u = t
        /\ pcT'[t] = pcT[t] /\ pcT[t] \in {"await", "take"} /\ mine'[t] = mine[t]
        /\ Waiters' # {}
    BY <1>1, <2>1 DEF Waiters, Placed, TypeOK, HoldersHold, InHand
  <2>3. ASSUME pcT[t] = "await",
               InList(t)' \/ InRun(t)' \/ InPublish(t)' \/ InAnnounce(t)' \/ (handled' /\ Answered(t)')
        PROVE  Served'
    BY <1>2, <2>2, <2>3 DEF Served, Waiting
  <2>4. CASE InList(t) /\ pcT[t] = "await"
    <3>1. CASE TakeList /\ list # << >>
      BY <2>2, <2>3, <2>4, <3>1, <1>1
      DEF TakeList, InList, InRun, OnlyLast, Quiet, Occurs, Service!IsIn
    <3>2. CASE TakeList /\ list = << >>
      BY <2>4, <3>2 DEF InList, OnlyLast
    <3>3. CASE Test
      BY <2>2, <2>3, <2>4, <3>3
      DEF Test, InList, OnlyLast, Quiet, Occurs, Service!IsIn, sharedVars
    <3>4. CASE EndBatch
      BY <2>2, <2>3, <2>4, <3>4
      DEF EndBatch, WantsOutcome, InList, OnlyLast, Quiet, Occurs, Service!IsIn, sharedVars
    <3>5. CASE Run
      <4>1. batch # << >> /\ Head(batch) \in Stmts  BY <1>1, <3>5 DEF Run
      <4>2. batch' = Tail(batch) /\ table' \in {table, Append(table, Head(batch))}
            /\ UNCHANGED <<pcH, last, list, handled, outcome>>
        BY <1>1, <3>5, <4>1, RestOfBatch DEF Run, sharedVars
      <4>3. ~Occurs(mine[t], batch') /\ ~Occurs(mine[t], table')
        <5>1. Head(batch) # mine[t] /\ ~Occurs(mine[t], Tail(batch)) /\ ~Occurs(mine[t], table)
          BY <1>1, <2>2, <2>4, <4>1, OccursFacts DEF InList
        <5>2. \A s \in Stmts : ~Occurs(s, table) /\ Head(batch) # s => ~Occurs(s, table')
          BY <1>1, <4>1, <4>2, ExecuteFacts
        <5> QED BY <2>2, <4>2, <5>1, <5>2 DEF Occurs, Service!IsIn
      <4> QED
        BY <2>2, <2>3, <2>4, <4>2, <4>3 DEF InList, OnlyLast, Quiet, Occurs, Service!IsIn
    <3>6. ~Publish /\ ~Announce  BY <2>4 DEF InList, Quiet, Publish, Announce
    <3> QED BY <3>1, <3>2, <3>3, <3>4, <3>5, <3>6 DEF Handler
  <2>5. CASE InRun(t) /\ pcT[t] = "await"
    <3>1. CASE Run
      <4>1. batch # << >> /\ Head(batch) \in Stmts  BY <1>1, <3>1 DEF Run
      <4>2. /\ batch' = Tail(batch)
            /\ \/ table' = Append(table, Head(batch)) /\ lastError' = FALSE
               \/ table' = table /\ lastError' = TRUE
            /\ UNCHANGED <<pcH, last, list, handled, outcome>>
        BY <1>1, <3>1, <4>1, RestOfBatch DEF Run, sharedVars
      <4>3. OnlyLast(mine[t], batch) /\ ~Occurs(mine[t], table)
        BY <2>5, <4>1 DEF InRun
      <4>4. CASE Len(batch) > 1
        <5>1. OnlyLast(mine[t], batch') /\ ~Occurs(mine[t], table')
          <6>1. Head(batch) # mine[t] /\ OnlyLast(mine[t], Tail(batch))
            BY <1>1, <2>2, <4>3, <4>4, OccursFacts
          <6>2. ~Occurs(mine[t], table')
            <7>1. table' \in {table, Append(table, Head(batch))}  BY <4>2
            <7>2. \A s \in Stmts : ~Occurs(s, table) /\ Head(batch) # s => ~Occurs(s, table')
              BY <1>1, <4>1, <7>1, ExecuteFacts
            <7> QED BY <2>2, <4>3, <6>1, <7>2
          <6> QED BY <4>2, <6>1, <6>2 DEF OnlyLast
        <5>2. batch' # << >>  BY <5>1 DEF OnlyLast
        <5> QED
          BY <2>2, <2>3, <2>5, <4>2, <5>1, <5>2
          DEF InRun, OnlyLast, Occurs, Service!IsIn
      <4>5. CASE Len(batch) <= 1
        <5>1. Head(batch) = mine[t] /\ batch' = << >>
          BY <1>1, <2>2, <4>2, <4>3, <4>5, OccursFacts
        <5>2. lastError' <=> ~Occurs(mine[t], table')
          <6>1. Occurs(mine[t], Append(table, mine[t]))
            BY <1>1, <2>2, OccursFacts
          <6> QED BY <4>2, <4>3, <5>1, <6>1 DEF Occurs, Service!IsIn
        <5> QED
          BY <2>2, <2>3, <2>5, <4>2, <5>1, <5>2 DEF InRun, Occurs, Service!IsIn
      <4>6. Len(batch) \in Nat  BY <1>1
      <4> QED BY <4>4, <4>5, <4>6
    <3>2. CASE EndBatch
      BY <2>2, <2>3, <2>5, <3>2
      DEF EndBatch, WantsOutcome, InRun, InPublish, Nothing, Occurs, Service!IsIn, sharedVars
    <3>3. ~Test /\ ~TakeList /\ ~Publish /\ ~Announce
      BY <2>5 DEF InRun, Test, TakeList, Publish, Announce
    <3> QED BY <3>1, <3>2, <3>3 DEF Handler
  <2>6. CASE InPublish(t) /\ pcT[t] = "await"
    <3>1. Publish
      BY <2>6 DEF InPublish, Handler, Test, TakeList, Run, EndBatch, Announce
    <3> QED
      BY <2>2, <2>3, <2>6, <3>1
      DEF Publish, InPublish, InAnnounce, Nothing, Result, Occurs, Service!IsIn
  <2>7. CASE InAnnounce(t) /\ pcT[t] = "await"
    <3>1. Announce
      BY <2>7 DEF InAnnounce, Handler, Test, TakeList, Run, EndBatch, Publish
    <3> QED
      BY <2>2, <2>3, <2>7, <3>1
      DEF Announce, InAnnounce, Answered, Nothing, Result, Occurs, Service!IsIn
  <2>8. CASE Answered(t) /\ (handled <=> pcT[t] = "await")
    <3>1. Test \/ (TakeList /\ list = << >>)
      BY <2>8 DEF Answered, Nothing, Handler, TakeList, Run, EndBatch, Publish, Announce
    <3>2. Answered(t)' /\ handled' = handled
      BY <2>2, <2>8, <3>1
      DEF Test, TakeList, Answered, Nothing, Result, Occurs, Service!IsIn, sharedVars
    <3> QED BY <1>2, <2>2, <2>8, <3>2 DEF Served, Waiting
  <2> QED BY <2>2, <2>4, <2>5, <2>6, <2>7, <2>8 DEF Served, Waiting
<1> QED BY <1>3, <1>4

LEMMA NextServed == Placed /\ Served /\ [Next \/ Finished]_vars => Served'
<1> SUFFICES ASSUME Placed, Served, [Next \/ Finished]_vars PROVE Served'  OBVIOUS
<1>1. CASE UNCHANGED vars
  <2>1. UNCHANGED <<callerVars, handlerVars, sharedVars>>  BY <1>1 DEF vars
  <2>2. Known' = Known
    BY <2>1 DEF callerVars, handlerVars, sharedVars, Known, Numbers
  <2>3. Fresh'
    BY <2>1, <2>2 DEF callerVars, Served, Fresh, Holding
  <2>4. Waiters' = Waiters  BY <2>1 DEF callerVars, Waiters
  <2>5. Waiting'  BY <2>1, <2>4, Untouched DEF callerVars, sharedVars, Served
  <2> QED BY <2>3, <2>5 DEF Served
<1>2. CASE Handler  BY <1>2, HandlerServed
<1>3. CASE InsertData \/ \E t \in Threads : InsertAsync(t) \/ Ask(t)
  BY <1>3, PrepareServed
<1>4. CASE \E t \in Threads : AppendStmt(t) \/ AwaitHandled(t) \/ TakeOutcome(t)
  BY <1>4, AppendServed, AwaitServed, TakeServed
<1>5. CASE (\E t \in Threads : Lock(t)) \/ RecordId \/ Stop \/ StopHandler \/ Join
  BY <1>5, AsideServed
<1> QED BY <1>1, <1>2, <1>3, <1>4, <1>5 DEF Next, Caller, Finished

\* A caller whose statement is answered (submit_sql_stmt after _sql_stmt_handled)
\* finds the outcome of that very statement: the statement itself if it was
\* committed, None if it failed, and the handler has nothing left to execute.
AnswerIsMine == \A t \in Threads : pcT[t] = "take" => Nothing /\ outcome = Result(t)

\* AnswerIsMine always holds, for any threads (Database.submit_sql_stmt).
THEOREM EachItsAnswer == Spec => []AnswerIsMine
<1>1. Placed /\ Served => AnswerIsMine
  BY DEF Served, Waiting, AnswerIsMine, Answered
<1> QED BY <1>1, InitPlaced, NextPlaced, InitServed, NextServed, PTL DEF Spec

-----------------------------------------------------------------------------
(* The refinement.                                                          *)

Asked == [t \in Threads |-> IF pcT[t] \in {"await", "take"} THEN mine[t] ELSE None]

LEMMA InitRefines == Init => Service!Init
<1>1. << >> \o << >> = << >>  OBVIOUS
<1> QED BY <1>1 DEF Init, Service!Init

LEMMA QueueFacts ==
  ASSUME NEW b \in Seq(Stmts), NEW q \in Seq(Stmts)
  PROVE  /\ b \o q \in Seq(Stmts)
         /\ \A s \in Stmts : b \o Append(q, s) = Append(b \o q, s)
         /\ << >> \o q = q /\ q \o << >> = q
         /\ b # << >> => b \o q # << >> /\ Head(b \o q) = Head(b) /\ Tail(b \o q) = Tail(b) \o q
<1>1. b \o q \in Seq(Stmts)  OBVIOUS
<1>2. \A s \in Stmts : b \o Append(q, s) = Append(b \o q, s)  OBVIOUS
<1>3. << >> \o q = q /\ q \o << >> = q  OBVIOUS
<1>4. ASSUME b # << >>
      PROVE  b \o q # << >> /\ Head(b \o q) = Head(b) /\ Tail(b \o q) = Tail(b) \o q
  BY <1>4
<1> QED BY <1>1, <1>2, <1>3, <1>4

LEMMA AppendRefines ==
  ASSUME Placed, NEW t \in Threads, AppendStmt(t)
  PROVE  Service!Next
<1>1. /\ mine[t] \in Stmts /\ pcT[t] = "append" /\ list' = Append(list, mine[t])
      /\ UNCHANGED <<batch, table, answer>>
      /\ list \in Seq(Stmts) /\ batch \in Seq(Stmts)
  BY DEF AppendStmt, Placed, TypeOK, InHand, handlerVars
<1>2. PICK s \in {"await", "record", "out"} :
        /\ pcT' = [pcT EXCEPT ![t] = s]
        /\ s = "await" <=> mine[t].waits
        /\ s = "await" => mine' = mine
        /\ mine' = mine \/ mine' = [mine EXCEPT ![t] = None]
  BY DEF AppendStmt, Leave, Goto
<1>3. batch' \o list' = Append(batch \o list, mine[t])  BY <1>1, QueueFacts
<1>4. Asked[t] = None  BY <1>1 DEF Asked
<1>5. Asked' = IF mine[t].waits THEN [Asked EXCEPT ![t] = mine[t]] ELSE Asked
  <2>1. \A u \in Threads : u # t => Asked'[u] = Asked[u]
    BY <1>2 DEF Asked, Placed, TypeOK
  <2>2. Asked'[t] = IF mine[t].waits THEN mine[t] ELSE None
    BY <1>2 DEF Asked, Placed, TypeOK
  <2>3. Asked \in [Threads -> Stmts \cup {None}] /\ Asked' \in [Threads -> Stmts \cup {None}]
    BY <1>2 DEF Asked, Placed, TypeOK
  <2>4. CASE mine[t].waits
    <3>1. [Asked EXCEPT ![t] = mine[t]] \in [Threads -> Stmts \cup {None}]
      BY <1>1, <2>3
    <3>2. \A u \in Threads : Asked'[u] = [Asked EXCEPT ![t] = mine[t]][u]
      BY <2>1, <2>2, <2>3, <2>4
    <3>3. Asked' = [Asked EXCEPT ![t] = mine[t]]  BY <2>3, <3>1, <3>2
    <3> QED BY <2>4, <3>3
  <2>5. CASE ~mine[t].waits
    <3>1. \A u \in Threads : Asked'[u] = Asked[u]  BY <1>4, <2>1, <2>2, <2>5
    <3>2. Asked' = Asked  BY <2>3, <3>1
    <3> QED BY <2>5, <3>2
  <2> QED BY <2>4, <2>5
<1>6. PICK r \in Stmts, w \in BOOLEAN : r = mine[t] /\ w = mine[t].waits
  BY <1>1 DEF Stmts
<1>7. Service!Submit(t, r, w)
  BY <1>1, <1>3, <1>4, <1>5, <1>6 DEF Service!Submit, Asked
<1>8. \E u \in Threads : \E r_1 \in Stmts, w_1 \in BOOLEAN : Service!Submit(u, r_1, w_1)
  BY <1>7
<1> QED BY <1>8 DEF Service!Next

LEMMA TakeRefines ==
  ASSUME Placed, Served, NEW t \in Threads, TakeOutcome(t)
  PROVE  Service!Next
<1>1. /\ pcT[t] = "take" /\ answer' = [answer EXCEPT ![t] = outcome]
      /\ UNCHANGED <<batch, list, table>> /\ mine[t] # None
  BY DEF TakeOutcome, Placed, InHand, handlerVars
<1>2. PICK s \in {"record", "out"} :
        /\ pcT' = [pcT EXCEPT ![t] = s]
        /\ mine' = mine \/ mine' = [mine EXCEPT ![t] = None]
  BY DEF TakeOutcome, Leave, Goto
<1>3. Nothing /\ outcome = Result(t)  BY <1>1 DEF Served, Waiting, Answered
<1>4. Asked[t] = mine[t]  BY <1>1 DEF Asked
<1>5. Asked' = [Asked EXCEPT ![t] = None]
  BY <1>2 DEF Asked, Placed, TypeOK
<1>6. batch \o list = << >>  BY <1>3 DEF Nothing
<1>7. ~Occurs(mine[t], batch \o list)  BY <1>6 DEF Occurs, Service!IsIn
<1>8. Service!Answer(t)
  BY <1>1, <1>3, <1>4, <1>5, <1>7 DEF Service!Answer, Asked, Occurs, Result
<1> QED BY <1>8 DEF Service!Next

LEMMA HandlerRefines ==
  ASSUME Placed, Handler
  PROVE  [Service!Next]_(Service!vars)
<1>1. /\ UNCHANGED <<pcT, mine, answer>>
      /\ batch \in Seq(Stmts) /\ list \in Seq(Stmts)
  BY HandlerChanges DEF callerVars, Placed, TypeOK
<1>2. UNCHANGED Asked  BY <1>1 DEF Asked
<1>3. CASE UNCHANGED <<batch, list, table>>
  BY <1>1, <1>2, <1>3 DEF Service!vars, Asked
<1>4. CASE batch = << >> /\ batch' = list /\ list' = << >> /\ table' = table
  <2>1. batch' \o list' = batch \o list  BY <1>1, <1>4, QueueFacts
  <2> QED BY <1>1, <1>2, <1>4, <2>1 DEF Service!vars, Asked
<1>5. ASSUME batch # << >>, batch' = Tail(batch), list' = list,
             table' \in {table, Append(table, Head(batch))}
      PROVE  Service!Execute
  <2>1. /\ batch \o list # << >> /\ Head(batch \o list) = Head(batch)
        /\ Tail(batch \o list) = batch' \o list'
    BY <1>1, <1>5, QueueFacts
  <2> QED BY <1>1, <1>2, <1>5, <2>1 DEF Service!Execute, Asked
<1> QED BY <1>3, <1>4, <1>5, HandlerChanges DEF Service!Next

LEMMA AsideRefines ==
  ASSUME Placed,
         \/ InsertData \/ RecordId \/ Stop \/ StopHandler \/ Join
         \/ \E t \in Threads : InsertAsync(t) \/ Ask(t) \/ Lock(t) \/ AwaitHandled(t)
  PROVE  UNCHANGED Service!vars
<1>1. UNCHANGED <<batch, list, table, answer>>
  BY DEF InsertData, RecordId, Stop, StopHandler, Join, InsertAsync, Ask, Lock, AwaitHandled,
         Prepare, handlerVars, sharedVars
<1>2. \A t \in Threads :
        /\ pcT[t] \in {"await", "take"} <=> pcT'[t] \in {"await", "take"}
        /\ pcT[t] \in {"await", "take"} => mine'[t] = mine[t]
  BY SqlHandlerAssumption
  DEF InsertData, RecordId, Stop, StopHandler, Join, InsertAsync, Ask, Lock, AwaitHandled,
      Prepare, Goto, Placed, TypeOK
<1>3. UNCHANGED Asked  BY <1>2 DEF Asked
<1> QED BY <1>1, <1>3 DEF Service!vars, Asked

LEMMA NextRefines ==
  Placed /\ Served /\ [Next \/ Finished]_vars => [Service!Next]_(Service!vars)
<1> SUFFICES ASSUME Placed, Served, [Next \/ Finished]_vars
             PROVE  [Service!Next]_(Service!vars)
  OBVIOUS
<1>1. CASE UNCHANGED vars
  BY <1>1 DEF vars, callerVars, handlerVars, sharedVars, Service!vars
<1>2. CASE Handler  BY <1>2, HandlerRefines
<1>3. CASE \E t \in Threads : AppendStmt(t) \/ TakeOutcome(t)
  BY <1>3, AppendRefines, TakeRefines
<1>4. CASE \/ InsertData \/ RecordId \/ Stop \/ StopHandler \/ Join
           \/ \E t \in Threads : InsertAsync(t) \/ Ask(t) \/ Lock(t) \/ AwaitHandled(t)
  BY <1>4, AsideRefines
<1> QED BY <1>1, <1>2, <1>3, <1>4 DEF Next, Caller, Finished

\* The database threads implement the service, whatever the threads and the
\* number of statements: one statement at a time, in the order of submission,
\* and each outcome to the caller that asked for it (database.py, _sql_handler
\* and submit_sql_stmt).
THEOREM Implements == Spec => ImplementsService
<1> QED
  BY InitPlaced, NextPlaced, InitServed, NextServed, InitRefines, NextRefines, PTL
  DEF Spec, ImplementsService, Service!Spec

-----------------------------------------------------------------------------
(* What a guessed id is worth.                                              *)

\* The statements in the order of their execution, and the data among them.
Flow == table \o (batch \o list)
DataSoFar == DataUpTo(Flow, Len(Flow))
RefersTo(s, d) == s.kind = "async" /\ s.ref # None => s.ref \in 1..d

\* The framework thread is told the id of its first row before another data is
\* submitted.
FirstRow ==
    pcT[Fmk] = "record" /\ mine[Fmk].waits =>
      /\ \A i \in 1..Len(batch) : batch[i].kind # "data"
      /\ \A i \in 1..Len(list) : list[i].kind # "data"
      /\ answer[Fmk] # None => \E i \in 1..Len(table) : table[i].kind = "data"

\* The guess counts the data submitted so far.
Exact ==
    /\ \A i \in 1..Len(Flow) : RefersTo(Flow[i], DataUpTo(Flow, i))
    /\ \A t \in Threads : mine[t] # None => RefersTo(mine[t], DataSoFar)
    /\ dataId # None =>
         dataId >= 1 /\ DataSoFar = dataId + (IF pcT[Fmk] = "record" THEN 1 ELSE 0)

Guessed == FirstRow /\ (NoFailure => Exact)

\* A sequence counts as many data as each of its extensions does up to there.
LEMMA DataPrefix ==
  ASSUME NEW q \in Seq(Stmts), NEW p \in Seq(Stmts), Len(q) <= Len(p),
         \A i \in 1..Len(q) : p[i] = q[i], NEW i \in 0..Len(q)
  PROVE  DataUpTo(p, i) = DataUpTo(q, i)
<1>1. {j \in 1..i : p[j].kind = "data"} = {j \in 1..i : q[j].kind = "data"}
  OBVIOUS
<1> QED BY <1>1 DEF DataUpTo

LEMMA ConcatFacts ==
  ASSUME NEW a \in Seq(Stmts), NEW q \in Seq(Stmts)
  PROVE  /\ a \o q \in Seq(Stmts) /\ Len(a \o q) = Len(a) + Len(q)
         /\ \A i \in 1..Len(a) + Len(q) :
              (a \o q)[i] = IF i <= Len(a) THEN a[i] ELSE q[i - Len(a)]
OBVIOUS

LEMMA FlowFacts ==
  ASSUME Placed
  PROVE  /\ Flow \in Seq(Stmts)
         /\ Len(Flow) = Len(table) + Len(batch) + Len(list)
         /\ \A i \in 1..Len(table) : Flow[i] = table[i]
         /\ \A i \in Len(table) + 1..Len(Flow) :
              \/ \E j \in 1..Len(batch) : Flow[i] = batch[j]
              \/ \E j \in 1..Len(list) : Flow[i] = list[j]
         /\ DataSoFar \in 0..Len(Flow)
<1> DEFINE Q == batch \o list
<1>1. /\ table \in Seq(Stmts) /\ batch \in Seq(Stmts) /\ list \in Seq(Stmts)
      /\ Len(table) \in Nat /\ Len(batch) \in Nat /\ Len(list) \in Nat
  BY DEF Placed, TypeOK
<1>2. /\ Q \in Seq(Stmts) /\ Len(Q) = Len(batch) + Len(list)
      /\ \A i \in 1..Len(Q) : Q[i] = IF i <= Len(batch) THEN batch[i] ELSE list[i - Len(batch)]
  BY <1>1
<1> HIDE DEF Q
<1>3. /\ table \o Q \in Seq(Stmts) /\ Len(table \o Q) = Len(table) + Len(Q)
      /\ \A i \in 1..Len(table) + Len(Q) :
           (table \o Q)[i] = IF i <= Len(table) THEN table[i] ELSE Q[i - Len(table)]
  BY <1>1, <1>2, ConcatFacts
<1>4. Flow = table \o Q  BY DEF Flow, Q
<1>5. ASSUME NEW i \in Len(table) + 1..Len(Flow)
      PROVE  \/ \E j \in 1..Len(batch) : Flow[i] = batch[j]
             \/ \E j \in 1..Len(list) : Flow[i] = list[j]
  <2>1. Flow[i] = Q[i - Len(table)] /\ i - Len(table) \in 1..Len(Q)
    BY <1>1, <1>2, <1>3, <1>4
  <2>2. CASE i - Len(table) <= Len(batch)  BY <1>1, <1>2, <2>1, <2>2
  <2>3. CASE ~(i - Len(table) <= Len(batch))
    <3>1. i - Len(table) - Len(batch) \in 1..Len(list)  BY <1>1, <1>2, <2>1, <2>3
    <3> QED BY <1>1, <1>2, <2>1, <2>3, <3>1
  <2> QED BY <2>2, <2>3
<1>6. DataSoFar \in 0..Len(Flow)
  <2>1. Flow \in Seq(Stmts) /\ Len(Flow) \in 0..Len(Flow)  BY <1>1, <1>2, <1>3, <1>4
  <2> QED BY <2>1, DataUpToFacts DEF DataSoFar
<1>7. Flow \in Seq(Stmts) /\ Len(Flow) = Len(table) + Len(batch) + Len(list)
  BY <1>1, <1>2, <1>3, <1>4
<1>8. ASSUME NEW i \in 1..Len(table) PROVE Flow[i] = table[i]
  <2>1. i \in 1..Len(table) + Len(Q) /\ i <= Len(table)  BY <1>1, <1>2
  <2>2. (table \o Q)[i] = table[i]  BY <1>3, <2>1
  <2> QED BY <1>4, <2>2
<1> QED BY <1>5, <1>6, <1>7, <1>8

\* As long as no statement fails the handler moves statements along only.
LEMMA HandlerFlow ==
  ASSUME Placed, Handler
  PROVE  /\ NoFailure' => NoFailure /\ Flow' = Flow
         /\ Unsubmitted' = Unsubmitted
<1>1. /\ UNCHANGED <<pcT, count>> /\ list \in Seq(Stmts) /\ batch \in Seq(Stmts)
      /\ table \in Seq(Stmts)
  BY HandlerChanges DEF callerVars, Placed, TypeOK
<1>2. Unsubmitted' = Unsubmitted  BY <1>1 DEF Unsubmitted
<1>3. Cardinality(Unsubmitted) \in Nat  BY UnsubmittedFinite
<1>4. Len(table) \in Nat /\ Len(batch) \in Nat /\ Len(list) \in Nat /\ count \in Nat
  BY <1>1 DEF Placed, TypeOK
<1>5. CASE UNCHANGED <<batch, list, table>>
  BY <1>1, <1>2, <1>5 DEF NoFailure, Flow
<1>6. CASE batch = << >> /\ batch' = list /\ list' = << >> /\ table' = table
  <2>1. batch' \o list' = batch \o list  BY <1>1, <1>6, QueueFacts
  <2>2. Len(batch') + Len(list') = Len(batch) + Len(list)  BY <1>4, <1>6
  <2>3. Len(batch') \in Nat /\ Len(list') \in Nat  BY <1>1, <1>6
  <2> QED BY <1>1, <1>2, <1>3, <1>4, <1>6, <2>1, <2>2, <2>3 DEF NoFailure, Flow
<1>7. ASSUME batch # << >>, batch' = Tail(batch), list' = list,
             table' \in {table, Append(table, Head(batch))}
      PROVE  NoFailure' => NoFailure /\ Flow' = Flow
  <2>1. Len(batch') = Len(batch) - 1 /\ batch' \in Seq(Stmts) /\ Head(batch) \in Stmts
    BY <1>1, <1>7
  <2>2. CASE table' = table
    BY <1>1, <1>2, <1>3, <1>4, <1>7, <2>1, <2>2 DEF NoFailure, Placed, Counted
  <2>3. CASE table' = Append(table, Head(batch))
    <3>1. Len(table') = Len(table) + 1  BY <1>1, <2>1, <2>3
    <3>2. /\ batch \o list \in Seq(Stmts) /\ batch \o list # << >>
          /\ Head(batch \o list) = Head(batch) /\ Tail(batch \o list) = batch' \o list'
      BY <1>1, <1>7, QueueFacts
    <3>3. \A q \in Seq(Stmts) : q # << >> => Append(table, Head(q)) \o Tail(q) = table \o q
      BY <1>1
    <3>4. Flow' = Flow  BY <2>3, <3>2, <3>3 DEF Flow
    <3> QED BY <1>1, <1>2, <1>3, <1>4, <1>7, <2>1, <3>1, <3>4 DEF NoFailure
  <2> QED BY <1>7, <2>2, <2>3
<1> QED BY <1>2, <1>5, <1>6, <1>7, HandlerChanges

LEMMA InitGuessed == Init => Guessed
<1> SUFFICES ASSUME Init PROVE Guessed  OBVIOUS
<1>1. Fmk \in Threads /\ pcT[Fmk] = "out"  BY SqlHandlerAssumption DEF Init
<1>2. FirstRow  BY <1>1 DEF FirstRow
<1>3. Placed  BY InitPlaced
<1>4. Len(Flow) = 0  BY <1>3, FlowFacts DEF Init
<1>5. Exact  BY <1>4 DEF Init, Exact
<1> QED BY <1>2, <1>5 DEF Guessed

LEMMA HandlerGuessed ==
  ASSUME Placed, Guessed, Handler
  PROVE  Guessed'
<1>1. UNCHANGED <<pcT, mine, dataId, answer>>
  BY HandlerChanges DEF callerVars
<1>2. list \in Seq(Stmts) /\ batch \in Seq(Stmts) /\ table \in Seq(Stmts)
  BY DEF Placed, TypeOK
<1>3. FirstRow'
  <2>1. CASE UNCHANGED <<batch, list, table>>  BY <1>1, <2>1 DEF Guessed, FirstRow
  <2>2. CASE batch = << >> /\ batch' = list /\ list' = << >> /\ table' = table
    BY <1>1, <2>2 DEF Guessed, FirstRow
  <2>3. ASSUME batch # << >>, batch' = Tail(batch), list' = list,
               table' \in {table, Append(table, Head(batch))}
        PROVE  FirstRow'
    <3>1. \A i \in 1..Len(Tail(batch)) : \E j \in 1..Len(batch) : Tail(batch)[i] = batch[j]
      <4>1. /\ Len(Tail(batch)) = Len(batch) - 1 /\ Len(batch) \in Nat \ {0}
            /\ \A i \in 1..Len(Tail(batch)) : Tail(batch)[i] = batch[i + 1]
        BY <1>2, <2>3
      <4> QED BY <4>1
    <3>2. \A i \in 1..Len(table) : i \in 1..Len(table') /\ table'[i] = table[i]
      <4>1. CASE table' = table  BY <4>1
      <4>2. CASE table' = Append(table, Head(batch))  BY <1>2, <2>3, <4>2
      <4> QED BY <2>3, <4>1, <4>2
    <3> QED BY <1>1, <2>3, <3>1, <3>2 DEF Guessed, FirstRow
  <2> QED BY <2>1, <2>2, <2>3, HandlerChanges
<1>4. NoFailure' => Exact'
  <2> SUFFICES ASSUME NoFailure' PROVE Exact'  OBVIOUS
  <2>1. NoFailure /\ Flow' = Flow  BY HandlerFlow
  <2>2. DataSoFar' = DataSoFar  BY <2>1 DEF DataSoFar, DataUpTo
  <2>3. Exact  BY <2>1 DEF Guessed
  <2> QED BY <1>1, <2>1, <2>2, <2>3 DEF Exact, DataUpTo
<1> QED BY <1>3, <1>4 DEF Guessed

LEMMA PrepareGuessed ==
  ASSUME Placed, Guessed, InsertData \/ \E t \in Threads : InsertAsync(t) \/ Ask(t)
  PROVE  Guessed'
<1>1. PICK t \in Threads, k \in {"data", "async", "ask"}, waits \in BOOLEAN,
           ref \in 0..MaxStmts \cup {None} :
        /\ Prepare(t, k, waits, ref) /\ (k = "async" => ref = dataId)
  BY SqlHandlerAssumption DEF InsertData, InsertAsync, Ask, Placed, TypeOK
<1>2. PICK s : s.kind = k /\ s.ref = ref /\ mine' = [mine EXCEPT ![t] = s]
  BY <1>1 DEF Prepare
<1>3. /\ pcT[t] = "out" /\ pcT' = [pcT EXCEPT ![t] = "lock"] /\ count' = count + 1
      /\ UNCHANGED <<dataId, answer, list, batch, table>> /\ count \in Nat
  BY <1>1 DEF Prepare, Goto, Placed, TypeOK, handlerVars, sharedVars
<1>4. pcT'[Fmk] = "record" <=> pcT[Fmk] = "record"
  BY <1>3 DEF Placed, TypeOK
<1>5. FirstRow'
  <2>1. pcT'[Fmk] = "record" => mine'[Fmk] = mine[Fmk]
    BY <1>2, <1>3 DEF Placed, TypeOK
  <2> QED BY <1>3, <1>4, <2>1 DEF Guessed, FirstRow
<1>6. ASSUME NoFailure' PROVE Exact'
  <2>1. NoFailure
    <3>1. Cardinality(Unsubmitted') = Cardinality(Unsubmitted) + 1
      BY <1>3, UnsubmittedSteps DEF Placed
    <3>2. Len(table) \in Nat /\ Len(batch) \in Nat /\ Len(list) \in Nat
      BY DEF Placed, TypeOK
    <3> QED BY <1>3, <1>6, <3>1, <3>2, UnsubmittedFinite DEF NoFailure
  <2>2. Exact  BY <2>1 DEF Guessed
  <2>3. Flow' = Flow /\ DataSoFar' = DataSoFar
    BY <1>3 DEF Flow, DataSoFar, DataUpTo
  <2>4. RefersTo(s, DataSoFar)
    <3>1. DataSoFar \in Nat  BY FlowFacts
    <3>2. dataId # None => dataId \in Nat  BY DEF Placed, TypeOK
    <3> QED BY <1>1, <1>2, <2>2, <3>1, <3>2 DEF RefersTo, Exact
  <2>5. \A u \in Threads : mine'[u] # None => RefersTo(mine'[u], DataSoFar)
    BY <1>2, <2>2, <2>4 DEF Exact, Placed, TypeOK
  <2> QED BY <1>3, <1>4, <2>2, <2>3, <2>5 DEF Exact, DataUpTo
<1> QED BY <1>5, <1>6 DEF Guessed

\* The steps of a caller that neither builds nor submits a statement.
LEMMA AsideGuessed ==
  ASSUME Placed, Served, Guessed,
         \/ \E t \in Threads : Lock(t) \/ AwaitHandled(t) \/ TakeOutcome(t)
         \/ Stop \/ StopHandler \/ Join
  PROVE  Guessed'
<1>0. Fmk \in Threads  BY SqlHandlerAssumption
<1>1. PICK t \in Threads, s \in CallerStates :
        /\ pcT' = [pcT EXCEPT ![t] = s] /\ pcT[t] # "append" /\ s # "lock"
        /\ s = "append" <=> pcT[t] = "lock"
        /\ s = "record" => TakeOutcome(t) /\ mine[t].kind = "data" /\ mine' = mine
        /\ mine' = [mine EXCEPT ![t] = None] \/ mine' = mine
        /\ answer' = answer \/ \E x : answer' = [answer EXCEPT ![t] = x]
        /\ pcT[t] # "record"
  <2>1. CASE \E t \in Threads : Lock(t) \/ AwaitHandled(t)
    BY <2>1 DEF Lock, AwaitHandled, Goto, CallerStates
  <2>2. CASE \E t \in Threads : TakeOutcome(t)
    BY <2>2 DEF TakeOutcome, Leave, Goto, CallerStates
  <2>3. CASE Stop \/ StopHandler \/ Join
    BY <1>0, <2>3 DEF Stop, StopHandler, Join, Goto, CallerStates
  <2> QED BY <2>1, <2>2, <2>3
<1>2. UNCHANGED <<dataId, count, list, batch, table>>
  BY DEF Lock, AwaitHandled, TakeOutcome, Stop, StopHandler, Join, handlerVars, sharedVars
<1>3. Unsubmitted' = Unsubmitted
  <2>1. CASE pcT[t] = "lock"  BY <1>1, <2>1 DEF Unsubmitted, Placed, TypeOK
  <2>2. CASE pcT[t] # "lock"  BY <1>1, <2>2 DEF Unsubmitted, Placed, TypeOK
  <2> QED BY <2>1, <2>2
<1>4. ASSUME t = Fmk, s = "record"
      PROVE  /\ mine'[Fmk] = mine[Fmk] /\ mine[Fmk].waits /\ mine[Fmk].kind = "data"
             /\ dataId = None /\ Nothing /\ answer'[Fmk] = Result(Fmk)
  <2>1. TakeOutcome(Fmk) /\ pcT[Fmk] = "take" /\ mine' = mine /\ mine[Fmk].kind = "data"
    BY <1>1, <1>4 DEF TakeOutcome
  <2>2. mine[Fmk].waits /\ dataId = None
    BY <1>0, <2>1 DEF Placed, InHand
  <2>3. Nothing /\ outcome = Result(Fmk)  BY <1>0, <2>1 DEF Served, Waiting, Answered
  <2>4. answer'[Fmk] = outcome
    BY <1>0, <2>1 DEF TakeOutcome, Placed, TypeOK
  <2> QED BY <2>1, <2>2, <2>3, <2>4
<1>5. FirstRow'
  <2>1. CASE t = Fmk /\ s = "record"
    <3>1. answer'[Fmk] # None => \E i \in 1..Len(table) : table[i].kind = "data"
      BY <1>4, <2>1 DEF Result, Occurs, Service!IsIn
    <3>2. Len(batch) = 0 /\ Len(list) = 0  BY <1>4, <2>1 DEF Nothing
    <3> QED BY <1>2, <3>1, <3>2 DEF FirstRow
  <2>2. CASE ~(t = Fmk /\ s = "record")
    <3>1. pcT'[Fmk] = "record" => t # Fmk /\ pcT[Fmk] = "record"
      BY <1>0, <1>1, <2>2 DEF Placed, TypeOK
    <3>2. t # Fmk => mine'[Fmk] = mine[Fmk] /\ answer'[Fmk] = answer[Fmk]
      BY <1>0, <1>1 DEF Placed, TypeOK
    <3> QED BY <1>2, <3>1, <3>2 DEF Guessed, FirstRow
  <2> QED BY <2>1, <2>2
<1>6. ASSUME NoFailure' PROVE Exact'
  <2>1. NoFailure  BY <1>2, <1>3, <1>6 DEF NoFailure
  <2>2. Exact  BY <2>1 DEF Guessed
  <2>3. Flow' = Flow /\ DataSoFar' = DataSoFar
    BY <1>2 DEF Flow, DataSoFar, DataUpTo
  <2>4. \A u \in Threads : mine'[u] # None => mine'[u] = mine[u]
    BY <1>1 DEF Placed, TypeOK
  <2>5. dataId # None => (pcT'[Fmk] = "record" <=> pcT[Fmk] = "record")
    BY <1>0, <1>1, <1>4 DEF Placed, TypeOK
  <2> QED BY <1>2, <2>2, <2>3, <2>4, <2>5 DEF Exact, DataUpTo
<1> QED BY <1>5, <1>6 DEF Guessed

LEMMA AppendGuessed ==
  ASSUME Placed, Guessed, NEW t \in Threads, AppendStmt(t)
  PROVE  Guessed'
<1>0. Fmk \in Threads  BY SqlHandlerAssumption
<1>1. /\ mine[t] \in Stmts /\ pcT[t] = "append" /\ list' = Append(list, mine[t])
      /\ UNCHANGED <<batch, table, answer, count, dataId>>
      /\ list \in Seq(Stmts) /\ batch \in Seq(Stmts) /\ table \in Seq(Stmts)
      /\ mine[t].kind = "data" => t = Fmk /\ (mine[t].waits <=> dataId = None)
  BY DEF AppendStmt, Placed, TypeOK, InHand, handlerVars
<1>2. PICK s \in {"await", "record", "out"} :
        /\ pcT' = [pcT EXCEPT ![t] = s]
        /\ s = "await" <=> mine[t].waits
        /\ s = "record" <=> ~mine[t].waits /\ mine[t].kind = "data"
        /\ mine' = mine \/ (s = "out" /\ mine' = [mine EXCEPT ![t] = None])
  BY DEF AppendStmt, Leave, Goto
<1>3. FirstRow'
  <2>1. SUFFICES ASSUME pcT'[Fmk] = "record", mine'[Fmk].waits
                 PROVE  /\ t # Fmk /\ pcT[Fmk] = "record" /\ mine[Fmk].waits
                        /\ mine[t].kind # "data"
    <3>1. Len(list') = Len(list) + 1 /\ Len(list) \in Nat
          /\ \A i \in 1..Len(list') : list'[i] = IF i <= Len(list) THEN list[i] ELSE mine[t]
      BY <1>1
    <3>2. \A i \in 1..Len(list') : list'[i] = mine[t] \/ (i \in 1..Len(list) /\ list'[i] = list[i])
      BY <3>1
    <3> QED BY <1>1, <3>2 DEF FirstRow, Guessed
  <2>2. t # Fmk  BY <1>0, <1>2, <2>1 DEF Placed, TypeOK
  <2>3. pcT[Fmk] = "record" /\ mine'[Fmk] = mine[Fmk]
    BY <1>0, <1>2, <2>1, <2>2 DEF Placed, TypeOK
  <2> QED BY <1>1, <2>1, <2>2, <2>3
<1>4. ASSUME NoFailure' PROVE Exact'
  <2>1. NoFailure
    <3>1. Cardinality(Unsubmitted') = Cardinality(Unsubmitted) - 1
      BY <1>1, <1>2, UnsubmittedSteps DEF Placed, CallerStates
    <3>2. Len(table) \in Nat /\ Len(batch) \in Nat /\ Len(list) \in Nat /\ Len(list') = Len(list) + 1
      BY <1>1
    <3> QED BY <1>1, <1>4, <3>1, <3>2, UnsubmittedFinite DEF NoFailure
  <2>2. Exact  BY <2>1 DEF Guessed
  <2>3. Flow' = Append(Flow, mine[t])
    <3>1. batch' \o list' = Append(batch \o list, mine[t]) /\ batch \o list \in Seq(Stmts)
      BY <1>1, QueueFacts
    <3> QED BY <1>1, <3>1, QueueFacts DEF Flow
  <2>4. /\ Flow \in Seq(Stmts) /\ Len(Flow) \in Nat /\ Flow' \in Seq(Stmts)
        /\ Len(Flow') = Len(Flow) + 1 /\ Flow'[Len(Flow) + 1] = mine[t]
        /\ \A i \in 1..Len(Flow) : Flow'[i] = Flow[i]
    BY <1>1, <2>3, FlowFacts
  <2>5. \A i \in 0..Len(Flow) : DataUpTo(Flow', i) = DataUpTo(Flow, i)
    BY <2>4, DataPrefix
  <2>6. DataSoFar' = DataSoFar + (IF mine[t].kind = "data" THEN 1 ELSE 0)
    <3>1. Len(Flow) \in 0..Len(Flow') /\ Len(Flow) < Len(Flow')  BY <2>4
    <3>2. DataUpTo(Flow', Len(Flow) + 1)
            = DataUpTo(Flow', Len(Flow)) + (IF mine[t].kind = "data" THEN 1 ELSE 0)
      BY <2>4, <3>1, DataUpToFacts
    <3> QED BY <2>4, <2>5, <3>2 DEF DataSoFar
  <2>7. DataSoFar \in Nat /\ DataSoFar' >= DataSoFar /\ DataSoFar' \in Nat
    <3>1. DataSoFar \in Nat  BY <2>4, FlowFacts
    <3> QED BY <2>6, <3>1
  <2>8. \A i \in 1..Len(Flow') : RefersTo(Flow'[i], DataUpTo(Flow', i))
    <3>1. \A i \in 1..Len(Flow) : RefersTo(Flow'[i], DataUpTo(Flow', i))
      BY <2>2, <2>4, <2>5 DEF Exact
    <3>2. mine[t] # None => RefersTo(mine[t], DataSoFar')
      BY <2>2, <2>7 DEF Exact, RefersTo
    <3>3. mine[t] # None  BY <1>1, SqlHandlerAssumption
    <3>4. RefersTo(Flow'[Len(Flow')], DataUpTo(Flow', Len(Flow')))
      BY <2>4, <3>2, <3>3 DEF DataSoFar
    <3> QED BY <2>4, <3>1, <3>4
  <2>9. \A u \in Threads : mine'[u] # None => RefersTo(mine'[u], DataSoFar')
    <3>1. \A u \in Threads : mine'[u] # None => mine'[u] = mine[u]
      BY <1>2 DEF Placed, TypeOK
    <3> QED BY <2>2, <2>7, <3>1 DEF Exact, RefersTo
  <2>10. dataId' # None =>
           dataId' >= 1 /\ DataSoFar' = dataId' + (IF pcT'[Fmk] = "record" THEN 1 ELSE 0)
    <3>1. SUFFICES ASSUME dataId # None
                   PROVE  /\ dataId >= 1
                          /\ DataSoFar' = dataId + (IF pcT'[Fmk] = "record" THEN 1 ELSE 0)
      BY <1>1
    <3>2. dataId \in Nat /\ dataId >= 1
          /\ DataSoFar = dataId + (IF pcT[Fmk] = "record" THEN 1 ELSE 0)
      BY <2>2, <3>1 DEF Exact, Placed, TypeOK
    <3>3. CASE mine[t].kind = "data"
      <4>1. pcT[Fmk] = "append" /\ pcT'[Fmk] = "record"
        BY <1>0, <1>1, <1>2, <3>1, <3>3 DEF Placed, TypeOK
      <4> QED BY <2>6, <3>2, <3>3, <4>1
    <3>4. CASE mine[t].kind # "data"
      <4>1. pcT'[Fmk] = "record" <=> pcT[Fmk] = "record"
        BY <1>0, <1>1, <1>2, <3>4 DEF Placed, TypeOK
      <4> QED BY <2>6, <2>7, <3>2, <3>4, <4>1
    <3> QED BY <3>3, <3>4
  <2>11. \A i \in 1..Len(Flow)' : RefersTo(Flow[i]', DataUpTo(Flow', i))  BY <2>8
  <2> QED BY <2>9, <2>10, <2>11 DEF Exact, DataUpTo
<1> QED BY <1>3, <1>4 DEF Guessed

LEMMA RecordGuessed ==
  ASSUME Placed, Guessed, RecordId
  PROVE  Guessed'
<1>1. /\ Fmk \in Threads /\ pcT[Fmk] = "record" /\ mine[Fmk] \in Stmts
      /\ mine[Fmk].kind = "data" /\ (mine[Fmk].waits <=> dataId = None)
  BY SqlHandlerAssumption DEF RecordId, Placed, TypeOK, InHand
<1>2. /\ pcT' = [pcT EXCEPT ![Fmk] = "out"] /\ mine' = [mine EXCEPT ![Fmk] = None]
      /\ UNCHANGED <<answer, count, batch, table, list>>
      /\ dataId' = IF ~mine[Fmk].waits THEN dataId + 1
                   ELSE IF answer[Fmk] = None THEN None ELSE Rows
  BY DEF RecordId, Goto, handlerVars, sharedVars, RowId
<1>3. pcT'[Fmk] = "out"  BY <1>1, <1>2 DEF Placed, TypeOK
<1>4. FirstRow'  BY <1>3 DEF FirstRow
<1>5. ASSUME NoFailure' PROVE Exact'
  <2>1. Unsubmitted' = Unsubmitted  BY <1>1, <1>2 DEF Unsubmitted, Placed, TypeOK
  <2>2. NoFailure  BY <1>2, <1>5, <2>1 DEF NoFailure
  <2>3. Exact  BY <2>2 DEF Guessed
  <2>4. Flow' = Flow /\ DataSoFar' = DataSoFar
    BY <1>2 DEF Flow, DataSoFar, DataUpTo
  <2>5. \A u \in Threads : mine'[u] # None => mine'[u] = mine[u]
    BY <1>2 DEF Placed, TypeOK
  <2>6. ASSUME dataId' # None PROVE dataId' >= 1 /\ DataSoFar = dataId'
    <3>1. CASE ~mine[Fmk].waits
      <4>1. dataId # None /\ dataId \in Nat /\ dataId' = dataId + 1
        BY <1>1, <1>2, <3>1 DEF Placed, TypeOK
      <4> QED BY <1>1, <2>3, <4>1 DEF Exact
    <3>2. CASE mine[Fmk].waits
      <4>1. /\ \A i \in 1..Len(batch) : batch[i].kind # "data"
            /\ \A i \in 1..Len(list) : list[i].kind # "data"
            /\ \E i \in 1..Len(table) : table[i].kind = "data"
            /\ dataId' = Rows
        BY <1>1, <1>2, <2>6, <3>2 DEF Guessed, FirstRow
      <4>2. \A i \in Len(table) + 1..Len(Flow) : Flow[i].kind # "data"
        BY <4>1, FlowFacts
      <4>3. /\ table \in Seq(Stmts) /\ Len(table) \in Nat
            /\ Len(Flow) \in Nat /\ Len(table) <= Len(Flow)
            /\ \A i \in 1..Len(table) : Flow[i] = table[i]
        <5>1. Len(table) \in Nat /\ Len(batch) \in Nat /\ Len(list) \in Nat
          BY DEF Placed, TypeOK
        <5> QED BY <5>1, FlowFacts DEF Placed, TypeOK
      <4>4. {j \in 1..Len(Flow) : Flow[j].kind = "data"}
              = {j \in 1..Len(table) : table[j].kind = "data"}
        BY <4>2, <4>3
      <4>5. DataSoFar = Rows  BY <4>4 DEF DataSoFar, Rows, DataUpTo
      <4>6. Rows >= 1
        <5>1. Len(table) \in 0..Len(table)  BY <4>3
        <5>2. Rows # 0 /\ Rows \in Nat  BY <4>1, <4>3, <5>1, DataUpToFacts DEF Rows
        <5> QED BY <5>2
      <4> QED BY <4>1, <4>5, <4>6
    <3> QED BY <3>1, <3>2
  <2>7. dataId' # None => DataSoFar' = dataId' + 0
    BY <2>4, <2>6, FlowFacts
  <2> QED BY <1>3, <2>3, <2>4, <2>5, <2>6, <2>7 DEF Exact, DataUpTo
<1> QED BY <1>4, <1>5 DEF Guessed

LEMMA NextGuessed ==
  Placed /\ Served /\ Guessed /\ [Next \/ Finished]_vars => Guessed'
<1> SUFFICES ASSUME Placed, Served, Guessed, [Next \/ Finished]_vars PROVE Guessed'
  OBVIOUS
<1>1. CASE UNCHANGED vars
  <2>1. UNCHANGED <<callerVars, handlerVars, sharedVars>>  BY <1>1 DEF vars
  <2> QED
    BY <2>1
    DEF callerVars, handlerVars, sharedVars, Guessed, FirstRow, NoFailure, Unsubmitted,
        Exact, DataSoFar, DataUpTo, Flow
<1>2. CASE Handler  BY <1>2, HandlerGuessed
<1>3. CASE InsertData \/ \E t \in Threads : InsertAsync(t) \/ Ask(t)
  BY <1>3, PrepareGuessed
<1>4. CASE \E t \in Threads : AppendStmt(t)  BY <1>4, AppendGuessed
<1>5. CASE \/ \E t \in Threads : Lock(t) \/ AwaitHandled(t) \/ TakeOutcome(t)
           \/ Stop \/ StopHandler \/ Join
  BY <1>5, AsideGuessed
<1>6. CASE RecordId  BY <1>6, RecordGuessed
<1> QED BY <1>1, <1>2, <1>3, <1>4, <1>5, <1>6 DEF Next, Caller, Finished

\* As long as no statement fails, each async row refers to a row of table DATA
\* that was inserted before it, although insert_data only counts (database.py,
\* insert_data and insert_async_data).
THEOREM GuessesAreRows == Spec => []GuessedIdsAreRows
<1>1. Placed /\ Guessed => GuessedIdsAreRows
  <2> SUFFICES ASSUME Placed, Guessed, NoFailure PROVE ReferencesData
    BY DEF GuessedIdsAreRows
  <2>1. SUFFICES ASSUME NEW i \in 1..Len(table), table[i].kind = "async", table[i].ref # None
                 PROVE  table[i].ref \in 1..DataUpTo(table, i)
    BY DEF ReferencesData
  <2>2. /\ Flow \in Seq(Stmts) /\ table \in Seq(Stmts) /\ Len(table) <= Len(Flow)
        /\ Len(table) \in Nat
        /\ \A j \in 1..Len(table) : j \in 1..Len(Flow) /\ Flow[j] = table[j]
    <3>1. Len(table) \in Nat /\ Len(batch) \in Nat /\ Len(list) \in Nat
      BY DEF Placed, TypeOK
    <3>2. Len(Flow) = Len(table) + Len(batch) + Len(list)  BY FlowFacts
    <3> QED BY <3>1, <3>2, FlowFacts DEF Placed, TypeOK
  <2>3. RefersTo(table[i], DataUpTo(Flow, i))  BY <2>2 DEF Guessed, Exact
  <2>4. DataUpTo(Flow, i) = DataUpTo(table, i)
    <3>1. i \in 0..Len(table)  BY <2>2
    <3> QED BY <2>2, <3>1, DataPrefix
  <2> QED BY <2>1, <2>3, <2>4 DEF RefersTo
<1> QED
  BY <1>1, InitPlaced, NextPlaced, InitServed, NextServed, InitGuessed, NextGuessed, PTL
  DEF Spec
=============================================================================
