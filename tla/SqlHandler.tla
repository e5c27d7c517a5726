----------------------------- MODULE SqlHandler -----------------------------
(***************************************************************************)
(* database.py: the thread that owns the SQLite connection                 *)
(* (Database._sql_handler) and the threads that hand it statements         *)
(* (submit_sql_stmt, from insert_data, insert_async_data and               *)
(* execute_sql_statement) until one of them calls Database.stop().         *)
(*                                                                         *)
(* A statement is known by the order number of its submission. Reading or  *)
(* writing what a lock protects is one step per critical section; the      *)
(* sleeps (Condition.wait and Event.wait with a timeout) are polling       *)
(* states.                                                                 *)
(***************************************************************************)
EXTENDS Naturals, Sequences, FiniteSets, SequencesExt

CONSTANTS
    Threads,    \* threads of the framework that use the database
    Fmk,        \* the framework thread: it inserts the data and calls stop()
    Askers,     \* threads that ask for outcomes (execute_sql_statement)
    None,       \* Python's None
    MaxStmts,   \* bound on the number of statements
    MayFail     \* whether executing a statement may raise sqlite3.Error

\* kind is the table it inserts into ("data", "async") or "ask" for a request
\* whose outcome is fetched; ref is the DATA row it refers to.
Stmts == [n : 1..MaxStmts, kind : {"data", "async", "ask"}, waits : BOOLEAN,
          ref : 0..MaxStmts \cup {None}]

ASSUME SqlHandlerAssumption ==
    /\ IsFiniteSet(Threads) /\ Fmk \in Threads /\ Askers \subseteq Threads
    /\ None \notin Threads \cup Nat \cup Stmts
    /\ MaxStmts \in Nat /\ MayFail \in BOOLEAN

VARIABLES
    pcT,       \* where each caller is
    mine,      \* the statement each caller is submitting
    lock,      \* holder of _sync_lock, or None
    list,      \* _sql_stmt_list
    stopEvent, \* _sql_handler_stop_event
    handled,   \* _sql_stmt_handled
    outcome,   \* _sql_stmt_outcome
    enabled,   \* Database.enabled
    dataId,    \* Database._data_id
    pcH,       \* where the handler thread is
    batch,     \* statements it has taken and not executed yet
    last,      \* the last statement of that batch
    lastError, \* last_stmt_error
    table,     \* history: the statements committed, in order
    answer,    \* history: the last outcome given to each caller
    count      \* history: how many statements were created

callerVars == <<pcT, mine, lock, enabled, dataId, answer, count>>
handlerVars == <<pcH, batch, last, lastError, table>>
sharedVars == <<list, stopEvent, handled, outcome>>
vars == <<callerVars, handlerVars, sharedVars>>

CallerStates == {"out", "lock", "append", "await", "take", "record",
                 "stopLock", "join", "stopped"}
HandlerStates == {"test", "wait", "run", "publish", "announce", "gone"}

\* How many of the first i statements of q insert into table DATA.
DataUpTo(q, i) == Cardinality({j \in 1..i : q[j].kind = "data"})
\* ROWID of the last row of table DATA (AUTOINCREMENT).
Rows == DataUpTo(table, Len(table))

TypeOK ==
    /\ pcT \in [Threads -> CallerStates]
    /\ mine \in [Threads -> Stmts \cup {None}]
    /\ lock \in Threads \cup {None}
    /\ list \in Seq(Stmts) /\ batch \in Seq(Stmts) /\ table \in Seq(Stmts)
    /\ stopEvent \in BOOLEAN /\ handled \in BOOLEAN
    /\ enabled \in BOOLEAN /\ lastError \in BOOLEAN
    /\ outcome \in Stmts \cup {None}
    /\ dataId \in 0..MaxStmts \cup {None}
    /\ pcH \in HandlerStates
    /\ last \in Stmts \cup {None}
    /\ answer \in [Threads -> Stmts \cup {None}]
    /\ count \in 0..MaxStmts

\* Database.start() has returned True.
Init ==
    /\ pcT = [t \in Threads |-> "out"]
    /\ mine = [t \in Threads |-> None]
    /\ lock = None /\ list = << >> /\ stopEvent = FALSE /\ handled = FALSE
    /\ outcome = None /\ enabled = TRUE /\ dataId = None
    /\ pcH = "test" /\ batch = << >> /\ last = None /\ lastError = TRUE
    /\ table = << >> /\ answer = [t \in Threads |-> None] /\ count = 0
-----------------------------------------------------------------------------
(* The callers.                                                             *)

Goto(t, s) == pcT' = [pcT EXCEPT ![t] = s]

\* The caller builds its statement; the lock is taken later.
Prepare(t, k, waits, ref) ==
    /\ pcT[t] = "out" /\ count < MaxStmts
    /\ count' = count + 1
    /\ mine' = [mine EXCEPT ![t] = [n |-> count + 1, kind |-> k, waits |-> waits, ref |-> ref]]
    /\ Goto(t, "lock")
    /\ UNCHANGED <<lock, enabled, dataId, answer, handlerVars, sharedVars>>

\* insert_data: only the first insertion asks for its ROWID.
InsertData == enabled /\ Prepare(Fmk, "data", dataId = None, None)

\* insert_async_data: the row refers to the data sent last.
InsertAsync(t) == enabled /\ Prepare(t, "async", FALSE, dataId)

\* execute_sql_statement does not look at `enabled`; nobody calls it on a
\* database it knows to be stopped.
Ask(t) == enabled /\ t \in Askers /\ Prepare(t, "ask", TRUE, None)

Lock(t) ==
    /\ pcT[t] = "lock" /\ lock = None
    /\ lock' = t
    /\ Goto(t, "append")
    /\ UNCHANGED <<mine, enabled, dataId, answer, count, handlerVars, sharedVars>>

\* The end of the critical section.
ReleaseLock == lock' = None

\* insert_data has an id to record once the lock is released; the other
\* callers are done.
Leave(t) ==
    /\ ReleaseLock
    /\ IF mine[t].kind = "data" THEN Goto(t, "record") /\ UNCHANGED mine
       ELSE Goto(t, "out") /\ mine' = [mine EXCEPT ![t] = None]

\* The statement joins the list; a caller that wants an outcome keeps the lock.
AppendStmt(t) ==
    /\ pcT[t] = "append"
    /\ list' = Append(list, mine[t])
    /\ IF mine[t].waits THEN Goto(t, "await") /\ UNCHANGED <<mine, lock>> ELSE Leave(t)
    /\ UNCHANGED <<enabled, dataId, answer, count, handlerVars, stopEvent, handled, outcome>>

AwaitHandled(t) ==
    /\ pcT[t] = "await" /\ handled
    /\ handled' = FALSE
    /\ Goto(t, "take")
    /\ UNCHANGED <<mine, lock, enabled, dataId, answer, count, handlerVars,
                   list, stopEvent, outcome>>

ConsumeOutcome == outcome' = None

TakeOutcome(t) ==
    /\ pcT[t] = "take"
    /\ answer' = [answer EXCEPT ![t] = outcome]
    /\ ConsumeOutcome
    /\ Leave(t)
    /\ UNCHANGED <<enabled, dataId, count, handlerVars, list, stopEvent, handled>>

\* The ROWID of a DATA row just inserted: DATA has no other writer than the
\* framework thread. The variant is one too high.
RowIdOffByOne == Rows + 1
RowId == Rows

\* insert_data keeps the ROWID it was given (None if the statement failed);
\* later on it counts the row it has just asked for as inserted.
RecordId ==
    /\ pcT[Fmk] = "record"
    /\ dataId' = IF ~mine[Fmk].waits THEN dataId + 1
                 ELSE IF answer[Fmk] = None THEN None ELSE RowId
    /\ mine' = [mine EXCEPT ![Fmk] = None]
    /\ Goto(Fmk, "out")
    /\ UNCHANGED <<lock, enabled, answer, count, handlerVars, sharedVars>>

\* Database.stop(), by the framework thread.
Stop ==
    /\ pcT[Fmk] = "out"
    /\ Goto(Fmk, "stopLock")
    /\ UNCHANGED <<mine, lock, enabled, dataId, answer, count, handlerVars, sharedVars>>

StopHandler ==
    /\ pcT[Fmk] = "stopLock" /\ lock = None
    /\ lock' = Fmk
    /\ stopEvent' = TRUE
    /\ Goto(Fmk, "join")
    /\ UNCHANGED <<mine, enabled, dataId, answer, count, handlerVars, list, handled, outcome>>

Join ==
    /\ pcT[Fmk] = "join" /\ pcH = "gone"
    /\ lock' = None
    /\ enabled' = FALSE
    /\ Goto(Fmk, "stopped")
    /\ UNCHANGED <<mine, dataId, answer, count, handlerVars, sharedVars>>

Caller(t) ==
    \/ InsertAsync(t) \/ Ask(t) \/ Lock(t) \/ AppendStmt(t)
    \/ AwaitHandled(t) \/ TakeOutcome(t)
-----------------------------------------------------------------------------
(* The handler thread.                                                      *)

\* It leaves when it was asked to and the list is empty.
MayLeave == stopEvent /\ list = << >>

Test ==
    /\ pcH = "test"
    /\ pcH' = IF MayLeave THEN "gone" ELSE "wait"
    /\ UNCHANGED <<callerVars, batch, last, lastError, table, sharedVars>>

\* Condition.wait(0.001), then the whole list is taken at once.
TakeList ==
    /\ pcH = "wait"
    /\ IF list = << >>
       THEN pcH' = "test" /\ UNCHANGED <<batch, last, lastError, list>>
       ELSE /\ pcH' = "run"
            /\ batch' = list /\ last' = list[Len(list)]
            /\ list' = << >>
            /\ lastError' = TRUE
    /\ UNCHANGED <<callerVars, table, stopEvent, handled, outcome>>

\* The statements of a batch run oldest first; the variant is a stack.
NewestFirst == Len(batch)
OldestFirst == 1

\* One statement is executed and committed, or fails and is rolled back.
Run ==
    /\ pcH = "run" /\ batch # << >>
    /\ \/ table' = Append(table, batch[OldestFirst]) /\ lastError' = FALSE
       \/ MayFail /\ table' = table /\ lastError' = TRUE
    /\ batch' = RemoveAt(batch, OldestFirst)
    /\ UNCHANGED <<callerVars, pcH, last, sharedVars>>

\* The last statement of the batch asks for an outcome; the variant answers
\* only when that statement succeeded.
WantsOutcomeIfOk == last.waits /\ ~lastError
WantsOutcome == last.waits

EndBatch ==
    /\ pcH = "run" /\ batch = << >>
    /\ pcH' = IF WantsOutcome THEN "publish" ELSE "test"
    /\ UNCHANGED <<callerVars, batch, last, lastError, table, sharedVars>>

Publish ==
    /\ pcH = "publish"
    /\ outcome' = IF lastError THEN None ELSE last
    /\ pcH' = "announce"
    /\ UNCHANGED <<callerVars, batch, last, lastError, table, list, stopEvent, handled>>

Announce ==
    /\ pcH = "announce"
    /\ handled' = TRUE
    /\ pcH' = "test"
    /\ UNCHANGED <<callerVars, batch, last, lastError, table, list, stopEvent, outcome>>

Handler == Test \/ TakeList \/ Run \/ EndBatch \/ Publish \/ Announce

Next ==
    \/ Handler \/ InsertData \/ RecordId \/ Stop \/ StopHandler \/ Join
    \/ \E t \in Threads : Caller(t)

\* Every caller stays out of the database once it is stopped.
Done == pcT[Fmk] = "stopped" /\ \A t \in Threads \ {Fmk} : pcT[t] = "out"
Finished == Done /\ UNCHANGED vars

Spec == Init /\ [][Next \/ Finished]_vars

\* Threads are scheduled, and the bounded number of statements makes weak
\* fairness enough for _sync_lock; calling the database is up to the users.
Fairness ==
    /\ WF_vars(Handler)
    /\ \A t \in Threads :
         WF_vars(Lock(t)) /\ WF_vars(AppendStmt(t) \/ AwaitHandled(t) \/ TakeOutcome(t))
    /\ WF_vars(RecordId) /\ WF_vars(StopHandler) /\ WF_vars(Join)

FairSpec == Spec /\ Fairness
-----------------------------------------------------------------------------
(* Properties.                                                              *)

\* "This method is also synchronized to guarantee request order": the queue of
\* the service is what the handler has taken, then what is in the list.
Service == INSTANCE SqlService WITH
    pending <- batch \o list,
    asked <- [t \in Threads |-> IF pcT[t] \in {"await", "take"} THEN mine[t] ELSE None]

ImplementsService == Service!Spec

\* A caller that waits for an outcome while holding _sync_lock is answered,
\* also when its statement fails, even while stop() is being called.
AskIsAnswered == \A t \in Threads : pcT[t] = "await" ~> pcT[t] = "take"

\* Database.stop() gets the lock and the handler thread ends.
StopReturns == pcT[Fmk] = "stopLock" ~> pcT[Fmk] = "stopped"

\* Nobody waits for ever for the handler: see the two parts above (database.py:255-300).
CallersGoOn == AskIsAnswered /\ StopReturns

\* fmk_db.sql: CURRENT_DATA_ID INTEGER "REFERENCES DATA (ID)": when it is
\* inserted, an async row refers to a data that is in the database.
ReferencesData ==
    \A i \in 1..Len(table) : table[i].kind = "async" /\ table[i].ref # None =>
        table[i].ref \in 1..DataUpTo(table, i)

\* No statement failed so far: each one is committed or on its way.
Unsubmitted == {t \in Threads : pcT[t] \in {"lock", "append"}}
NoFailure == count = Len(table) + Len(batch) + Len(list) + Cardinality(Unsubmitted)

\* insert_data guesses the ids of the rows it does not wait for; as long as no
\* statement fails, the guess is right and the async rows refer to real data.
GuessedIdsAreRows == NoFailure => ReferencesData
=============================================================================
