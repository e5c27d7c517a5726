----------------------------- MODULE SqlService -----------------------------
(***************************************************************************)
(* What Database.submit_sql_stmt promises its callers (database.py): the   *)
(* statements of all threads are executed one at a time, in the order they *)
(* were submitted, each committed or rolled back as a whole, and a caller  *)
(* that asks for the outcome gets the outcome of its own statement, after  *)
(* it was executed.                                                        *)
(***************************************************************************)
EXTENDS Naturals, Sequences

CONSTANTS
    Threads,   \* the threads that submit statements
    Stmts,     \* the statements they may submit
    None       \* no statement, and the outcome of one that failed

VARIABLES
    pending,   \* submitted statements not executed yet, oldest first
    table,     \* statements committed to the database, oldest first
    asked,     \* the statement whose outcome each thread waits for
    answer     \* the last outcome each thread was given

vars == <<pending, table, asked, answer>>

Init ==
    /\ pending = << >> /\ table = << >>
    /\ asked = [t \in Threads |-> None]
    /\ answer = [t \in Threads |-> None]

Submit(t, s, waits) ==
    /\ asked[t] = None
    /\ pending' = Append(pending, s)
    /\ asked' = IF waits THEN [asked EXCEPT ![t] = s] ELSE asked
    /\ UNCHANGED <<table, answer>>

\* The oldest statement is committed, or fails and is rolled back.
Execute ==
    /\ pending # << >>
    /\ pending' = Tail(pending)
    /\ table' \in {table, Append(table, Head(pending))}
    /\ UNCHANGED <<asked, answer>>

IsIn(s, q) == \E i \in 1..Len(q) : q[i] = s

Answer(t) ==
    /\ asked[t] # None /\ ~IsIn(asked[t], pending)
    /\ answer' = [answer EXCEPT ![t] = IF IsIn(asked[t], table) THEN asked[t] ELSE None]
    /\ asked' = [asked EXCEPT ![t] = None]
    /\ UNCHANGED <<pending, table>>

Next ==
    \/ Execute
    \/ \E t \in Threads :
         \/ Answer(t)
         \/ \E s \in Stmts, waits \in BOOLEAN : Submit(t, s, waits)

Spec == Init /\ [][Next]_vars
=============================================================================
