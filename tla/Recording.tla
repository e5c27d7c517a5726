----------------------------- MODULE Recording -----------------------------
(***************************************************************************)
(* logger.py, database.py, plumbing.py: what is recorded about a round and *)
(* to which row of the table DATA it is attached. The rows get their ids   *)
(* when _log_data commits them, after the sending; before that, the        *)
(* targets work with estimated ids, and threads of the targets and of the  *)
(* user collect feedback and send data of their own (async data) at any    *)
(* moment. An operator may decide that a data is not recorded, a sending   *)
(* may fail, and the project may be stopped and launched again.            *)
(* Insertions succeed here (SqlHandler deals with those that do not).      *)
(***************************************************************************)
EXTENDS Naturals, Sequences, FiniteSets, SequencesExt, FiniteSetsExt

CONSTANTS
    Targets,
    Lists,                        \* the lists of data a round may send: a data is
                                  \* the set of targets it is for
    Burst,                        \* data sent before the feedback is retrieved
    MaxData, MaxFbk, MaxAsync     \* bounds

None == 0

ASSUME RecordingAssumption ==
    /\ IsFiniteSet(Targets) /\ Targets # {} /\ Targets \cap {"any", "fmk"} = {}
    /\ Lists \subseteq Seq((SUBSET Targets) \ {{}})
    /\ <<>> \notin Lists
    /\ Burst \in Nat \ {0}
    /\ {MaxData, MaxFbk, MaxAsync} \subseteq Nat

VARIABLES
    explicit,     \* explicit_data_recording of the logger
    pc, mode,     \* where the framework thread is, and in which loop
    countdown,    \* _burst_countdown
    list,         \* data of the round that remain to be logged
    todo,         \* targets that remain to be sent their data
    failed,       \* _sending_error
    keep,         \* the data of the round are recordable
    nextId,       \* FmkPlumbing.next_data_id
    est,          \* the estimated_data_id each target was given in this round
    pendingId,    \* Target._pending_data_id
    rows,         \* table DATA; _data_id is its length
    lastIds,      \* Logger._last_data_IDs
    recordable,   \* Logger.last_data_recordable
    lgFbk,        \* Logger._tg_fbk
    lastFbk,      \* Database.last_feedback
    fbkRows,      \* the rows that were added last to the table FEEDBACK
    asyncRows,    \* table ASYNC_DATA
    made,         \* history: data of the framework so far; the last is data number made
    last,         \* history: number of the last data each target took
    missing,      \* history: data that a failed sending left without a row
    unrecorded,   \* history: data that the operator chose not to record
    drift         \* history: the estimated ids have lost count

round == <<pc, mode, list, todo, failed, keep, est>>
ids == <<nextId, pendingId, rows, lastIds, recordable>>
fbks == <<lgFbk, lastFbk, fbkRows>>
history == <<made, last, missing, unrecorded, drift>>
vars == <<explicit, round, countdown, ids, fbks, asyncRows, history>>

Data == 0..MaxData

\* Who a row of feedback comes from: a probe about a target, anything else, or the
\* framework itself.
Sources == Targets \cup {"any", "fmk"}

TypeOK ==
    /\ explicit \in BOOLEAN /\ failed \in BOOLEAN /\ keep \in BOOLEAN /\ drift \in BOOLEAN
    /\ pc \in {"idle", "prepared", "sending", "waiting", "sent", "logged", "callbacks", "stopping"}
    /\ mode \in {"shell", "operator"} /\ countdown \in 1..Burst
    /\ list \in Seq(SUBSET Targets) /\ todo \subseteq Targets
    /\ nextId \in Nat /\ est \in [Targets -> Nat] /\ pendingId \in [Targets -> Nat]
    /\ rows \in Seq([data : Data, tg : Targets])
    /\ lastIds \in [Targets -> Nat] /\ recordable \in BOOLEAN
    /\ lgFbk \in Seq(Data) /\ lastFbk \subseteq Data
    /\ fbkRows \subseteq [id : Nat, born : Data, over : Data, tg : Sources]
    /\ asyncRows \subseteq [id : Nat, data : Data, guessed : BOOLEAN, drift : BOOLEAN]
    /\ made \in Data /\ last \in [Targets -> Data] /\ missing \cup unrecorded \subseteq Data

Nothing == [t \in Targets |-> 0]

Init ==
    /\ explicit \in BOOLEAN
    /\ pc = "idle" /\ mode = "shell" /\ list = <<>> /\ todo = {} /\ failed = FALSE
    /\ keep = TRUE /\ est = Nothing /\ countdown = Burst
    /\ nextId = None /\ pendingId = Nothing /\ rows = <<>>
    /\ lastIds = Nothing /\ recordable = FALSE
    /\ lgFbk = <<>> /\ lastFbk = {} /\ fbkRows = {} /\ asyncRows = {}
    /\ made = 0 /\ last = Nothing /\ missing = {} /\ unrecorded = {}
    /\ drift = FALSE
-----------------------------------------------------------------------------
(* The logger and the database.                                             *)

ShallRecord == recordable \/ ~explicit

\* _log_feedback: the last row of the target a probe is about, otherwise the last row
\* of all. The variant takes the last one for probes too.
LastRow == Max({lastIds[t] : t \in Targets})

LastForAll(tg) == LastRow
RowFor(tg) == IF tg \in {"any", "fmk"} THEN LastRow ELSE lastIds[tg]

\* Number of the last data that was logged or given up.
Over == made - Len(list)

\* insert_feedback for each of the entries, which were caused by the data `born`.
Record(entries) ==
    IF ShallRecord /\ entries # {}
    THEN /\ lastFbk' = lastFbk \cup {made}
         /\ fbkRows' = {[id |-> RowFor(e.tg), born |-> e.born, over |-> Over, tg |-> e.tg] : e \in entries}
    ELSE lastFbk' = lastFbk /\ fbkRows' = {}

Entry(born, tg) == [born |-> born, tg |-> tg]
Collected == {Entry(lgFbk[i], "any") : i \in DOMAIN lgFbk}

\* What the probes started for some of the targets say (monitor_probes).
OfProbes(S) == {Entry(last[t], t) : t \in S}

\* wait_for_target_readiness: nothing, or that a target was not ready in time.
Timeouts == {{}, {Entry(made, "fmk")}}

\* log_collected_feedback: the list of the logger is replaced under its lock.
Retrieve(S, late) == Record(Collected \cup OfProbes(S) \cup late) /\ lgFbk' = <<>>

\* Feedback gates show the callbacks the feedback of the last sending only. The
\* variant forgets to flush.
KeepFeedback == lastFbk' = lastFbk
FlushFeedback == lastFbk' = {}

AtBoundary == countdown = Burst
\* _delay_sending
Countdown == countdown' = IF countdown = 1 THEN Burst ELSE countdown - 1
-----------------------------------------------------------------------------
(* A round.                                                                 *)

\* Residual feedback before the first data of a burst, and a wait for the targets that
\* gave some; then the delay, which operators have at the end of the round.
Begin(m, l) ==
    /\ pc = "idle" /\ made + Len(l) <= MaxData
    /\ \E S \in SUBSET Targets, late \in Timeouts :
         IF AtBoundary THEN Retrieve(S, late)
         ELSE S \cup late = {} /\ fbkRows' = {} /\ UNCHANGED <<lgFbk, lastFbk>>
    /\ IF m = "shell" THEN Countdown ELSE UNCHANGED countdown
    /\ pc' = "prepared" /\ mode' = m /\ list' = l
    /\ UNCHANGED <<explicit, todo, failed, keep, est, ids, asyncRows, history>>

\* get_next_data_id: the first data of all has no estimated id.
NextDataId ==
    IF nextId # None THEN nextId + 1 ELSE IF rows = <<>> THEN None ELSE Len(rows) + 1

IdOf(i) == IF NextDataId = None THEN None ELSE NextDataId + i - 1
LastFor(t) == Max({i \in DOMAIN list : t \in list[i]})

\* Each data is added to the pending data of its targets, which remember the last one.
GiveIds ==
    /\ pc = "prepared"
    /\ nextId' = IdOf(Len(list))
    /\ todo' = UNION ToSet(list)
    /\ est' = [t \in Targets |-> IF t \in todo' THEN IdOf(LastFor(t)) ELSE None]
    /\ made' = made + Len(list)
    /\ drift' = (drift \/ \E i \in 1..Len(list) - 1 : Cardinality(list[i]) > 1)
    /\ failed' = FALSE /\ pc' = "sending" /\ fbkRows' = {}
    /\ UNCHANGED <<explicit, mode, list, keep, countdown, pendingId, rows, lastIds, recordable, lgFbk,
                   lastFbk, asyncRows, last, missing, unrecorded>>

NumberFor(t) == Over + LastFor(t)

\* send_pending_data, under the lock of the target.
Sent(t) ==
    /\ pc = "sending" /\ t \in todo
    /\ todo' = todo \ {t}
    /\ pendingId' = [pendingId EXCEPT ![t] = est[t]]
    /\ last' = [last EXCEPT ![t] = NumberFor(t)]
    /\ UNCHANGED <<explicit, pc, mode, list, failed, keep, est, countdown, nextId, rows, lastIds,
                   recordable, fbks, asyncRows, made, missing, unrecorded, drift>>

\* A target that is not ready drops its data with a message only.
NotReady(t) ==
    /\ pc = "sending" /\ t \in todo
    /\ todo' = todo \ {t}
    /\ UNCHANGED <<explicit, pc, mode, list, failed, keep, est, countdown, ids, fbks, asyncRows, history>>

\* TargetStuck is recorded as feedback of the framework, before the data has a row.
Stuck(t) ==
    /\ pc = "sending" /\ t \in todo
    /\ todo' = todo \ {t} /\ failed' = TRUE
    /\ Record({Entry(NumberFor(t), "fmk")})
    /\ UNCHANGED <<explicit, pc, mode, list, keep, est, countdown, ids, lgFbk, asyncRows, history>>

Current == Over + 1..made

\* A sending error ends the round before anything is logged; otherwise the feedback of
\* the last round is obsolete, and an operator decides whether the data are recorded. The
\* shell waits for the targets before it logs the data, operators afterwards.
SendingFailed ==
    /\ pc = "sending" /\ todo = {} /\ failed
    /\ pc' = "idle" /\ mode' = "shell" /\ list' = <<>> /\ est' = Nothing
    /\ missing' = missing \cup Current /\ drift' = TRUE
    /\ UNCHANGED <<explicit, todo, failed, keep, countdown, ids, fbks, asyncRows, made, last, unrecorded>>

SendingDone ==
    /\ pc = "sending" /\ todo = {} /\ ~failed
    /\ FlushFeedback
    /\ keep' \in IF mode = "operator" THEN BOOLEAN ELSE {TRUE}
    /\ pc' = IF mode = "shell" THEN "waiting" ELSE "sent"
    /\ est' = Nothing
    /\ UNCHANGED <<explicit, mode, list, todo, failed, countdown, ids, lgFbk, fbkRows, asyncRows, history>>

\* wait_for_target_readiness: a target that is not ready in time is noted as feedback of
\* the framework, at once.
Wait ==
    /\ pc = "waiting"
    /\ \E late \in Timeouts : Record(late)
    /\ pc' = IF mode = "shell" THEN "sent" ELSE "logged"
    /\ UNCHANGED <<explicit, mode, list, todo, failed, keep, est, countdown, ids, lgFbk, asyncRows,
                   history>>
-----------------------------------------------------------------------------
(* Logging.                                                                 *)

Recorded == keep \/ ~explicit

\* commit_data_table_entry: a row per target.
NoteRows(first, order) ==
    lastIds' = [t \in Targets |->
                  IF t \in ToSet(order) THEN first + (CHOOSE i \in DOMAIN order : order[i] = t) - 1
                  ELSE lastIds[t]]

\* log_data and, for a data that is recorded, commit_data_table_entry.
LogData ==
    /\ pc = "sent"
    /\ LET order == SetToSeq(Head(list))
           number == Over + 1
       IN
       /\ IF Recorded
          THEN /\ rows' = rows \o [i \in DOMAIN order |-> [data |-> number, tg |-> order[i]]]
               /\ NoteRows(Len(rows) + 1, order)
               /\ drift' = (drift \/ Len(order) > 1)
          ELSE UNCHANGED <<rows, lastIds>> /\ drift' = TRUE
       /\ unrecorded' = IF Recorded THEN unrecorded ELSE unrecorded \cup {number}
    /\ recordable' = keep
    /\ list' = Tail(list)
    /\ pc' = IF Len(list) > 1 THEN "sent" ELSE IF mode = "shell" THEN "logged" ELSE "waiting"
    /\ UNCHANGED <<explicit, mode, todo, failed, keep, est, countdown, nextId, pendingId, fbks,
                   asyncRows, made, last, missing>>

\* retrieve_and_log_target_feedback and monitor_probes, at the end of a burst.
RetrieveFeedback ==
    /\ pc = "logged"
    /\ \E S \in SUBSET Targets :
         IF AtBoundary THEN Retrieve(S, {}) ELSE S = {} /\ fbkRows' = {} /\ UNCHANGED <<lgFbk, lastFbk>>
    /\ pc' = "callbacks"
    /\ UNCHANGED <<explicit, mode, list, todo, failed, keep, est, countdown, ids, asyncRows, history>>

\* The callbacks after_fbk and final have looked at the feedback.
EndRound ==
    /\ pc = "callbacks"
    /\ IF mode = "operator" THEN Countdown ELSE UNCHANGED countdown
    /\ lastFbk' = {}
    /\ pc' = "idle" /\ fbkRows' = {}
    /\ mode' = "shell" /\ keep' = TRUE
    /\ UNCHANGED <<explicit, list, todo, failed, est, ids, lgFbk, asyncRows, history>>

\* The operator has feedback of its own about the round (log_operator_feedback).
OperatorFeedback ==
    /\ pc = "callbacks" /\ mode = "operator"
    /\ IF ShallRecord
       THEN /\ lastFbk' = {made}
            /\ fbkRows' = {[id |-> LastRow, born |-> made, over |-> Over, tg |-> "any"]}
       ELSE lastFbk' = {} /\ fbkRows' = {}
    /\ Countdown
    /\ pc' = "idle"
    /\ mode' = "shell" /\ keep' = TRUE
    /\ UNCHANGED <<explicit, list, todo, failed, est, ids, lgFbk, asyncRows, history>>
-----------------------------------------------------------------------------
(* The project is stopped and launched again.                               *)

Stop ==
    /\ pc = "idle"
    /\ Record(Collected) /\ lgFbk' = <<>>
    /\ pc' = "stopping"
    /\ UNCHANGED <<explicit, mode, list, todo, failed, keep, est, countdown, ids, asyncRows, history>>

\* Target._stop, Logger.stop and Logger.start; next_data_id and the database stay.
Relaunch ==
    /\ pc = "stopping"
    /\ pendingId' = Nothing /\ last' = Nothing /\ lastIds' = Nothing /\ recordable' = FALSE
    /\ lgFbk' = <<>> /\ lastFbk' = {} /\ fbkRows' = {} /\ countdown' = Burst
    /\ pc' = "idle"
    /\ UNCHANGED <<explicit, mode, list, todo, failed, keep, est, nextId, rows, asyncRows,
                   made, missing, unrecorded, drift>>
-----------------------------------------------------------------------------
(* Other threads.                                                           *)

\* Logger.collect_feedback, from a thread of the target.
Collect(t) ==
    /\ Len(lgFbk) < MaxFbk
    /\ lgFbk' = Append(lgFbk, last[t])
    /\ UNCHANGED <<explicit, round, countdown, ids, lastFbk, fbkRows, asyncRows, history>>

\* send_data_sync by user code, under the lock of the target: log_async_data and
\* insert_async_data (the data sent too long after the last one refer to no row).
SendAsync(t) ==
    /\ Cardinality(asyncRows) < MaxAsync
    /\ asyncRows' = asyncRows \cup
         {[id |-> IF pendingId[t] = None THEN Len(rows) ELSE pendingId[t],
           data |-> last[t], guessed |-> pendingId[t] # None, drift |-> drift]}
    /\ UNCHANGED <<explicit, round, countdown, ids, fbks, history>>

Next ==
    \/ \E m \in {"shell", "operator"}, l \in Lists : Begin(m, l)
    \/ GiveIds \/ SendingFailed \/ SendingDone \/ Wait \/ LogData \/ RetrieveFeedback \/ EndRound
    \/ OperatorFeedback \/ Stop \/ Relaunch
    \/ \E t \in Targets : Sent(t) \/ NotReady(t) \/ Stuck(t) \/ Collect(t) \/ SendAsync(t)

Spec == Init /\ [][Next]_vars
-----------------------------------------------------------------------------
(* Properties.                                                              *)

\* What a probe says about a target is attached to a data recorded for that target,
\* and feedback on a data that is logged or given up is not attached to an older one, unless
\* a failed sending left that one without a row, or a probe speaks of a target whose last
\* data the operator chose not to record.
AnswersRight(r) ==
    /\ r.tg \in {"any", "fmk", rows[r.id].tg}
    /\ \/ rows[r.id].data >= r.born
       \/ r.born \in missing
       \/ r.tg \in Targets /\ r.born \in unrecorded

\* What the framework remarks while a data is being sent, or while the shell waits for
\* its targets, comes before that data has a row: it is attached to the last row there
\* is, that of the data before, and never to anything older.
RemarksRight(r) ==
    /\ r.tg = "fmk" /\ rows[r.id].data <= r.over
    /\ \A i \in DOMAIN rows : i > r.id => rows[i].data > r.over

FeedbackRowRight ==
    \A r \in fbkRows :
        r.id # None => IF r.born <= r.over THEN AnswersRight(r) ELSE RemarksRight(r)

\* An async data refers to the data its target was sent last, or will when that one is
\* logged, as long as every data before was recorded and was for one target.
AsyncRowRight ==
    \A r \in asyncRows : r.guessed /\ ~r.drift /\ r.data \notin missing \cup unrecorded =>
        IF r.id \in DOMAIN rows THEN rows[r.id].data = r.data
        ELSE r.data \in Current

\* What is recorded is attached to the right row: see the parts above
\* (logger.py:476-500, plumbing.py:2471-2478, 2540-2582, 2858-2870).
RowsAreRight == FeedbackRowRight /\ AsyncRowRight

\* Callbacks see the feedback recorded since their data were sent, and nothing older.
CallbacksSeeFresh == pc \in {"waiting", "sent", "logged", "callbacks"} => lastFbk \subseteq {made}
=============================================================================
