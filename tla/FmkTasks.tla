------------------------------ MODULE FmkTasks ------------------------------
(***************************************************************************)
(* plumbing.py: the tasks of the framework (FmkTask, a thread each) and    *)
(* the dictionary the framework thread keeps of them (_task_list):         *)
(* _register_task and _unregister_task, called for the callbacks of a      *)
(* data, _cleanup_tasks, which takes no lock, and the one-shot tasks that  *)
(* unregister themselves when they are done. A task is named by the id of  *)
(* the Task object it runs (libs/utils.py); a Periodic data behaves the    *)
(* same without the stop_event of that object.                             *)
(***************************************************************************)
EXTENDS Naturals, FiniteSets

CONSTANTS
    Ids,       \* ids of the Task objects of the project and its scenarios
    Periodic,  \* those with a period; the others are one-shot tasks
    MaxTasks,  \* bound on the number of FmkTask objects created
    None       \* no task

Tasks == 1..MaxTasks

VARIABLES
    list,    \* _task_list: the task registered under each id, or None
    made,    \* how many FmkTask objects were created
    idOf,    \* the id each of them was created for
    lock,    \* holder of _task_list_lock among the tasks, or None
    stop,    \* FmkTask._stop (the event)
    hook,    \* the task whose event is in Task.stop_event of each object
    pcT,     \* where each task is
    pcF,     \* where the framework thread is
    seen,    \* ids its loop in _cleanup_tasks has visited
    cur,     \* the one it is at
    size     \* number of entries when that loop started

taskVars == <<stop, pcT>>
fmkVars == <<pcF, seen, cur, size>>
madeVars == <<made, idOf, hook>>
vars == <<list, lock, taskVars, fmkVars, madeVars>>

TaskStates == {"none", "ignored", "setup", "test", "func", "lock", "check", "remove",
               "ended"}
FmkStates == {"idle", "register", "next", "stop", "reset", "cleaned", "failed"}

TypeOK ==
    /\ list \in [Ids -> Tasks \cup {None}]
    /\ made \in 0..MaxTasks
    /\ idOf \in [Tasks -> Ids \cup {None}]
    /\ lock \in Tasks \cup {None}
    /\ stop \in [Tasks -> BOOLEAN]
    /\ hook \in [Ids -> Tasks \cup {None}]
    /\ pcT \in [Tasks -> TaskStates]
    /\ pcF \in FmkStates
    /\ seen \subseteq Ids /\ cur \in Ids \cup {None}
    /\ size \in 0..Cardinality(Ids)

Init ==
    /\ list = [i \in Ids |-> None]
    /\ made = 0 /\ idOf = [t \in Tasks |-> None]
    /\ lock = None
    /\ stop = [t \in Tasks |-> FALSE]
    /\ hook = [i \in Ids |-> None]
    /\ pcT = [t \in Tasks |-> "none"]
    /\ pcF = "idle" /\ seen = {} /\ cur = None /\ size = 0

Registered == {i \in Ids : list[i] # None}
Oneshot(t) == idOf[t] \notin Periodic
-----------------------------------------------------------------------------
(* The framework thread.                                                    *)

\* FmkTask.__init__ hands its event to the Task object.
Create(i) ==
    /\ pcF = "idle" /\ made < MaxTasks
    /\ made' = made + 1
    /\ idOf' = [idOf EXCEPT ![made + 1] = i]
    /\ hook' = [hook EXCEPT ![i] = made + 1]
    /\ pcF' = "register"
    /\ UNCHANGED <<list, lock, taskVars, seen, cur, size>>

\* The variant registers over a task of the same id.
FreeAlways(i) == TRUE
IdIsFree(i) == list[i] = None

\* _register_task: a task whose id is already there is ignored.
Register ==
    LET i == idOf[made] IN
    /\ pcF = "register" /\ lock = None
    /\ IF IdIsFree(i)
       THEN list' = [list EXCEPT ![i] = made] /\ pcT' = [pcT EXCEPT ![made] = "setup"]
       ELSE list' = list /\ pcT' = [pcT EXCEPT ![made] = "ignored"]
    /\ pcF' = "idle"
    /\ UNCHANGED <<lock, stop, seen, cur, size, madeVars>>

\* The task is told to stop before it is forgotten.
TellToStop(t) == stop' = [stop EXCEPT ![t] = TRUE]

Remove(i) == TellToStop(list[i]) /\ list' = [list EXCEPT ![i] = None]

\* _unregister_task from a callback, or from the cleanup of a scenario.
Unregister(i) ==
    /\ pcF = "idle" /\ lock = None
    /\ list[i] # None
    /\ Remove(i)
    /\ UNCHANGED <<lock, pcT, fmkVars, madeVars>>

\* The number of entries of the dictionary.
Entries == Cardinality(Registered)

\* _cleanup_tasks, from stop_all_tasks or _stop_fmk_plumbing.
Cleanup ==
    /\ pcF = "idle"
    /\ pcF' = "next" /\ seen' = {} /\ size' = Entries
    /\ UNCHANGED <<list, lock, taskVars, cur, madeVars>>

\* The iterator raises RuntimeError when the dictionary has changed its size.
NextFails ==
    /\ pcF = "next" /\ Entries # size
    /\ pcF' = "failed"
    /\ UNCHANGED <<list, lock, taskVars, seen, cur, size, madeVars>>

NextId(i) ==
    /\ pcF = "next" /\ Entries = size
    /\ i \in Registered \ seen
    /\ pcF' = "stop" /\ seen' = seen \cup {i} /\ cur' = i
    /\ UNCHANGED <<list, lock, taskVars, size, madeVars>>

NoMoreId ==
    /\ pcF = "next" /\ Entries = size /\ Registered \subseteq seen
    /\ pcF' = "reset"
    /\ UNCHANGED <<list, lock, taskVars, seen, cur, size, madeVars>>

\* self._task_list[id].stop(), or KeyError if the task has just removed itself.
StopTask(t) == stop' = [stop EXCEPT ![t] = TRUE]

StopCurrent ==
    /\ pcF = "stop"
    /\ IF list[cur] = None THEN pcF' = "failed" /\ UNCHANGED stop
                           ELSE pcF' = "next" /\ StopTask(list[cur])
    /\ UNCHANGED <<list, lock, pcT, seen, cur, size, madeVars>>

Reset ==
    /\ pcF = "reset"
    /\ list' = [i \in Ids |-> None]
    /\ pcF' = "cleaned"
    /\ UNCHANGED <<lock, taskVars, seen, cur, size, madeVars>>

\* The exception goes up to the shell, which is ready for the next command.
Return ==
    /\ pcF \in {"cleaned", "failed"}
    /\ pcF' = "idle" /\ seen' = {} /\ cur' = None /\ size' = 0
    /\ UNCHANGED <<list, lock, taskVars, madeVars>>

Fmk ==
    \/ Register \/ Cleanup \/ NextFails \/ NoMoreId \/ StopCurrent \/ Reset \/ Return
    \/ \E i \in Ids : Create(i) \/ Unregister(i) \/ NextId(i)
-----------------------------------------------------------------------------
(* The thread of a task: FmkTask.run.                                       *)

Goto(t, s) == pcT' = [pcT EXCEPT ![t] = s]

\* Task._setup, user code; an exception ends the thread.
Setup(t) ==
    /\ pcT[t] = "setup"
    /\ \/ Goto(t, "test")
       \/ Goto(t, "ended")
    /\ UNCHANGED <<list, lock, stop, fmkVars, madeVars>>

\* while not self._stop.is_set(); the variant looks at it once.
StopIgnored(t) == FALSE
StopAsked(t) == stop[t]

Test(t) ==
    /\ pcT[t] = "test"
    /\ Goto(t, IF StopAsked(t) THEN "ended" ELSE "func")
    /\ UNCHANGED <<list, lock, stop, fmkVars, madeVars>>

\* The user function returns: a periodic task waits for its next turn, a
\* one-shot task calls its cleanup function, _unregister_task.
FuncReturns(t) ==
    /\ pcT[t] = "func"
    /\ Goto(t, IF Oneshot(t) THEN "lock" ELSE "test")
    /\ UNCHANGED <<list, lock, stop, fmkVars, madeVars>>

\* It raises (DataProcessTermination or anything): the task ends, registered.
FuncRaises(t) ==
    /\ pcT[t] = "func"
    /\ Goto(t, "ended")
    /\ UNCHANGED <<list, lock, stop, fmkVars, madeVars>>

Lock(t) ==
    /\ pcT[t] = "lock" /\ lock = None
    /\ lock' = t
    /\ Goto(t, "check")
    /\ UNCHANGED <<list, stop, fmkVars, madeVars>>

\* Not in the list any more: an error message.
Check(t) ==
    /\ pcT[t] = "check"
    /\ IF list[idOf[t]] = None THEN Goto(t, "ended") /\ lock' = None
                               ELSE Goto(t, "remove") /\ UNCHANGED lock
    /\ UNCHANGED <<list, stop, fmkVars, madeVars>>

\* Whatever task has its id now is told to stop and removed; KeyError in the
\* thread that ends anyway if _cleanup_tasks has just replaced the list.
RemoveSelf(t) ==
    /\ pcT[t] = "remove"
    /\ IF list[idOf[t]] = None THEN UNCHANGED <<list, stop>> ELSE Remove(idOf[t])
    /\ lock' = None
    /\ Goto(t, "ended")
    /\ UNCHANGED <<fmkVars, madeVars>>

TaskCode(t) ==
    \/ Setup(t) \/ Test(t) \/ FuncReturns(t) \/ FuncRaises(t)
    \/ Lock(t) \/ Check(t) \/ RemoveSelf(t)

Next == Fmk \/ \E t \in Tasks : TaskCode(t)
Spec == Init /\ [][Next]_vars

\* Threads are scheduled and the functions of the tasks return; what the
\* framework thread does next is up to the user.
Fairness ==
    /\ \A t \in Tasks : WF_vars(TaskCode(t))
    /\ WF_vars(Fmk /\ pcF # "idle")

FairSpec == Spec /\ Fairness
-----------------------------------------------------------------------------
(* Properties.                                                              *)

Running(t) == pcT[t] \in {"setup", "test", "func"}

\* A task that runs and was not told to stop can be found in _task_list under
\* its id: nothing the callbacks, the tasks themselves and a cleanup that takes
\* no lock do together leaves a thread that nobody can stop any more.
NoOrphan == \A t \in Tasks : Running(t) /\ ~stop[t] => list[idOf[t]] = t

\* _cleanup_tasks forgets no task that it has not told to stop.
CleanupStops == pcF \in {"reset", "cleaned"} => \A t \in Tasks : Running(t) => stop[t]

\* A periodic task told to stop ends, and a one-shot task ends.
StoppedTaskEnds ==
    \A t \in Tasks : stop[t] \/ (pcT[t] = "setup" /\ Oneshot(t)) ~> pcT[t] \in {"ended", "ignored"}
=============================================================================
