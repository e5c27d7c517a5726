---------------------------- MODULE FmkTaskPool ----------------------------
(***************************************************************************)
(* The tasks of the framework (FmkTasks) as an instance, with names that   *)
(* do not clash with those of the launch of a project (FmkLaunch), whose   *)
(* _cleanup_tasks is one step there: the two sides of plumbing.py can then *)
(* be reasoned about together.                                             *)
(***************************************************************************)
EXTENDS Naturals, FiniteSets

CONSTANTS TaskIds, Periodic, MaxTasks, NoTask    \* see FmkTasks
VARIABLES list, made, idOf, lock, stop, hook, pcT, pcF, seen, cur, size

ASSUME TaskPoolAssumption ==
    /\ Periodic \subseteq TaskIds /\ IsFiniteSet(TaskIds)
    /\ MaxTasks \in Nat /\ NoTask \notin Nat

Pool == INSTANCE FmkTasks WITH Ids <- TaskIds, None <- NoTask

PoolSpec == Pool!FairSpec
-----------------------------------------------------------------------------
\* A task that runs and was not told to stop can be found in _task_list under
\* its id: nothing the callbacks, the tasks themselves and a cleanup that takes
\* no lock do together leaves a thread that nobody can stop any more
\* (plumbing.py, _register_task, _unregister_task and _cleanup_tasks).
NoOrphan == Pool!NoOrphan

\* A periodic task told to stop ends, and a one-shot task ends (plumbing.py,
\* FmkTask.run).
StoppedTaskEnds == Pool!StoppedTaskEnds
=============================================================================
