----------------------------- MODULE ProbeLives -----------------------------
(***************************************************************************)
(* The lives of one probe (ProbeLifecycle) as an instance, with names that *)
(* do not clash with those of the rendezvous (ProbeSync), where the same   *)
(* probe thread is inside "main": the two sides of monitor.py can then be  *)
(* reasoned about together.                                                *)
(***************************************************************************)
EXTENDS Naturals

CONSTANTS MaxStarts, HangingThreads    \* see ProbeLifecycle
VARIABLES made, cur, pcT, pcM, started, startedEvt, stopEvt, owes, late, torn, spoilt, overlap

ASSUME LifeAssumption == MaxStarts \in Nat /\ HangingThreads \subseteq 1..MaxStarts

\* pcM is where the main thread of the framework is.
Life == INSTANCE ProbeLifecycle WITH Hanging <- HangingThreads, pcF <- pcM

LifeSpec == Life!FairSpec
-----------------------------------------------------------------------------
\* Probe._started: as long as the user's start() was not followed by a stop(),
\* the flag lets a later Probe._stop call it, whatever crashed in between and
\* although two threads test and reset the flag without a lock (monitor.py,
\* Probe._start and Probe._stop), except in the race that torn and overlap name.
OwedStopIsPossible == Life!OwedStopIsPossible

\* The probe of a thread that works is marked as started (monitor.py, Probe._start and
\* ProbeUser.start), unless a thread of an earlier life has just unmarked it.
WorkingIsStarted == Life!WorkingIsStarted

\* A thread that was told to stop ends once its user code returns, unless the probe is
\* started again meanwhile (monitor.py, ProbeUser.start, stop and _run).
StoppedEnds == Life!StoppedEnds
=============================================================================
