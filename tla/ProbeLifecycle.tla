--------------------------- MODULE ProbeLifecycle ---------------------------
(***************************************************************************)
(* monitor.py: one probe over its lives. The framework thread starts it    *)
(* (Monitor.start_probe), waits for its initialisation, and stops it       *)
(* (stop_probe, stop_all_probes or a timeout); each start() makes a thread *)
(* (ProbeUser._run). Both sides run Probe._stop, around the flag           *)
(* Probe._started, and stop() forgets the thread without waiting for it:   *)
(* the probe may be started again while its last thread still runs.        *)
(*                                                                         *)
(* What a started probe does between two looks at its stop event (main()   *)
(* and the waits, or the rendezvous of ProbeSync) is the state "main".     *)
(***************************************************************************)
EXTENDS Naturals

CONSTANTS
    MaxStarts,  \* bound on the number of threads made
    Hanging     \* threads whose user code may never return

Threads == 1..MaxStarts

VARIABLES
    made,       \* how many threads were made
    cur,        \* ProbeUser._thread, 0 for None
    pcT,        \* where each thread is
    pcF,        \* where the framework thread is
    started,    \* Probe._started
    startedEvt, \* _started_event
    stopEvt,    \* _stop_event
    owes,       \* history: the user's start() was called, and stop() not since
    late,       \* history: who was about to reset the mark when it was last set, and is still
    torn,       \* history: one of them reset it since
    spoilt,     \* history: since its last start, a thread of an earlier life reset the mark
    overlap     \* history: the probe was started while an earlier thread was running

events == <<startedEvt, stopEvt>>
races == <<late, torn, spoilt, overlap>>
vars == <<made, cur, pcT, pcF, started, events, owes, races>>

Framework == 0    \* beside the threads

ThreadStates == {"none", "enter", "mark", "start", "notify", "loop", "main",
                 "stopTest", "stopCall", "stopReset", "ended", "dead"}
FmkStates == {"idle", "waitInit", "stopTest", "stopCall", "stopReset", "forget", "closed"}

TypeOK ==
    /\ made \in 0..MaxStarts /\ cur \in {0, made}
    /\ pcT \in [Threads -> ThreadStates]
    /\ pcF \in FmkStates
    /\ started \in BOOLEAN /\ startedEvt \in BOOLEAN /\ stopEvt \in BOOLEAN
    /\ owes \in BOOLEAN
    /\ late \subseteq Threads \cup {Framework} /\ {torn, spoilt, overlap} \subseteq BOOLEAN

\* Monitor.add_probe
Init ==
    /\ made = 0 /\ cur = 0
    /\ pcT = [t \in Threads |-> "none"]
    /\ pcF = "idle"
    /\ started = FALSE /\ startedEvt = FALSE /\ stopEvt = FALSE
    /\ owes = FALSE
    /\ late = {} /\ torn = FALSE /\ spoilt = FALSE /\ overlap = FALSE

Gone(t) == pcT[t] \in {"none", "ended", "dead"}

\* ProbeUser.is_alive
IsAlive == cur # 0 /\ ~Gone(cur)
-----------------------------------------------------------------------------
(* The framework thread.                                                    *)

\* The thread ProbeUser.start keeps.
NewThread == made + 1

\* ProbeUser.start clears the events and makes a thread.
StartProbe ==
    /\ pcF = "idle" /\ ~IsAlive
    /\ made < MaxStarts
    /\ startedEvt' = FALSE /\ stopEvt' = FALSE
    /\ made' = made + 1 /\ cur' = NewThread
    /\ pcT' = [pcT EXCEPT ![made + 1] = "enter"]
    /\ pcF' = "waitInit"
    /\ spoilt' = FALSE /\ overlap' = (overlap \/ \E t \in Threads : ~Gone(t))
    /\ UNCHANGED <<started, owes, late, torn>>

\* RuntimeError, caught by start_probe; launch_probe waits all the same.
StartRefused ==
    /\ pcF = "idle" /\ IsAlive
    /\ pcF' = "waitInit"
    /\ UNCHANGED <<made, cur, pcT, started, events, owes, races>>

\* wait_for_probe_init: initialised, gone, or told to stop.
InitSeen ==
    /\ pcF = "waitInit"
    /\ startedEvt \/ ~IsAlive \/ stopEvt
    /\ pcF' = "idle"
    /\ UNCHANGED <<made, cur, pcT, started, events, owes, races>>

\* The first line of ProbeUser.stop.
BeginStop == stopEvt' = TRUE /\ pcF' = "stopTest"

\* The user's start() lasts too long.
InitTimeout ==
    /\ pcF = "waitInit" /\ ~startedEvt /\ IsAlive
    /\ pcT[cur] = "start"
    /\ BeginStop
    /\ UNCHANGED <<made, cur, pcT, started, startedEvt, owes, races>>

\* Monitor.stop_probe does not ask whether the probe is alive, ...
StopProbe ==
    /\ pcF = "idle"
    /\ BeginStop
    /\ UNCHANGED <<made, cur, pcT, started, startedEvt, owes, races>>

\* ... and stop_all_probes does: a probe whose thread crashed is left alone.
StopAllProbes ==
    /\ pcF = "idle"
    /\ IF IsAlive THEN BeginStop ELSE pcF' = "closed" /\ UNCHANGED stopEvt
    /\ UNCHANGED <<made, cur, pcT, started, startedEvt, owes, races>>

\* The last step of Probe._stop.
Reset(who) ==
    /\ started' = FALSE
    /\ torn' = (torn \/ who \in late) /\ late' = late \ {who}
    /\ UNCHANGED overlap

\* Probe._stop, on behalf of ProbeUser.stop: test, the user's stop(), reset.
FmkStopTest ==
    /\ pcF = "stopTest"
    /\ pcF' = IF started THEN "stopCall" ELSE "forget"
    /\ UNCHANGED <<made, cur, pcT, started, events, owes, races>>

FmkStopCall ==
    /\ pcF = "stopCall"
    /\ owes' = FALSE
    /\ pcF' \in {"stopReset", "forget"}     \* it returns, or raises
    /\ UNCHANGED <<made, cur, pcT, started, events, races>>

FmkStopReset ==
    /\ pcF = "stopReset"
    /\ Reset(Framework)
    /\ pcF' = "forget"
    /\ UNCHANGED <<made, cur, pcT, events, owes, spoilt>>

\* The finally clause. join() has no thread left to wait for.
Forget ==
    /\ pcF = "forget"
    /\ cur' = 0
    /\ pcF' = "closed"
    /\ UNCHANGED <<made, pcT, started, events, owes, races>>

Return ==
    /\ pcF = "closed"
    /\ pcF' = "idle"
    /\ UNCHANGED <<made, cur, pcT, started, events, owes, races>>

Fmk ==
    \/ StartProbe \/ StartRefused \/ InitSeen \/ InitTimeout
    \/ StopProbe \/ StopAllProbes
    \/ FmkStopTest \/ FmkStopCall \/ FmkStopReset \/ Forget \/ Return
-----------------------------------------------------------------------------
(* A thread of the probe: ProbeUser._run, BlockingProbeUser._run.           *)

Goto(t, s) == pcT' = [pcT EXCEPT ![t] = s]

\* Probe._start does nothing for a probe that is marked as started.
Enter(t) ==
    /\ pcT[t] = "enter"
    /\ Goto(t, IF started THEN "notify" ELSE "mark")
    /\ UNCHANGED <<made, cur, pcF, started, events, owes, races>>

\* Who has called the user's stop() and is about to reset the mark.
Resetting ==
    {t \in Threads : pcT[t] = "stopReset"} \cup IF pcF = "stopReset" THEN {Framework} ELSE {}

\* "even if .start() fail, .stop() should be called": the probe is marked
\* before its start() is called. The variant marks it afterwards.
MarkAfterwards == UNCHANGED started
MarkFirst == started' = TRUE

Mark(t) ==
    /\ pcT[t] = "mark"
    /\ MarkFirst
    /\ owes' = TRUE /\ late' = Resetting /\ torn' = FALSE
    /\ Goto(t, "start")
    /\ UNCHANGED <<made, cur, pcF, events, spoilt, overlap>>

Notify(t) ==
    /\ pcT[t] = "notify"
    /\ startedEvt' = TRUE
    /\ Goto(t, "loop")
    /\ UNCHANGED <<made, cur, pcF, started, stopEvt, owes, races>>

\* while self._go_on(); the variant looks at the mark of the probe instead.
WhileMarked == started
GoOn == ~stopEvt

Loop(t) ==
    /\ pcT[t] = "loop"
    /\ Goto(t, IF GoOn THEN "main" ELSE "stopTest")
    /\ UNCHANGED <<made, cur, pcF, started, events, owes, races>>

\* The last word of the thread is Probe._stop.
StopOrLeave(t) == Goto(t, IF started THEN "stopCall" ELSE "ended")

StopTest(t) ==
    /\ pcT[t] = "stopTest"
    /\ StopOrLeave(t)
    /\ UNCHANGED <<made, cur, pcF, started, events, owes, races>>

StopReset(t) ==
    /\ pcT[t] = "stopReset"
    /\ Reset(t) /\ spoilt' = (spoilt \/ t # made)
    /\ Goto(t, "ended")
    /\ UNCHANGED <<made, cur, pcF, events, owes>>

\* The user's start() or main() returns, or raises: no Probe._stop then.
StartReturns(t) ==
    /\ pcT[t] = "start"
    /\ Goto(t, "notify") \/ Goto(t, "dead")
    /\ UNCHANGED <<made, cur, pcF, started, events, owes, races>>

MainReturns(t) ==
    /\ pcT[t] = "main"
    /\ Goto(t, "loop") \/ Goto(t, "dead")
    /\ UNCHANGED <<made, cur, pcF, started, events, owes, races>>

\* The user's stop() returns, or raises: the probe stays marked.
StopCall(t) ==
    /\ pcT[t] = "stopCall"
    /\ owes' = FALSE
    /\ Goto(t, "stopReset") \/ Goto(t, "ended")
    /\ UNCHANGED <<made, cur, pcF, started, events, races>>

ThreadCode(t) ==
    Enter(t) \/ Mark(t) \/ Notify(t) \/ Loop(t) \/ StopTest(t) \/ StopReset(t)
UserCode(t) == StartReturns(t) \/ MainReturns(t) \/ StopCall(t)

Next == Fmk \/ \E t \in Threads : ThreadCode(t) \/ UserCode(t)

Spec == Init /\ [][Next]_vars

\* Threads are scheduled, the stop() that the framework calls returns, and so
\* does the user code of the threads that do not hang. What is started and
\* stopped is up to the user.
Fairness ==
    /\ WF_vars(Fmk /\ pcF # "idle")
    /\ \A t \in Threads : WF_vars(ThreadCode(t))
    /\ \A t \in Threads \ Hanging : WF_vars(UserCode(t))

FairSpec == Spec /\ Fairness
-----------------------------------------------------------------------------
(* Properties.                                                              *)

\* Probe._started: as long as the user's start() was not followed by a stop(),
\* the flag lets a later Probe._stop call it, whatever crashed in between and
\* although two threads test and reset the flag without a lock: unless the probe was
\* started while an earlier thread was running, and somebody who had called stop()
\* before that start() resets the flag after it.
OwedStopIsPossible == owes => started \/ (torn /\ overlap)

\* The probe of a thread that works is marked as started: the restart of a
\* probe never runs main() on an unmarked probe, unless a thread of an earlier
\* life, which was still running then, has just unmarked it.
WorkingIsStarted ==
    \A t \in Threads : t = made /\ pcT[t] \in {"start", "notify", "main"} /\ ~stopEvt =>
        started \/ (spoilt /\ overlap)

\* A thread that was told to stop ends once its user code returns, unless the probe is
\* started again meanwhile, which clears the event that tells it.
StoppedEnds == \A t \in Threads \ Hanging : stopEvt /\ t = made ~> Gone(t) \/ t # made
=============================================================================
