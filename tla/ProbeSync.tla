----------------------------- MODULE ProbeSync -----------------------------
(***************************************************************************)
(* The rendezvous between the sending loop of the framework (one thread,   *)
(* FmkPlumbing.send_data_and_log and _send_data, plumbing.py) and the      *)
(* threads of the blocking probes (BlockingProbeUser._run, monitor.py),    *)
(* carried by five threading.Event objects per probe.                      *)
(*                                                                         *)
(* Every read or write of an Event is a step of its own, except where two  *)
(* of them next to each other in one thread commute with every step of     *)
(* the other threads; event.wait(1) is the return to the polling state.    *)
(***************************************************************************)
EXTENDS Naturals, FiniteSets

CONSTANTS
    Probes,        \* names of the blocking probes registered in the Monitor
    AfterFbk,      \* those registered with after_target_feedback_retrieval
    NTargets,      \* how many targets one data list is sent to
    Stopped,       \* probes the user may stop
    Hanging,       \* probes whose arm() or main() may never return
    EarlyTimeout   \* TRUE: a wait may time out however quick the probe is

ASSUME ProbeSyncAssumption ==
    /\ Probes # {}
    /\ AfterFbk \subseteq Probes
    /\ Hanging \subseteq Probes /\ Stopped \subseteq Probes
    /\ NTargets \in Nat \ {0}
    /\ EarlyTimeout \in BOOLEAN

VARIABLES
    pcF,       \* where the framework thread is
    todo,      \* probes its current loop over probe_users has still to visit
    left,      \* targets its sending loop has still to visit
    outcome,   \* "error" when FmkPlumbing._sending_error is set
    pcP,       \* where each probe thread is
    arm,       \* _arm_event
    armed,     \* _armed_event
    blocking,  \* _blocking_event
    cont,      \* _continue_event
    status,    \* _probe_status_event
    stop,      \* _stop_event (and then ProbeUser._thread is None)
    sent,      \* history: a target took data since the last arm() of the probe
    runs       \* history: main() calls since then, "none", "once" or "again"

fmkVars == <<pcF, todo, left, outcome>>
vars == <<pcF, todo, left, outcome, pcP, arm, armed, blocking, cont, status, stop,
          sent, runs>>

FmkStates == {"idle", "notifyReady", "waitArmed", "callbacks", "send", "notifySend",
              "notifySendError", "notifyError", "notifyFbk", "waitReady", "report"}
ProbeStates == {"loop", "waitArm", "clearArm", "arm", "sync", "syncError", "main",
                "dead", "ended"}
Syncing == {"sync", "syncError"}

TypeOK ==
    /\ pcF \in FmkStates
    /\ todo \in SUBSET Probes
    /\ left \in 0..NTargets
    /\ outcome \in {"fine", "error"}
    /\ pcP \in [Probes -> ProbeStates]
    /\ arm \in [Probes -> BOOLEAN]
    /\ armed \in [Probes -> BOOLEAN]
    /\ blocking \in [Probes -> BOOLEAN]
    /\ cont \in [Probes -> BOOLEAN]
    /\ status \in [Probes -> BOOLEAN]
    /\ stop \in [Probes -> BOOLEAN]
    /\ sent \in [Probes -> BOOLEAN]
    /\ runs \in [Probes -> {"none", "once", "again"}]

\* The probes are started and initialised (Monitor.start_probe, then
\* wait_for_probe_initialization) before the first data is sent.
Init ==
    /\ pcF = "idle" /\ todo = {} /\ left = 0 /\ outcome = "fine"
    /\ pcP = [p \in Probes |-> "loop"]
    /\ arm = [p \in Probes |-> FALSE]
    /\ armed = [p \in Probes |-> FALSE]
    /\ blocking = [p \in Probes |-> FALSE]
    /\ cont = [p \in Probes |-> FALSE]
    /\ status = [p \in Probes |-> FALSE]
    /\ stop = [p \in Probes |-> FALSE]
    /\ sent = [p \in Probes |-> FALSE]
    /\ runs = [p \in Probes |-> "none"]

\* ProbeUser.is_alive and not stopped: stop() forgets the thread.
IsAlive(p) == ~stop[p] /\ pcP[p] \notin {"dead", "ended"}

\* ProbeUser._go_on.
GoOn(p) == ~stop[p]

\* The probe cannot move without the framework, or is inside user code.
Stuck(p) ==
    \/ pcP[p] \in {"arm", "main"}
    \/ pcP[p] = "waitArm" /\ ~arm[p] /\ GoOn(p)
    \/ pcP[p] \in Syncing /\ ~blocking[p] /\ ~cont[p] /\ GoOn(p)

\* The timeout of _wait_for_probe; the variant waits for ever.
GivesUpNever(p) == FALSE
GivesUp(p) == IsAlive(p) /\ (EarlyTimeout \/ Stuck(p))

-----------------------------------------------------------------------------
(* The framework thread.                                                    *)

eventVars == <<arm, armed, blocking, cont, status, stop>>

\* A loop over probe_users starts in state s, over the probes ps.
Visit(s, ps) == pcF' = s /\ todo' = ps

\* send_data_and_log has data to send: _do_before_sending_data asks every
\* blocking probe to arm.
BeginRound ==
    /\ pcF = "idle"
    /\ Visit("notifyReady", Probes)
    /\ UNCHANGED <<left, outcome, pcP, eventVars, sent, runs>>

\* The data is invalid from the start: notify_error() before any arming.
RejectData ==
    /\ pcF = "idle"
    /\ Visit("notifyError", Probes)
    /\ UNCHANGED <<left, outcome, pcP, eventVars, sent, runs>>

NotifyReady(p) ==
    /\ pcF = "notifyReady" /\ p \in todo
    /\ arm' = [arm EXCEPT ![p] = TRUE]
    /\ IF todo = {p} THEN Visit("waitArmed", Probes)
                     ELSE Visit("notifyReady", todo \ {p})
    /\ UNCHANGED <<left, outcome, pcP, armed, blocking, cont, status, stop, sent, runs>>

\* The finally clause of wait_until_armed also drops a status left by a round
\* that ended in error.
ClearArmed(p) == armed' = [armed EXCEPT ![p] = FALSE]
DropStatus(p) == status' = [status EXCEPT ![p] = FALSE]

\* _wait_for_probe returns: the event is there, or the probe is gone.
Seen(event, p) == event[p] \/ ~IsAlive(p)

\* wait_until_armed
WaitUntilArmed(p) ==
    /\ pcF = "waitArmed" /\ p \in todo
    /\ Seen(armed, p)
    /\ ClearArmed(p) /\ DropStatus(p)
    /\ IF todo = {p} THEN Visit("callbacks", {}) ELSE Visit("waitArmed", todo \ {p})
    /\ UNCHANGED <<left, outcome, pcP, arm, blocking, cont, stop, sent, runs>>

\* _wait_for_probe gives up: BlockingProbeUser.stop(), then ProbeTimeoutError.
ArmTimeout(p) ==
    /\ pcF = "waitArmed" /\ p \in todo
    /\ ~armed[p] /\ GivesUp(p)
    /\ stop' = [stop EXCEPT ![p] = TRUE]
    /\ cont' = [cont EXCEPT ![p] = TRUE]
    /\ ClearArmed(p) /\ DropStatus(p)
    /\ IF todo = {p} THEN Visit("callbacks", {}) ELSE Visit("waitArmed", todo \ {p})
    /\ UNCHANGED <<left, outcome, pcP, arm, blocking, sent, runs>>

\* The callbacks left data to send, for known targets.
StartSending ==
    /\ pcF = "callbacks"
    /\ pcF' = "send" /\ left' = NTargets /\ outcome' = "fine"
    /\ UNCHANGED <<todo, pcP, eventVars, sent, runs>>

\* No more data, data that became empty or unusable, or an unknown target:
\* every early return of _send_data after the arming calls notify_error().
AbandonData ==
    /\ pcF = "callbacks"
    /\ Visit("notifyError", Probes)
    /\ outcome' \in {"fine", "error"}
    /\ UNCHANGED <<left, pcP, eventVars, sent, runs>>

\* The loop over the targets has one more to visit.
TargetsLeft == left > 0

\* send_pending_data() returns: the target took the data.
SendToTarget ==
    /\ pcF = "send" /\ TargetsLeft
    /\ left' = left - 1
    /\ IF Probes \ AfterFbk = {} THEN Visit("send", {})
                                 ELSE Visit("notifySend", Probes \ AfterFbk)
    /\ sent' = [p \in Probes |-> TRUE]
    /\ UNCHANGED <<outcome, pcP, eventVars, runs>>

\* send_pending_data() raises TargetStuck or any other exception.
SendFails ==
    /\ pcF = "send" /\ TargetsLeft
    /\ left' = left - 1
    /\ outcome' = "error"
    /\ Visit("notifySendError", Probes)
    /\ UNCHANGED <<pcP, eventVars, sent, runs>>

\* notify_data_sending_event
NotifySend(p) ==
    /\ pcF = "notifySend" /\ p \in todo
    /\ blocking' = [blocking EXCEPT ![p] = TRUE]
    /\ IF todo = {p} THEN Visit("send", {}) ELSE Visit("notifySend", todo \ {p})
    /\ UNCHANGED <<left, outcome, pcP, arm, armed, cont, status, stop, sent, runs>>

\* BlockingProbeUser.notify_error; the variant does not reach the probe.
ErrorUnsignalled(p) == cont' = cont
SignalError(p) == cont' = [cont EXCEPT ![p] = TRUE]

\* Monitor.notify_error, from an early return or from the sending loop.
NotifyError(p) ==
    /\ pcF \in {"notifyError", "notifySendError"} /\ p \in todo
    /\ SignalError(p)
    /\ \/ todo # {p} /\ Visit(pcF, todo \ {p})
       \/ todo = {p} /\ pcF = "notifyError" /\ Visit("idle", {})
       \/ todo = {p} /\ pcF = "notifySendError" /\ Visit("send", {})
    /\ UNCHANGED <<left, outcome, pcP, arm, armed, blocking, status, stop, sent, runs>>

\* After the last target: a sending error ends the round; otherwise the
\* feedback of the targets is collected and notify_target_feedback_retrieval
\* releases the probes that were waiting for it.
EndSending ==
    /\ pcF = "send" /\ left = 0
    /\ IF outcome = "error" THEN Visit("idle", {})
       ELSE IF AfterFbk = {} THEN Visit("waitReady", Probes)
       ELSE Visit("notifyFbk", AfterFbk)
    /\ UNCHANGED <<left, outcome, pcP, eventVars, sent, runs>>

NotifyFbk(p) ==
    /\ pcF = "notifyFbk" /\ p \in todo
    /\ blocking' = [blocking EXCEPT ![p] = TRUE]
    /\ IF todo = {p} THEN Visit("waitReady", Probes)
                     ELSE Visit("notifyFbk", todo \ {p})
    /\ UNCHANGED <<left, outcome, pcP, arm, armed, cont, status, stop, sent, runs>>

WaitUntilReady(p) ==
    /\ pcF = "waitReady" /\ p \in todo
    /\ Seen(status, p)
    /\ status' = [status EXCEPT ![p] = FALSE]
    /\ IF todo = {p} THEN Visit("report", {}) ELSE Visit("waitReady", todo \ {p})
    /\ UNCHANGED <<left, outcome, pcP, arm, armed, blocking, cont, stop, sent, runs>>

StatusTimeout(p) ==
    /\ pcF = "waitReady" /\ p \in todo
    /\ ~status[p] /\ GivesUp(p)
    /\ stop' = [stop EXCEPT ![p] = TRUE]
    /\ cont' = [cont EXCEPT ![p] = TRUE]
    /\ IF todo = {p} THEN Visit("report", {}) ELSE Visit("waitReady", todo \ {p})
    /\ UNCHANGED <<left, outcome, pcP, arm, armed, blocking, status, sent, runs>>

\* monitor_probes reads the status of every live probe; the round is over.
Report ==
    /\ pcF = "report"
    /\ pcF' = "idle"
    /\ UNCHANGED <<todo, left, outcome, pcP, eventVars, sent, runs>>

\* Monitor.stop_probe or stop_all_probes, between two rounds:
\* BlockingProbeUser.stop() of a live probe.
StopProbe(p) ==
    /\ pcF = "idle" /\ p \in Stopped /\ IsAlive(p)
    /\ stop' = [stop EXCEPT ![p] = TRUE]
    /\ cont' = [cont EXCEPT ![p] = TRUE]
    /\ UNCHANGED <<fmkVars, pcP, arm, armed, blocking, status, sent, runs>>

Fmk ==
    \/ BeginRound \/ RejectData \/ StartSending \/ AbandonData
    \/ SendToTarget \/ SendFails \/ EndSending \/ Report
    \/ \E p \in Probes :
         \/ NotifyReady(p) \/ WaitUntilArmed(p) \/ ArmTimeout(p)
         \/ NotifySend(p) \/ NotifyError(p) \/ NotifyFbk(p)
         \/ WaitUntilReady(p) \/ StatusTimeout(p) \/ StopProbe(p)

-----------------------------------------------------------------------------
(* A probe thread: BlockingProbeUser._run once the probe is started.        *)

Goto(p, s) == pcP' = [pcP EXCEPT ![p] = s]

\* while self._go_on(): ... then Probe._stop.
LoopTest(p) ==
    /\ pcP[p] = "loop"
    /\ Goto(p, IF GoOn(p) THEN "waitArm" ELSE "ended")
    /\ UNCHANGED <<fmkVars, eventVars, sent, runs>>

\* _wait_for_data_ready looks at the arm event before the stop event.
SeeArm(p) ==
    /\ pcP[p] = "waitArm" /\ arm[p]
    /\ Goto(p, "clearArm")
    /\ UNCHANGED <<fmkVars, eventVars, sent, runs>>

SeeStop(p) ==
    /\ pcP[p] = "waitArm" /\ ~arm[p] /\ ~GoOn(p)
    /\ Goto(p, "loop")
    /\ UNCHANGED <<fmkVars, eventVars, sent, runs>>

\* A new round forgets the error of the last one; the variant remembers it.
KeepError(p) == cont' = cont
ForgetError(p) == cont' = [cont EXCEPT ![p] = FALSE]

\* The end of _wait_for_data_ready, then arm() is entered.
ClearArm(p) ==
    /\ pcP[p] = "clearArm"
    /\ Goto(p, "arm")
    /\ arm' = [arm EXCEPT ![p] = FALSE]
    /\ ForgetError(p)
    /\ sent' = [sent EXCEPT ![p] = FALSE]
    /\ runs' = [runs EXCEPT ![p] = "none"]
    /\ UNCHANGED <<fmkVars, armed, blocking, status, stop>>

ArmReturns(p) ==
    /\ pcP[p] = "arm"
    /\ Goto(p, "sync")
    /\ armed' = [armed EXCEPT ![p] = TRUE]
    /\ UNCHANGED <<fmkVars, arm, blocking, cont, status, stop, sent, runs>>

\* _wait_for_fmk_sync: the blocking event is there and is consumed.
SeeBlocking(p) ==
    /\ pcP[p] = "sync" /\ blocking[p]
    /\ Goto(p, "main")
    /\ blocking' = [blocking EXCEPT ![p] = FALSE]
    /\ runs' = [runs EXCEPT ![p] = IF @ = "none" THEN "once" ELSE "again"]
    /\ UNCHANGED <<fmkVars, arm, armed, cont, status, stop, sent>>

MissBlocking(p) ==
    /\ pcP[p] = "sync" /\ ~blocking[p]
    /\ Goto(p, "syncError")
    /\ UNCHANGED <<fmkVars, eventVars, sent, runs>>

\* The second test of the loop. An error or a stop makes the thread publish
\* a status it has not computed, and drop the blocking event if it came.
SeeError(p) ==
    /\ pcP[p] = "syncError" /\ (cont[p] \/ ~GoOn(p))
    /\ Goto(p, "loop")
    /\ status' = [status EXCEPT ![p] = TRUE]
    /\ blocking' = [blocking EXCEPT ![p] = FALSE]
    /\ UNCHANGED <<fmkVars, arm, armed, cont, stop, sent, runs>>

MissError(p) ==
    /\ pcP[p] = "syncError" /\ ~cont[p] /\ GoOn(p)
    /\ Goto(p, "sync")
    /\ UNCHANGED <<fmkVars, eventVars, sent, runs>>

MainReturns(p) ==
    /\ pcP[p] = "main"
    /\ Goto(p, "loop")
    /\ status' = [status EXCEPT ![p] = TRUE]
    /\ UNCHANGED <<fmkVars, arm, armed, blocking, cont, stop, sent, runs>>

\* arm() or main() raises: the thread returns without Probe._stop.
Crash(p) ==
    /\ pcP[p] \in {"arm", "main"}
    /\ Goto(p, "dead")
    /\ UNCHANGED <<fmkVars, eventVars, sent, runs>>

UserCode(p) == ArmReturns(p) \/ MainReturns(p) \/ Crash(p)
ThreadCode(p) ==
    \/ LoopTest(p) \/ SeeArm(p) \/ SeeStop(p) \/ ClearArm(p)
    \/ SeeBlocking(p) \/ MissBlocking(p) \/ SeeError(p) \/ MissError(p)

Next == Fmk \/ \E p \in Probes : ThreadCode(p) \/ UserCode(p)

Spec == Init /\ [][Next]_vars

\* The framework thread and the loops of the probe threads are scheduled;
\* user code returns unless the probe is a hanging one. The framework may
\* stay idle for ever: nothing obliges the user to send.
Fairness ==
    /\ WF_vars(Fmk /\ pcF # "idle")
    /\ \A p \in Probes : WF_vars(ThreadCode(p))
    /\ \A p \in Probes \ Hanging : WF_vars(UserCode(p))

FairSpec == Spec /\ Fairness
-----------------------------------------------------------------------------
(* Properties.                                                              *)

\* "arm(): called by the framework just before sending a data": when a target
\* is about to be given the data, every live probe has returned from the
\* arm() of this round and is waiting for the framework.
ArmedBeforeSending ==
    pcF = "send" /\ left = NTargets =>
        \A p \in Probes : IsAlive(p) => pcP[p] \in Syncing /\ ~sent[p] /\ runs[p] = "none"

\* "main(): called by the framework just after having sent a data": no
\* live probe enters main() on an event left over from an earlier round,
\* before the data it was armed for has reached a target.
MainAfterSending ==
    \A p \in Probes : pcP[p] = "main" /\ IsAlive(p) => sent[p]

\* When the framework goes on to read the probe statuses, each live probe
\* has run main() exactly once for the data just sent: the status it
\* publishes is neither left over from before nor a placeholder.
StatusIsOfThisRound ==
    pcF = "report" =>
        \A p \in Probes : IsAlive(p) => sent[p] /\ runs[p] = "once" /\ pcP[p] # "main"

\* Where a live probe can be, from the framework's point of view.

\* Nothing is asked of it; it may still have to notice the last error.
Resting(p) ==
    /\ ~arm[p] /\ ~armed[p] /\ ~blocking[p]
    /\ \/ pcP[p] \in {"loop", "waitArm"}
       \/ pcP[p] \in Syncing /\ cont[p]

\* It was asked to arm, and is on its way, arming, or armed.
Asked(p) ==
    /\ ~blocking[p]
    /\ \/ /\ arm[p] /\ ~armed[p]
          /\ \/ pcP[p] \in {"loop", "waitArm", "clearArm"}
             \/ pcP[p] \in Syncing /\ cont[p]
       \/ /\ ~arm[p] /\ ~cont[p] /\ ~sent[p] /\ runs[p] = "none"
          /\ \/ ~armed[p] /\ pcP[p] = "arm"
             \/ armed[p] /\ pcP[p] \in Syncing

\* It is armed and waits for the framework.
Ready(p) ==
    /\ pcP[p] \in Syncing /\ runs[p] = "none"
    /\ ~arm[p] /\ ~armed[p] /\ ~cont[p] /\ ~blocking[p] /\ ~status[p]

\* It was released after the sending: main() is about to run, runs, or ran.
Released(p) ==
    /\ ~arm[p] /\ ~armed[p] /\ ~cont[p] /\ sent[p]
    /\ \/ pcP[p] \in Syncing /\ blocking[p] /\ runs[p] = "none" /\ ~status[p]
       \/ pcP[p] = "main" /\ ~blocking[p] /\ runs[p] = "once" /\ ~status[p]
       \/ pcP[p] \in {"loop", "waitArm"} /\ ~blocking[p] /\ runs[p] = "once" /\ status[p]

\* Its status of this round was retrieved.
Retrieved(p) ==
    /\ ~arm[p] /\ ~armed[p] /\ ~blocking[p] /\ sent[p] /\ runs[p] = "once"
    /\ pcP[p] \in {"loop", "waitArm"}

\* What each place of the framework thread says of a live probe.
Phase(p) ==
    /\ pcF = "idle" => Resting(p)
    /\ pcF = "notifyReady" => IF p \in todo THEN Resting(p) ELSE Asked(p)
    /\ pcF = "waitArmed" => IF p \in todo THEN Asked(p) ELSE Ready(p) /\ ~sent[p]
    /\ pcF = "callbacks" => Ready(p) /\ ~sent[p]
    /\ pcF = "send" /\ left = NTargets => Ready(p) /\ ~sent[p]
    /\ pcF = "send" /\ left # NTargets /\ outcome = "error" => Resting(p)
    /\ pcF = "send" /\ left # NTargets /\ outcome = "fine" =>
           IF p \in AfterFbk THEN Ready(p) /\ sent[p] ELSE Released(p)
    /\ pcF = "notifySend" =>
           IF p \in AfterFbk \cup todo THEN Ready(p) /\ sent[p] ELSE Released(p)
    /\ pcF = "notifyFbk" => IF p \in todo THEN Ready(p) /\ sent[p] ELSE Released(p)
    /\ pcF = "notifySendError" => IF p \in todo THEN Ready(p) ELSE Resting(p)
    /\ pcF = "notifyError" => Resting(p) \/ (p \in todo /\ Ready(p))
    /\ pcF = "waitReady" => IF p \in todo THEN Released(p) ELSE Retrieved(p)
    /\ pcF = "report" => Retrieved(p)

\* The framework and each live probe agree on how far the round has come:
\* the five events hold nothing that an earlier round left behind. With one
\* target this is the invariant that makes the rendezvous work.
InStep == \A p \in Probes : IsAlive(p) => Phase(p)

\* A probe is given up only while the method named in the error message
\* (blocking_methods) is running: the rendezvous itself never makes the two
\* threads wait for each other.
StuckMethodIsRight ==
    [][\A p \in Probes :
         /\ ArmTimeout(p) => pcP[p] = "arm"
         /\ StatusTimeout(p) => pcP[p] = "main"]_vars

\* Whatever the probes do, a round of the sending loop comes to its end.
RoundEnds == pcF # "idle" ~> pcF = "idle"
=============================================================================
