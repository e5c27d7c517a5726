----------------------------- MODULE SendCycle -----------------------------
(***************************************************************************)
(* plumbing.py: a round of sending from beginning to end, for the two      *)
(* loops that make rounds: process_data_and_send (send_data_and_log) and   *)
(* launch_operator. Residual feedback is collected before the first data   *)
(* of a burst, the feedback and the probes are looked at at its end; a     *)
(* target that does not become ready, or reports an error, is recovered,   *)
(* and the verdicts of these recoveries decide whether the loop goes on.   *)
(* The data are produced elsewhere; the probes are those of ProbeSync.     *)
(***************************************************************************)
EXTENDS Naturals, Sequences, SequencesExt

CONSTANTS
    Order,         \* the enabled targets, in the order of self.targets
    Silent,        \* those with a feedback timeout of 0
    Recoverable,   \* those that implement recover_target
    Bursts,        \* the sizes of burst the user may choose
    MaxSince       \* bound on the history variable since

Targets == ToSet(Order)

ASSUME SendCycleAssumption ==
    /\ Order \in Seq(Targets)
    /\ Silent \cup Recoverable \subseteq Targets
    /\ Bursts \subseteq Nat \ {0} /\ Bursts # {}
    /\ MaxSince \in Nat

VARIABLES
    mode,       \* the loop that is running
    pc,         \* the step it is at
    stage,      \* "before" or "after" the sending, or the "last" feedback
    i,          \* index of the target the step is at
    burst, countdown,    \* _burst, _burst_countdown
    ready,      \* is_target_ready_for_new_data of each target
    pending,    \* targets with data in _pending_data
    recovered,  \* _recovered_tgs
    sendErr, stopSend,   \* _sending_error, _stop_sending
    ok,         \* conjunction of the verdicts of the round so far
    last,       \* verdict of the loop over the targets the step is in
    failed,     \* history: targets whose recovery failed in this round
    masked,     \* history: those whose verdict was lost
    misled,     \* history: data went to an unknown target
    since,      \* history: sendings without error since feedback was retrieved
    crashed     \* history: the code of an operator has crashed since then

bursts == <<burst, countdown>>
flags == <<sendErr, stopSend>>
verdicts == <<ok, last>>
history == <<failed, masked, misled, since, crashed>>
vars == <<mode, pc, stage, i, bursts, ready, pending, recovered, flags, verdicts, history>>

Steps == {"init", "collect", "wait", "fbk", "probes", "decide", "delay", "send", "unsol",
          "log", "report", "end"}

TypeOK ==
    /\ mode \in {"none", "shell", "operator"} /\ pc \in Steps \cup {"idle", "plan"}
    /\ stage \in {"before", "after", "last"} /\ i \in 1..Len(Order) + 1
    /\ burst \in Bursts /\ countdown \in 0..burst
    /\ ready \in [Targets -> BOOLEAN] /\ pending \subseteq Targets
    /\ {sendErr, stopSend, ok, last, misled, crashed} \subseteq BOOLEAN
    /\ recovered \cup failed \cup masked \subseteq Targets
    /\ since \in 0..MaxSince

Init ==
    /\ mode = "none" /\ pc = "idle" /\ stage = "before" /\ i = 1
    /\ burst \in Bursts /\ countdown = burst
    /\ ready = [t \in Targets |-> TRUE] /\ pending = {} /\ recovered = {}
    /\ sendErr = FALSE /\ stopSend = FALSE
    /\ ok = TRUE /\ last = TRUE /\ failed = {} /\ masked = {} /\ misled = FALSE /\ since = 0
    /\ crashed = FALSE

\* The boundary of a burst, as every test of the code spells it.
AtBoundary == countdown = burst

\* What follows the steps of a round, in each of the loops.
Follow == [
    before   |-> [collect |-> "wait", wait |-> "fbk", fbk |-> "probes", probes |-> "decide"],
    last     |-> [fbk |-> "end"],
    shell    |-> [delay |-> "send", unsol |-> "wait", wait |-> "log", log |-> "fbk",
                  fbk |-> "probes", probes |-> "end"],
    operator |-> [log |-> "wait", wait |-> "fbk", fbk |-> "probes", probes |-> "report",
                  report |-> "delay", delay |-> "end"]]

NextStep == Follow[IF stage = "after" THEN mode ELSE stage][pc]

Go(s) == pc' = s /\ i' = 1 /\ last' = TRUE
Leave == Go("idle") /\ mode' = "none"
AtEnd == i = Len(Order) + 1
Target == Order[i]
-----------------------------------------------------------------------------
(* _recover_target                                                          *)

\* A target whose recovery was already tried counts as recovered, and so does one
\* that does not implement it; recover_target tells the truth.
Recover(t, verdict) ==
    IF t \in recovered
    THEN verdict /\ UNCHANGED <<ready, recovered, failed>>
    ELSE /\ recovered' = recovered \cup {t}
         /\ t \notin Recoverable => verdict
         /\ ready' = [ready EXCEPT ![t] = @ \/ (verdict /\ t \in Recoverable)]
         /\ failed' = failed \cup (IF verdict THEN {} ELSE {t})

\* The verdicts of a loop: in monitor_probes and wait_for_target_readiness the last
\* one stands for all.
LastVerdict(verdict) ==
    /\ last' = verdict
    /\ masked' = IF verdict /\ ~last THEN masked \cup failed ELSE masked
-----------------------------------------------------------------------------
(* The loops and the user.                                                  *)

SetBurst(n) ==
    /\ pc = "idle" /\ n # burst
    /\ burst' = n /\ countdown' = n
    /\ UNCHANGED <<mode, pc, stage, i, ready, pending, recovered, flags, verdicts, history>>

\* The target has done what it had to do.
Settle(t) ==
    /\ ~ready[t]
    /\ ready' = [ready EXCEPT ![t] = TRUE]
    /\ UNCHANGED <<mode, pc, stage, i, bursts, pending, recovered, flags, verdicts, history>>

\* process_data_and_send, or launch_operator once the start() of the operator is over.
Launch(m) ==
    /\ pc = "idle" /\ m \in {"shell", "operator"}
    /\ mode' = m /\ Go(IF m = "shell" THEN "init" ELSE "plan")
    /\ UNCHANGED <<stage, bursts, ready, pending, recovered, flags, ok, history>>

\* plan_next_operation: data to send, or Stop, after which the feedback is retrieved
\* a last time.
PlanData ==
    /\ pc = "plan" /\ Go("init")
    /\ UNCHANGED <<mode, stage, bursts, ready, pending, recovered, flags, ok, history>>

PlanStop ==
    /\ pc = "plan" /\ Go("fbk")
    /\ stage' = "last" /\ ok' = FALSE
    /\ UNCHANGED <<mode, bursts, ready, pending, recovered, flags, history>>

\* An exception in the code of the operator (before the data is logged it is that of
\* do_after_all): its stop() is not called.
OperatorCrashes ==
    /\ mode = "operator" /\ pc \in {"plan", "log"}
    /\ Leave /\ crashed' = TRUE
    /\ UNCHANGED <<stage, bursts, ready, pending, recovered, flags, ok, failed, masked, misled, since>>
-----------------------------------------------------------------------------
(* Before the sending: _do_sending_and_logging_init, _delay_sending.        *)

BeginRound ==
    /\ pc = "init"
    /\ Go(IF ~AtBoundary THEN "decide" ELSE IF Silent = Targets THEN "probes" ELSE "collect")
    /\ stage' = "before" /\ ok' = TRUE /\ failed' = {} /\ masked' = {}
    /\ UNCHANGED <<mode, bursts, ready, pending, recovered, flags, misled, since, crashed>>

\* collect_unsolicited_feedback may keep a target busy.
Collect ==
    /\ pc = "collect" /\ Go(NextStep)
    /\ \E busy \in SUBSET (Targets \ Silent) : ready' = [t \in Targets |-> ready[t] /\ t \notin busy]
    /\ recovered' = {}
    /\ UNCHANGED <<mode, stage, bursts, pending, flags, ok, history>>

\* No target can: their readiness is not waited for, even if it was lost earlier.
CollectNothing ==
    /\ pc = "collect" /\ Go("fbk")
    /\ UNCHANGED <<mode, stage, bursts, ready, pending, recovered, flags, ok, history>>

\* The targets are not ready, an error was reported, or the user has had enough.
Decide ==
    /\ pc = "decide"
    /\ IF ok
       THEN Go(IF mode = "shell" THEN "delay" ELSE "send") /\ stage' = "after" /\ UNCHANGED mode
       ELSE Leave /\ UNCHANGED stage
    /\ UNCHANGED <<bursts, ready, pending, recovered, flags, ok, history>>

\* All the data were blocked: the round is over, in send_data_and_log after the delay,
\* which counts, and in launch_operator without any.
NothingLeft ==
    /\ pc = (IF mode = "shell" THEN "send" ELSE "decide") /\ ok
    /\ Go("end") /\ stage' = "after"
    /\ UNCHANGED <<mode, bursts, ready, pending, recovered, flags, ok, history>>

\* The variant: a burst has one data more.
OverLater(n) == n < 1
Over(n) == n <= 1

\* Before the sending in send_data_and_log, at the end of the round in
\* launch_operator. The user may give up while the delay lasts.
Delay ==
    /\ pc = "delay"
    /\ IF Over(countdown)
       THEN countdown' = burst /\ (UNCHANGED ok \/ ok' = FALSE)
       ELSE countdown' = countdown - 1 /\ UNCHANGED ok
    /\ Go(IF ok' THEN NextStep ELSE "end")
    /\ UNCHANGED <<mode, stage, burst, ready, pending, recovered, flags, history>>
-----------------------------------------------------------------------------
(* The sending: _send_data.                                                 *)

\* It returns None: send_data_and_log goes on unless a flag is set, launch_operator
\* does not.
SendsNothing == Go("end") /\ ok' = (mode = "shell" /\ ~sendErr' /\ ~stopSend')

\* Empty data, or every data was blocked by its callbacks: the flags are those of an
\* earlier round.
RejectData ==
    /\ pc = "send" /\ UNCHANGED flags /\ SendsNothing
    /\ UNCHANGED <<mode, stage, bursts, ready, pending, recovered, history>>

\* The DataProcess has yielded; the control may be given back to the user.
DataYields ==
    /\ pc = "send" /\ stopSend' \in BOOLEAN /\ UNCHANGED sendErr /\ SendsNothing
    /\ UNCHANGED <<mode, stage, bursts, ready, pending, recovered, history>>

\* One of the data is for a target that is not enabled: the data that were added to
\* the pending ones of other targets stay there.
Misdirect(kept) ==
    /\ pc = "send" /\ sendErr' = TRUE /\ stopSend' = FALSE /\ SendsNothing
    /\ misled' = TRUE
    /\ pending' = pending \cup kept
    /\ UNCHANGED <<mode, stage, bursts, ready, recovered, failed, masked, since, crashed>>

\* send_pending_data takes the data before it sends them, so that nothing is left
\* when the target is stuck; the variant takes them afterwards.
TakenAfterwards(dest, stuck) == pending \cup stuck
TakenFirst(dest, stuck) == pending \ dest

\* A target that is not ready drops its data without a word.
SendData(dest, stuck) ==
    /\ pc = "send" /\ dest # {} /\ stuck \subseteq dest
    /\ pending' = TakenFirst(dest, stuck)
    /\ \E busy \in SUBSET (dest \ stuck) : ready' = [t \in Targets |-> ready[t] /\ t \notin busy]
    /\ recovered' = {} /\ stopSend' = FALSE /\ sendErr' = (stuck # {})
    /\ since' = IF stuck # {} \/ since = MaxSince THEN since ELSE since + 1
    /\ IF stuck # {} THEN Go("end") /\ ok' = FALSE
       ELSE Go(IF mode = "operator" THEN "log" ELSE IF AtBoundary THEN "unsol" ELSE "wait")
            /\ UNCHANGED ok
    /\ UNCHANGED <<mode, stage, bursts, failed, masked, misled, crashed>>

\* The targets that got no data are asked for feedback too.
Unsolicited ==
    /\ pc = "unsol" /\ Go(NextStep)
    /\ \E busy \in SUBSET Targets : ready' = [t \in Targets |-> ready[t] /\ t \notin busy]
    /\ UNCHANGED <<mode, stage, bursts, pending, recovered, flags, ok, history>>
-----------------------------------------------------------------------------
(* After the sending, and for the residual feedback.                        *)

\* wait_for_target_readiness; the variant never gives up.
NeverExpires == FALSE
Expires == ~ready[Target]

WaitReady ==
    /\ pc = "wait" /\ ~AtEnd /\ ready[Target]
    /\ i' = i + 1
    /\ UNCHANGED <<mode, pc, stage, bursts, ready, pending, recovered, flags, verdicts, history>>

WaitTimeout(verdict) ==
    /\ pc = "wait" /\ ~AtEnd /\ Expires
    /\ Recover(Target, verdict) /\ LastVerdict(verdict)
    /\ i' = i + 1
    /\ UNCHANGED <<mode, pc, stage, bursts, pending, flags, ok, misled, since, crashed>>

\* Ctrl-C, or an exception in the code of a target.
WaitCancelled ==
    /\ pc = "wait" /\ ~AtEnd
    /\ Go(NextStep) /\ ok' = FALSE
    /\ UNCHANGED <<mode, stage, bursts, ready, pending, recovered, flags, history>>

\* An operator is supposed to manage the failure itself.
WaitEnds ==
    LET ignored == mode = "operator" /\ stage = "after" IN
    /\ pc = "wait" /\ AtEnd
    /\ Go(NextStep)
    /\ ok' = (ok /\ (last \/ ignored))
    /\ masked' = IF ignored /\ ~last THEN masked \cup failed ELSE masked
    /\ UNCHANGED <<mode, stage, bursts, ready, pending, recovered, flags, failed, misled, since, crashed>>

\* _log_data forgets which targets were recovered.
Log ==
    /\ pc = "log" /\ Go(NextStep)
    /\ recovered' = {}
    /\ UNCHANGED <<mode, stage, bursts, ready, pending, flags, ok, history>>

SkipFeedback ==
    /\ pc \in {"fbk", "probes"} /\ stage = "after" /\ ~AtBoundary
    /\ Go(NextStep)
    /\ UNCHANGED <<mode, stage, bursts, ready, pending, recovered, flags, ok, history>>

\* The variant takes the verdict of the last target, as the other loops do.
LastOk(verdict) == ok' = verdict
AndOk(verdict) == ok' = (ok /\ verdict)

\* retrieve_and_log_target_feedback: the status of the target is negative, or not.
Feedback(bad, verdict) ==
    /\ pc = "fbk" /\ (stage = "after" => AtBoundary) /\ ~AtEnd
    /\ IF bad THEN Recover(Target, verdict) /\ AndOk(verdict)
              ELSE UNCHANGED <<ready, recovered, failed, ok>>
    /\ i' = i + 1
    /\ UNCHANGED <<mode, pc, stage, bursts, pending, flags, last, masked, misled, since, crashed>>

FeedbackEnds ==
    /\ pc = "fbk" /\ (stage = "after" => AtBoundary) /\ AtEnd
    /\ Go(NextStep) /\ since' = 0 /\ crashed' = FALSE
    /\ UNCHANGED <<mode, stage, bursts, ready, pending, recovered, flags, ok, failed, masked, misled>>

\* monitor_probes: some probe of the target reports an error, or none does.
Probes(bad, verdict) ==
    /\ pc = "probes" /\ (stage = "after" => AtBoundary) /\ ~AtEnd
    /\ IF bad THEN Recover(Target, verdict) /\ LastVerdict(verdict)
              ELSE LastVerdict(TRUE) /\ UNCHANGED <<ready, recovered, failed>>
    /\ i' = i + 1
    /\ UNCHANGED <<mode, pc, stage, bursts, pending, flags, ok, misled, since, crashed>>

\* Its result is not used for the residual feedback.
ProbesEnd ==
    LET ignored == stage = "before" IN
    /\ pc = "probes" /\ (stage = "after" => AtBoundary) /\ AtEnd
    /\ Go(NextStep)
    /\ ok' = (ok /\ (last \/ ignored))
    /\ masked' = IF ignored /\ ~last THEN masked \cup failed ELSE masked
    /\ UNCHANGED <<mode, stage, bursts, ready, pending, recovered, flags, failed, misled, since, crashed>>

\* An operator that returns a negative status has every target recovered and ends.
Report ==
    /\ pc = "report" /\ Go(NextStep)
    /\ \/ UNCHANGED <<ok, ready, recovered>>
       \/ /\ ok' = FALSE /\ recovered' = Targets
          /\ \E back \in SUBSET (Recoverable \ recovered) :
                 ready' = [t \in Targets |-> ready[t] \/ t \in back]
    /\ UNCHANGED <<mode, stage, bursts, pending, flags, history>>

\* The next round, unless the loop is over.
EndRound ==
    /\ pc = "end"
    /\ \/ ok /\ Go(IF mode = "shell" THEN "init" ELSE "plan") /\ UNCHANGED mode
       \/ (mode = "shell" \/ ~ok) /\ Leave
    /\ UNCHANGED <<stage, bursts, ready, pending, recovered, flags, ok, history>>

Round ==
    \/ BeginRound \/ Collect \/ CollectNothing \/ Decide \/ NothingLeft \/ Delay
    \/ RejectData \/ DataYields \/ Unsolicited
    \/ \E kept \in SUBSET Targets : Misdirect(kept)
    \/ \E dest, stuck \in SUBSET Targets : SendData(dest, stuck)
    \/ WaitReady \/ WaitEnds \/ Log \/ SkipFeedback \/ FeedbackEnds
    \/ \E verdict \in BOOLEAN : WaitTimeout(verdict)
    \/ \E bad, verdict \in BOOLEAN : Feedback(bad, verdict) \/ Probes(bad, verdict)
    \/ ProbesEnd \/ Report

Next ==
    \/ Round \/ WaitCancelled \/ EndRound \/ PlanData \/ PlanStop \/ OperatorCrashes
    \/ \E n \in Bursts : SetBurst(n)
    \/ \E m \in {"shell", "operator"} : Launch(m)
    \/ \E t \in Targets : Settle(t)

Spec == Init /\ [][Next]_vars

\* The framework thread is scheduled. A target need not settle, an operator need not
\* end, and nobody has to press Ctrl-C.
FairSpec == Spec /\ WF_vars(Round)
-----------------------------------------------------------------------------
(* Properties.                                                              *)

\* No more sendings than a burst has are made between two retrievals of feedback,
\* although rounds fail or send nothing at any point of a burst, the two loops count
\* at different moments, and the user changes the size of the burst; only an operator
\* that crashes between the sending and the delay stops the count. When the feedback
\* timeout of every target is 0 there is no residual feedback, and a burst whose last
\* sending fails goes on with the next one.
BurstIsBounded ==
    /\ Silent # Targets /\ ~crashed
    /\ pc \in {"unsol", "wait", "log", "fbk"} /\ stage = "after"
    => since <= burst

\* What a target is sent was prepared in this round: unless some data was for a
\* target that is not enabled, no exit of a round leaves data behind.
NothingLeftPending == pc = "idle" /\ ~misled => pending = {}

\* A recovery that failed ends the loop, unless a later target overwrote the verdict,
\* the caller ignored it, or an operator has to look after it.
VerdictsAreKept == pc = "end" /\ ok => failed \subseteq masked

\* Every round ends, even if no target is ever ready again.
RoundEnds == pc \in Steps ~> pc \in {"end", "idle"}
=============================================================================
