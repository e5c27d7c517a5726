------------------------------ MODULE Scenario ------------------------------
(***************************************************************************)
(* scenario.py and DynGeneratorFromScenario (tactics_helpers.py): the walk *)
(* through a scenario, driven by the callbacks of the data it generates,   *)
(* which _handle_data_callbacks runs (plumbing.py): twice before the       *)
(* sending, after it, after the feedback, at the end. A step may host a    *)
(* DataProcess, whose chains of data makers are those of DmakerChain.      *)
(* The periodics and tasks that steps start and stop are those of FmkTasks.*)
(***************************************************************************)
EXTENDS DmakerChain, FiniteSetsExt

CONSTANTS
    Steps,
    Plays     \* the scenarios to walk through, see IsPlay

Hooks == {"sending", "fbk"}    \* cbk_after_sending, cbk_after_fbk

\* A transition has a step to go to, callbacks, or a guard on the end of the DataProcess.
Transitions == [to : Steps, hooks : SUBSET Hooks, guard : BOOLEAN]

IsPlay(p) ==
    /\ p.anchor \in Steps
    /\ p.final \cup p.silent \cup p.hosts \cup p.altering \subseteq Steps
    /\ Cardinality(p.hosts) <= 1 /\ p.hosts \cap p.silent = {}
    /\ p.next \in [Steps -> Seq(Transitions)]
    /\ \A s \in Steps : \A k \in DOMAIN p.next[s] :
        /\ p.next[s][k].guard => p.next[s][k].hooks = {}
        /\ p.next[s][k].hooks = {} => p.next[s][k].guard \/ k = Len(p.next[s])
    /\ p.processes \in Seq(Seq(Dmakers)) /\ (p.hosts # {} => p.processes # <<>>)
    /\ \A k \in DOMAIN p.processes : IsChain(p.processes[k])
    /\ {p.regen, p.reset} \subseteq BOOLEAN

ASSUME ScenarioAssumption == Plays # {} /\ \A p \in Plays : IsPlay(p)

VARIABLES
    play,      \* the scenario
    pc,        \* where the data of the current step is
    cur,       \* _current
    calls,     \* _callbacks_pending of each transition
    blocked,   \* the steps that are blocked
    idx, done, outcome,   \* _process_idx, dp_completed, whether there are outcomes
    back,      \* the hook that resolves the DataProcess
    usable,    \* the data is not marked unusable
    sel, pend, \* tr_selected_idx (0: none), pending_tr_eval
    truth,     \* what the callbacks return in this round
    played, leftover, stale  \* history, see below

process == <<idx, done, outcome, back>>
walk == <<sel, pend, calls>>
playHistory == <<played, leftover, stale>>
scenarioVars == <<play, pc, cur, blocked, process, usable, walk, truth, playHistory>>
vars == <<chainVars, scenarioVars>>

Leaving == play.next[cur]
Trs == DOMAIN Leaving
Qty(tr) == Cardinality(tr.hooks)
Fresh(p) == [s \in Steps |-> [k \in DOMAIN p.next[s] |-> Qty(p.next[s][k])]]

\* transition_on_dp_complete; the variant takes any transition for one.
AnyTransition == Trs # {}
Guarded == \E k \in Trs : Leaving[k].guard

TypeOK ==
    /\ ChainTypeOK
    /\ play \in Plays /\ cur \in Steps /\ blocked \subseteq Steps
    /\ pc \in {"idle", "step1", "dp", "step2", "replace", "ready", "fbk", "final"}
    /\ DOMAIN calls = Steps
    /\ \A s \in Steps : \A k \in DOMAIN play.next[s] : calls[s][k] \in 0..Qty(play.next[s][k])
    /\ idx = 1 \/ idx \in DOMAIN play.processes
    /\ back \in {"step1", "replace"}
    /\ {done, outcome, usable, played, leftover, stale} \subseteq BOOLEAN
    /\ sel \in Trs \cup {0} /\ pend \subseteq Trs /\ truth \subseteq Trs \X Hooks

Begin(p) ==
    /\ pc = "idle" /\ cur = p.anchor /\ calls = Fresh(p) /\ blocked = p.silent
    /\ idx = 1 /\ done = FALSE /\ outcome = FALSE

Init ==
    /\ ChainInit
    /\ play \in Plays /\ Begin(play)
    /\ back = "step1" /\ usable = FALSE /\ sel = 0 /\ pend = {} /\ truth = {}
    /\ played = FALSE /\ leftover = FALSE /\ stale = FALSE
-----------------------------------------------------------------------------
(* __handle_transition_callbacks                                            *)

\* The transitions are tried in order until one of those that can be crossed (0: none).
Crossed(can) == IF can = {} THEN 0 ELSE Min(can)

\* run_callback: once all its callbacks have been called a transition is evaluated from
\* the beginning.
Called(k, hook) ==
    LET n == IF calls[cur][k] = 0 THEN Qty(Leaving[k]) ELSE calls[cur][k]
    IN  IF hook \in Leaving[k].hooks THEN n - 1 ELSE n

Says(k, hook) == hook \in Leaving[k].hooks /\ <<k, hook>> \in truth

\* The variant does not look any more at what precedes the selected transition.
OnlyLater(k, chosen) == k >= chosen
StillToTry(k, chosen) == k <= chosen

\* First what precedes the selected transition and is still to be evaluated, or if there
\* is none all the transitions: guards, those without callback, the others.
After(hook) ==
    LET can(k) == IF Leaving[k].guard THEN done ELSE Leaving[k].hooks = {} \/ Says(k, hook)
        T == IF sel # 0 THEN pend ELSE Trs
        f == Crossed({k \in T : IF sel # 0 THEN Says(k, hook) ELSE can(k)})
        tried == {k \in T : Leaving[k].hooks # {} /\ (f = 0 \/ k <= f)}
        chosen == IF f # 0 THEN f ELSE sel
        now == [k \in Trs |-> IF k \in tried THEN Called(k, hook) ELSE calls[cur][k]]
    IN  [sel |-> chosen, calls |-> [calls EXCEPT ![cur] = now],
         pend |-> {k \in Trs : now[k] > 0 /\ StillToTry(k, chosen)}]

Evaluate(hook) == LET e == After(hook) IN sel' = e.sel /\ calls' = e.calls /\ pend' = e.pend

Forget == sel' = 0 /\ pend' = {} /\ truth' = {} /\ usable' = FALSE

\* The round is given up: the scenario stays at its step.
GiveUp == pc' = "idle" /\ Forget
-----------------------------------------------------------------------------
(* generate_data, and the final step.                                       *)

\* A blocked data skips the sending.
NewData ==
    /\ pc = "idle" /\ cur \notin play.final
    /\ truth' \in SUBSET {t \in Trs \X Hooks :
                           t[2] \in Leaving[t[1]].hooks /\ (cur \in blocked => t[2] = "fbk")}
    /\ pc' = IF cur \in blocked THEN "fbk" ELSE "step1"
    /\ played' = FALSE /\ leftover' = FALSE
    /\ stale' = \E k \in Trs : calls[cur][k] \in 1..Qty(Leaving[k]) - 1
    /\ UNCHANGED <<chainVars, play, cur, blocked, process, usable, walk>>

\* A final step, or the user resets the generator: the next setup() takes a new copy of
\* the scenario; the data makers of its DataProcess stay as they are.
EndScenario ==
    /\ pc = "idle"
    /\ cur' = play.anchor /\ calls' = Fresh(play) /\ blocked' = play.silent
    /\ idx' = 1 /\ done' = FALSE /\ outcome' = FALSE
    /\ played' = FALSE /\ leftover' = FALSE /\ stale' = FALSE
    /\ UNCHANGED <<chainVars, play, pc, back, usable, sel, pend, truth>>
-----------------------------------------------------------------------------
(* handle_data_desc for a DataProcess.                                      *)

\* An unusable data keeps the callbacks only if a transition is there for this case.
Resolved(ok, b) ==
    /\ usable' = ok
    /\ pc' = IF b = "step1" /\ (ok \/ Guarded) THEN "step2" ELSE "ready"

Run(k, b) == Call(play.processes[k], play.reset) /\ idx' = k /\ back' = b /\ pc' = "dp"

\* It has been found completed by the previous hook, or by the previous visit of the step.
Completed(b) ==
    /\ done /\ done' = FALSE /\ Resolved(FALSE, b)
    /\ leftover' = (leftover \/ b = "step1")
    /\ UNCHANGED <<chainVars, idx, outcome, back>>

StepOne ==
    /\ pc = "step1"
    /\ \/ /\ cur \notin play.hosts /\ Resolved(TRUE, "step1")
          /\ UNCHANGED <<chainVars, process, leftover>>
       \/ cur \in play.hosts /\ Completed("step1")
       \/ /\ cur \in play.hosts /\ ~done /\ Run(idx, "step1")
          /\ UNCHANGED <<done, outcome, usable, leftover>>
    /\ UNCHANGED <<play, cur, blocked, walk, truth, played, stale>>

\* The next chain is tried when one yields, and with auto_regen there is always one.
ChainReturns ==
    LET n == Len(play.processes) IN
    /\ pc = "dp" /\ pos = 0
    /\ \/ /\ out = "data" /\ Resolved(TRUE, back)
          /\ outcome' = TRUE /\ UNCHANGED <<chainVars, idx, done, back>>
       \/ /\ out = "none" /\ (idx < n \/ play.regen)
          /\ Run((idx % n) + 1, back) /\ UNCHANGED <<done, outcome, usable>>
       \/ /\ out = "none" /\ idx = n /\ ~play.regen /\ Resolved(FALSE, back)
          /\ idx' = 1 /\ done' = TRUE /\ outcome' = FALSE /\ UNCHANGED <<chainVars, back>>
    /\ UNCHANGED <<play, cur, blocked, walk, truth, playHistory>>

InChain == pc = "dp" /\ ChainStep /\ UNCHANGED scenarioVars

\* do_before_sending, then the transitions; if it did something the data is replaced.
StepTwo ==
    /\ pc = "step2" /\ Evaluate("step2")
    /\ pc' = IF cur \in play.altering \cap play.hosts THEN "replace" ELSE "ready"
    /\ UNCHANGED <<chainVars, play, cur, blocked, process, usable, truth, playHistory>>

\* It blocks its step: the data is not sent.
StepTwoBlocks ==
    /\ pc = "step2" /\ usable /\ cur \in play.altering
    /\ blocked' = blocked \cup {cur} /\ calls' = After("step2").calls
    /\ GiveUp
    /\ UNCHANGED <<chainVars, play, cur, process, playHistory>>

Replace ==
    /\ pc = "replace"
    /\ \/ Completed("replace")
       \/ ~done /\ outcome /\ Resolved(TRUE, "replace") /\ UNCHANGED <<chainVars, process, leftover>>
       \/ ~done /\ ~outcome /\ Run(idx, "replace") /\ UNCHANGED <<done, outcome, usable, leftover>>
    /\ UNCHANGED <<play, cur, blocked, walk, truth, played, stale>>
-----------------------------------------------------------------------------
(* _send_data, the feedback, and the end of the round.                      *)

\* A DataProcess has yielded: the scenario goes on, or the user gets the control back.
Unusable ==
    /\ pc = "ready" /\ ~usable
    /\ \/ Guarded /\ pc' = "final" /\ UNCHANGED <<sel, pend, truth, usable>>
       \/ ~Guarded /\ GiveUp
    /\ UNCHANGED <<chainVars, play, cur, calls, blocked, process, playHistory>>

\* The data is empty, or goes to a target that does not exist.
NotSent ==
    /\ pc = "ready" /\ usable /\ GiveUp
    /\ UNCHANGED <<chainVars, play, cur, calls, blocked, process, playHistory>>

Send ==
    /\ pc = "ready" /\ usable
    /\ pc' = "fbk" /\ Evaluate("sending")
    /\ UNCHANGED <<chainVars, play, cur, blocked, process, usable, truth, playHistory>>

\* The target is stuck: the data is followed by nothing but its after_sending hook.
SendFails ==
    /\ pc = "ready" /\ usable
    /\ GiveUp /\ calls' = After("sending").calls
    /\ UNCHANGED <<chainVars, play, cur, blocked, process, playHistory>>

\* A callback may block its step, or free it; a NoDataStep is never free.
Feedback ==
    /\ pc = "fbk" /\ Evaluate("fbk")
    /\ pc' = "final" /\ played' = TRUE
    /\ \/ UNCHANGED blocked
       \/ /\ \E k \in Trs : "fbk" \in Leaving[k].hooks
          /\ blocked' = IF cur \in blocked THEN blocked \ ({cur} \ play.silent) ELSE blocked \cup {cur}
    /\ UNCHANGED <<chainVars, play, cur, process, usable, truth, leftover, stale>>

\* walk_to forgets the outcomes of the DataProcess of the next step, not that it is completed.
Final ==
    /\ pc = "final" /\ pc' = "idle" /\ Forget
    /\ cur' = IF sel = 0 THEN cur ELSE Leaving[sel].to
    /\ outcome' = (outcome /\ (sel = 0 \/ cur' \notin play.hosts))
    /\ UNCHANGED <<chainVars, play, calls, blocked, idx, done, back, playHistory>>

UserResets == pc = "idle" /\ Reset /\ UNCHANGED scenarioVars

Resolve == InChain \/ ChainReturns

Next ==
    \/ NewData \/ EndScenario \/ StepOne \/ StepTwo \/ StepTwoBlocks \/ Replace
    \/ Unusable \/ NotSent \/ Send \/ SendFails \/ Feedback \/ Final
    \/ InChain \/ ChainReturns \/ UserResets

\* process_data and the loop around it are one thread that nothing stops.
Spec == Init /\ [][Next]_vars /\ WF_vars(Resolve)
-----------------------------------------------------------------------------
(* Properties.                                                              *)

\* scenario.rst: only one transition is chosen, the first one, by order of registration,
\* that can be activated (at least one callback that returns True, or no callback at all).
\* When it leaves a step that was played, whatever the hook each callback is called from,
\* unless an earlier round at this step left the counter of a transition in the middle.
FirstTransition ==
    pc = "final" /\ played /\ ~stale
    => LET can(k) == IF Leaving[k].guard THEN done
                     ELSE Leaving[k].hooks = {} \/ \E h \in Hooks : Says(k, h)
       IN  sel = Crossed({k \in Trs : can(k)})

\* Only the end of a DataProcess makes the scenario leave a step it has not played; except
\* when the DataProcess had been left completed by an earlier visit.
LeavesAfterPlaying ==
    pc = "final" /\ sel # 0 => played \/ Leaving[sel].guard \/ leftover

\* The resolution of a DataProcess ends, although it retries for ever with auto_regen, as
\* long as its data makers can be fed.
ResolveEnds == pc = "dp" ~> pc # "dp" \/ hurt
=============================================================================
