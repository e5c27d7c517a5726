-------------------------- MODULE ProbeSyncProofs --------------------------
(***************************************************************************)
(* What TLAPS proves of ProbeSync, for every set of probes, every choice   *)
(* of the probes that wait for the feedback and every choice of timeouts:  *)
(* type correctness, and, when the data goes to one target, that the       *)
(* framework and the live probes stay in step; and, in its last part, of   *)
(* ProbeLifecycle, the lives of one such probe.                            *)
(***************************************************************************)
EXTENDS ProbeSync, ProbeLives, TLAPS

\* Every step of either side keeps the type of every variable.
LEMMA TypeStep ==
  ASSUME TypeOK, [Next]_vars
  PROVE  TypeOK'
<1> USE ProbeSyncAssumption DEF TypeOK, FmkStates, ProbeStates, Visit, Goto,
        fmkVars, eventVars, ClearArmed, DropStatus, SignalError, ForgetError,
        TargetsLeft
<1>1. CASE Fmk
  <2>1. CASE BeginRound \/ RejectData \/ StartSending \/ AbandonData \/ Report
    BY <2>1 DEF BeginRound, RejectData, StartSending, AbandonData, Report
  <2>2. CASE SendToTarget \/ SendFails
    <3>1. left' \in 0..NTargets
      BY <2>2 DEF SendToTarget, SendFails
    <3> QED BY <2>2, <3>1 DEF SendToTarget, SendFails
  <2>3. CASE EndSending
    BY <2>3 DEF EndSending
  <2>4. ASSUME NEW p \in Probes,
               \/ NotifyReady(p) \/ WaitUntilArmed(p) \/ ArmTimeout(p)
               \/ NotifySend(p)
        PROVE  TypeOK'
    BY <2>4 DEF NotifyReady, WaitUntilArmed, ArmTimeout, NotifySend
  <2>5. ASSUME NEW p \in Probes,
               \/ NotifyError(p) \/ NotifyFbk(p) \/ WaitUntilReady(p)
               \/ StatusTimeout(p) \/ StopProbe(p)
        PROVE  TypeOK'
    BY <2>5 DEF NotifyError, NotifyFbk, WaitUntilReady, StatusTimeout, StopProbe
  <2> QED BY <1>1, <2>1, <2>2, <2>3, <2>4, <2>5 DEF Fmk
<1>2. ASSUME NEW p \in Probes, ThreadCode(p)
      PROVE  TypeOK'
  BY <1>2 DEF ThreadCode, LoopTest, SeeArm, SeeStop, ClearArm, SeeBlocking,
              MissBlocking, SeeError, MissError
<1>3. ASSUME NEW p \in Probes, UserCode(p)
      PROVE  TypeOK'
  BY <1>3 DEF UserCode, ArmReturns, MainReturns, Crash
<1>4. CASE UNCHANGED vars
  BY <1>4 DEF vars
<1> QED BY <1>1, <1>2, <1>3, <1>4 DEF Next

\* Every variable keeps its type, whatever the number of targets.
THEOREM TypeCorrect == Spec => []TypeOK
<1>1. Init => TypeOK
  BY ProbeSyncAssumption DEF Init, TypeOK, FmkStates, ProbeStates
<1> QED BY <1>1, TypeStep, PTL DEF Spec

-----------------------------------------------------------------------------
\* What the sending loop knows of itself when there is one target.
SendingShape ==
    /\ pcF = "send" /\ left = NTargets => outcome = "fine"
    /\ pcF = "notifySend" => left = 0 /\ outcome = "fine" /\ todo \cap AfterFbk = {}
    /\ pcF = "notifySendError" => left = 0 /\ outcome = "error"

IInv == TypeOK /\ SendingShape /\ InStep

LEMMA InitIInv == Init => IInv
  BY ProbeSyncAssumption
  DEF Init, IInv, TypeOK, FmkStates, ProbeStates, SendingShape, InStep, Phase,
      Resting, IsAlive

\* With one target, every step of the framework and of the probes keeps the
\* sending loop's own shape.
LEMMA ShapeStep ==
  ASSUME NTargets = 1, TypeOK, SendingShape, [Next]_vars
  PROVE  SendingShape'
<1> USE DEF TypeOK, SendingShape, Visit, Goto, fmkVars, eventVars, TargetsLeft
<1>1. CASE Fmk
  <2>1. CASE BeginRound \/ RejectData \/ StartSending \/ AbandonData \/ Report
    BY <2>1 DEF BeginRound, RejectData, StartSending, AbandonData, Report
  <2>2. CASE SendToTarget
    BY <2>2 DEF SendToTarget
  <2>3. CASE SendFails \/ EndSending
    BY <2>3 DEF SendFails, EndSending
  <2>4. ASSUME NEW p \in Probes,
               \/ NotifyReady(p) \/ WaitUntilArmed(p) \/ ArmTimeout(p)
               \/ NotifySend(p) \/ NotifyError(p) \/ NotifyFbk(p)
               \/ WaitUntilReady(p) \/ StatusTimeout(p) \/ StopProbe(p)
        PROVE  SendingShape'
    BY <2>4 DEF NotifyReady, WaitUntilArmed, ArmTimeout, NotifySend, NotifyError,
                NotifyFbk, WaitUntilReady, StatusTimeout, StopProbe
  <2> QED BY <1>1, <2>1, <2>2, <2>3, <2>4 DEF Fmk
<1>2. ASSUME NEW p \in Probes, ThreadCode(p) \/ UserCode(p)
      PROVE  SendingShape'
  BY <1>2 DEF ThreadCode, LoopTest, SeeArm, SeeStop, ClearArm, SeeBlocking,
              MissBlocking, SeeError, MissError, UserCode, ArmReturns,
              MainReturns, Crash
<1>3. CASE UNCHANGED vars
  BY <1>3 DEF vars
<1> QED BY <1>1, <1>2, <1>3 DEF Next

\* A step of a probe thread keeps every live probe in step.
LEMMA ThreadStep ==
  ASSUME IInv, NEW p \in Probes, ThreadCode(p) \/ UserCode(p)
  PROVE  InStep'
<1> SUFFICES ASSUME NEW q \in Probes, IsAlive(q)' PROVE Phase(q)'
  BY DEF InStep
<1> USE DEF TypeOK, Goto, fmkVars, eventVars, GoOn, ForgetError
<1>1. /\ UNCHANGED <<fmkVars, stop>>
      /\ q # p => UNCHANGED <<pcP[q], arm[q], armed[q], blocking[q], cont[q],
                             status[q], sent[q], runs[q]>>
  BY DEF IInv, ThreadCode, LoopTest, SeeArm, SeeStop, ClearArm, SeeBlocking,
         MissBlocking, SeeError, MissError, UserCode, ArmReturns, MainReturns,
         Crash
<1>2. CASE q # p
  BY <1>1, <1>2 DEF IInv, InStep, Phase, IsAlive, Resting, Asked, Ready,
         Released, Retrieved
<1>3. CASE q = p
  <2> USE <1>1, <1>3 DEF IInv, Syncing, IsAlive, Phase, Resting, Asked, Ready,
        Released, Retrieved
  <2>1. IsAlive(p) /\ Phase(p) /\ pcP \in [Probes -> ProbeStates]
    BY DEF ThreadCode, LoopTest, SeeArm, SeeStop, ClearArm, SeeBlocking,
           MissBlocking, SeeError, MissError, UserCode, ArmReturns, MainReturns,
           Crash, InStep, IInv
  <2>2. CASE LoopTest(p)
    BY <2>1, <2>2 DEF LoopTest
  <2>3. CASE SeeArm(p) \/ SeeStop(p)
    BY <2>1, <2>3 DEF SeeArm, SeeStop
  <2>4. CASE ClearArm(p)
    BY <2>1, <2>4 DEF ClearArm
  <2>5. CASE SeeBlocking(p)
    BY <2>1, <2>5 DEF SeeBlocking
  <2>6. CASE MissBlocking(p)
    BY <2>1, <2>6 DEF MissBlocking
  <2>7. CASE SeeError(p)
    BY <2>1, <2>7 DEF SeeError
  <2>8. CASE MissError(p)
    BY <2>1, <2>8 DEF MissError
  <2>9. CASE ArmReturns(p)
    BY <2>1, <2>9 DEF ArmReturns
  <2>10. CASE MainReturns(p)
    BY <2>1, <2>10 DEF MainReturns
  <2>11. CASE Crash(p)
    BY <2>1, <2>11 DEF Crash
  <2> QED BY <2>2, <2>3, <2>4, <2>5, <2>6, <2>7, <2>8, <2>9, <2>10, <2>11
          DEF ThreadCode, UserCode
<1> QED BY <1>2, <1>3

\* A step of the framework thread that visits probe p touches only the events
\* of p, and the step keeps every live probe in step.
LEMMA VisitStep ==
  ASSUME NTargets = 1, IInv, NEW p \in Probes,
         \/ NotifyReady(p) \/ WaitUntilArmed(p) \/ ArmTimeout(p)
         \/ NotifySend(p) \/ NotifyError(p) \/ NotifyFbk(p)
         \/ WaitUntilReady(p) \/ StatusTimeout(p) \/ StopProbe(p)
  PROVE  InStep'
<1> SUFFICES ASSUME NEW q \in Probes, IsAlive(q)' PROVE Phase(q)'
  BY DEF InStep
<1> USE DEF Visit, eventVars, Seen, ClearArmed, DropStatus, SignalError
<1>1. TypeOK /\ SendingShape /\ IsAlive(q) /\ Phase(q)
  BY DEF IInv, InStep, TypeOK, IsAlive, NotifyReady, WaitUntilArmed, ArmTimeout,
         NotifySend, NotifyError, NotifyFbk, WaitUntilReady, StatusTimeout,
         StopProbe
<1> USE <1>1, ProbeSyncAssumption DEF IsAlive, Phase, Syncing, Resting, Asked,
      Ready, Released, Retrieved
<1>2. CASE NotifyReady(p)
  BY <1>2 DEF NotifyReady, TypeOK
<1>3. CASE WaitUntilArmed(p)
  BY <1>3 DEF WaitUntilArmed, TypeOK
<1>4. CASE ArmTimeout(p)
  BY <1>4 DEF ArmTimeout, TypeOK
<1>5. CASE NotifySend(p)
  BY <1>5 DEF NotifySend, TypeOK, SendingShape
<1>6. CASE NotifyError(p)
  BY <1>6 DEF NotifyError, TypeOK, SendingShape
<1>7. CASE NotifyFbk(p)
  BY <1>7 DEF NotifyFbk, TypeOK
<1>8. CASE WaitUntilReady(p)
  BY <1>8 DEF WaitUntilReady, TypeOK
<1>9. CASE StatusTimeout(p)
  BY <1>9 DEF StatusTimeout, TypeOK
<1>10. CASE StopProbe(p)
  BY <1>10 DEF StopProbe, TypeOK, fmkVars
<1> QED BY <1>2, <1>3, <1>4, <1>5, <1>6, <1>7, <1>8, <1>9, <1>10

\* The other steps of the framework thread touch no event.
LEMMA FmkStep ==
  ASSUME NTargets = 1, IInv,
         \/ BeginRound \/ RejectData \/ StartSending \/ AbandonData
         \/ SendToTarget \/ SendFails \/ EndSending \/ Report
  PROVE  InStep'
<1> SUFFICES ASSUME NEW q \in Probes, IsAlive(q)' PROVE Phase(q)'
  BY DEF InStep
<1> USE DEF Visit, eventVars, TargetsLeft
<1>1. /\ TypeOK /\ SendingShape /\ IsAlive(q) /\ Phase(q)
      /\ UNCHANGED <<pcP, arm, armed, blocking, cont, status, stop, runs>>
  BY DEF IInv, InStep, IsAlive, BeginRound, RejectData, StartSending, AbandonData,
         SendToTarget, SendFails, EndSending, Report
<1> USE <1>1, ProbeSyncAssumption DEF IsAlive, Phase, Syncing, Resting, Asked,
      Ready, Released, Retrieved
<1>2. CASE BeginRound \/ RejectData
  BY <1>2 DEF BeginRound, RejectData
<1>3. CASE StartSending
  BY <1>3 DEF StartSending
<1>4. CASE AbandonData
  BY <1>4 DEF AbandonData
<1>5. CASE SendToTarget
  <2>1. left = NTargets /\ left' = 0 /\ left' # NTargets
    BY <1>5 DEF SendToTarget, TypeOK
  <2> QED BY <1>5, <2>1 DEF SendToTarget, SendingShape
<1>6. CASE SendFails
  <2>1. left = NTargets /\ left' = 0
    BY <1>6 DEF SendFails, TypeOK
  <2> QED BY <1>6, <2>1 DEF SendFails
<1>7. CASE EndSending
  BY <1>7 DEF EndSending, TypeOK
<1>8. CASE Report
  BY <1>8 DEF Report
<1> QED BY <1>2, <1>3, <1>4, <1>5, <1>6, <1>7, <1>8

\* With one target, every step keeps them in step.
LEMMA Inductive == ASSUME NTargets = 1 PROVE Spec => []IInv
<1>1. Init => IInv
  BY InitIInv
<1>2. IInv /\ [Next]_vars => IInv'
  <2> SUFFICES ASSUME IInv, [Next]_vars PROVE IInv'
    OBVIOUS
  <2>1. TypeOK' /\ SendingShape'
    BY TypeStep, ShapeStep DEF IInv
  <2>2. InStep'
    <3>1. CASE UNCHANGED vars
      BY <3>1 DEF vars, IInv, InStep, Phase, IsAlive, Resting, Asked, Ready,
                  Released, Retrieved
    <3> QED BY <3>1, ThreadStep, VisitStep, FmkStep DEF Next, Fmk
  <2> QED BY <2>1, <2>2 DEF IInv
<1> QED BY <1>1, <1>2, PTL DEF Spec

\* With one target, no event is left over from an earlier round: the framework
\* and every live probe agree on how far the round has come (monitor.py,
\* BlockingProbeUser; plumbing.py, _send_data and send_data_and_log).
THEOREM Rendezvous == ASSUME NTargets = 1 PROVE Spec => []InStep
<1>1. IInv => InStep
  BY DEF IInv
<1> QED BY <1>1, Inductive, PTL

\* With one target, every live probe has returned from arm() when the data is
\* handed to the target.
THEOREM ArmedFirst == ASSUME NTargets = 1 PROVE Spec => []ArmedBeforeSending
<1>1. InStep => ArmedBeforeSending
  BY DEF InStep, Phase, Ready, ArmedBeforeSending
<1> QED BY <1>1, Rendezvous, PTL

\* With one target, no live probe runs main() before the data it was armed for
\* has reached the target.
THEOREM MainFollows == ASSUME NTargets = 1 PROVE Spec => []MainAfterSending
<1>1. ASSUME TypeOK, InStep, NEW p \in Probes, pcP[p] = "main", IsAlive(p)
      PROVE  sent[p]
  <2>1. Phase(p)
    BY <1>1 DEF InStep
  <2>2. pcF \in FmkStates /\ outcome \in {"fine", "error"}
    BY <1>1 DEF TypeOK
  <2> QED BY <1>1, <2>1, <2>2 DEF Phase, Resting, Asked, Ready, Released,
             Retrieved, Syncing, FmkStates
<1>2. TypeOK /\ InStep => MainAfterSending
  BY <1>1 DEF MainAfterSending
<1> QED BY <1>2, TypeCorrect, Rendezvous, PTL

\* With one target, the statuses the framework reads were computed by exactly
\* one run of main() for the data just sent.
THEOREM FreshStatus == ASSUME NTargets = 1 PROVE Spec => []StatusIsOfThisRound
<1>1. InStep => StatusIsOfThisRound
  BY DEF InStep, Phase, Retrieved, StatusIsOfThisRound
<1> QED BY <1>1, Rendezvous, PTL

\* With one target, and waits that only time out on a probe that cannot go on by
\* itself, a probe that is given up is inside the method the error names: the
\* rendezvous never makes the two threads wait for each other (monitor.py,
\* _wait_for_probe and blocking_methods).
THEOREM NoMutualWait ==
  ASSUME NTargets = 1, EarlyTimeout = FALSE
  PROVE  Spec => StuckMethodIsRight
<1> DEFINE Right == \A p \in Probes : /\ ArmTimeout(p) => pcP[p] = "arm"
                                      /\ StatusTimeout(p) => pcP[p] = "main"
<1>1. ASSUME IInv, NEW p \in Probes, ArmTimeout(p)  PROVE pcP[p] = "arm"
  <2>1. pcF = "waitArmed" /\ p \in todo /\ ~armed[p] /\ IsAlive(p) /\ Stuck(p)
    BY <1>1 DEF ArmTimeout, GivesUp
  <2>2. Asked(p)  BY <1>1, <2>1 DEF IInv, InStep, Phase
  <2> QED BY <2>1, <2>2 DEF Asked, Stuck, Syncing, IsAlive, GoOn
<1>2. ASSUME IInv, NEW p \in Probes, StatusTimeout(p)  PROVE pcP[p] = "main"
  <2>1. pcF = "waitReady" /\ p \in todo /\ ~status[p] /\ IsAlive(p) /\ Stuck(p)
    BY <1>2 DEF StatusTimeout, GivesUp
  <2>2. Released(p)  BY <1>2, <2>1 DEF IInv, InStep, Phase
  <2> QED BY <2>1, <2>2 DEF Released, Stuck, Syncing, IsAlive, GoOn
<1>3. IInv => Right  BY <1>1, <1>2
<1>4. Spec => []IInv  BY Inductive
<1> QED BY <1>3, <1>4, PTL DEF StuckMethodIsRight
-----------------------------------------------------------------------------
(***************************************************************************)
(* The lives of one probe (ProbeLifecycle): its start() and stop(), where  *)
(* the rendezvous above is one step of its main(), for any number of       *)
(* restarts, also while earlier threads are running. The mark              *)
(* Probe._started, which the threads and the framework test and reset      *)
(* without a lock, loses a stop() that the probe is owed only when a       *)
(* thread ran beside a later one.                                          *)
(*                                                                         *)
(* OwedStopIsPossible is not inductive: the mark is reset by a step that   *)
(* looked at it two steps before. Harmless says what whoever is about to   *)
(* reset it still knows, and Alone that nobody is late as long as only the *)
(* last thread made is alive.                                              *)
(***************************************************************************)
\* Whoever is about to reset the mark has called stop(), and no start() was called since,
\* unless he is late.
Harmless == \A who \in Life!Resetting : who \in late \/ ~owes

\* The framework asks the last thread to stop before it stops the probe.
AskedBefore == pcM \in {"stopTest", "stopCall", "stopReset", "forget"} => stopEvt

\* Only the last thread made is alive, and it cannot mark the probe while the framework
\* stops it.
Alone ==
    /\ late = {} /\ ~torn /\ ~spoilt
    /\ \A t \in Life!Threads :
         /\ t # made => Life!Gone(t)
         /\ pcT[t] = "mark" => ~started /\ pcM \notin {"stopCall", "stopReset"}
         /\ pcT[t] = "enter" /\ pcM \in {"stopCall", "stopReset"} => started

\* OwedStopIsPossible and WorkingIsStarted, the latter also when the thread is about to
\* look at the stop event.
Marked ==
    /\ owes => started \/ torn
    /\ \A t \in Life!Threads :
         t = made /\ pcT[t] \in {"start", "notify", "loop", "main"} /\ ~stopEvt => started \/ spoilt

\* A thread that is not made yet does nothing.
Unmade == \A t \in Life!Threads : t > made => pcT[t] = "none"

LifeIInv ==
    /\ Life!TypeOK /\ late \subseteq Life!Resetting /\ Unmade
    /\ Harmless /\ AskedBefore /\ Marked /\ (~overlap => Alone)

-----------------------------------------------------------------------------
\* The framework is none of the threads.
LEMMA FrameworkApart == Life!Framework \notin Life!Threads
BY LifeAssumption DEF Life!Framework, Life!Threads

\* A probe that was never started.
LEMMA LifeInit == Life!Init => LifeIInv
<1> SUFFICES ASSUME Life!Init PROVE LifeIInv  OBVIOUS
<1>1. Life!TypeOK
  <2>1. 0 \in 0..MaxStarts  BY LifeAssumption
  <2>2. pcT \in [Life!Threads -> Life!ThreadStates]
    BY DEF Life!Init, Life!ThreadStates
  <2> QED BY <2>1, <2>2 DEF Life!Init, Life!TypeOK, Life!FmkStates
<1>2. Life!Resetting = {}  BY DEF Life!Init, Life!Resetting
<1>3. Harmless /\ AskedBefore /\ Marked /\ Alone /\ late \subseteq Life!Resetting
  BY <1>2 DEF Life!Init, Harmless, AskedBefore, Marked, Alone, Life!Gone
<1>4. Unmade  BY DEF Life!Init, Unmade
<1> QED BY <1>1, <1>3, <1>4 DEF LifeIInv

\* The steps of the framework thread that neither make a thread nor reset the mark.
LEMMA LifeFmkStep ==
  ASSUME LifeIInv,
         \/ Life!StartRefused \/ Life!InitSeen \/ Life!InitTimeout
         \/ Life!StopProbe \/ Life!StopAllProbes
         \/ Life!FmkStopTest \/ Life!FmkStopCall
         \/ Life!Forget \/ Life!Return
  PROVE  LifeIInv'
<1> USE LifeAssumption DEF LifeIInv, Life!events, Life!races, Life!StartRefused,
            Life!InitSeen, Life!InitTimeout, Life!StopProbe, Life!StopAllProbes,
            Life!FmkStopTest, Life!FmkStopCall, Life!Forget,
            Life!Return, Life!BeginStop
<1>1. Life!TypeOK'  BY DEF Life!TypeOK, Life!FmkStates
<1>2. /\ Life!Resetting \subseteq Life!Resetting'
      /\ \A who \in Life!Resetting' : who \in Life!Resetting \/ ~owes'
  BY DEF Life!Resetting
<1>3. Harmless' /\ (late \subseteq Life!Resetting)'  BY <1>2 DEF Harmless
<1>4. AskedBefore' /\ Marked'  BY DEF AskedBefore, Marked
<1>5. (~overlap => Alone)' /\ Unmade'  BY DEF Alone, Life!Gone, Unmade
<1> QED BY <1>1, <1>3, <1>4, <1>5

\* The framework resets the mark.
LEMMA LifeResetStep ==
  ASSUME LifeIInv, Life!FmkStopReset
  PROVE  LifeIInv'
<1> USE DEF LifeIInv, Life!events, Life!FmkStopReset, Life!Reset
<1>1. Life!TypeOK'  BY DEF Life!TypeOK, Life!FmkStates
<1>2. Life!Framework \in Life!Resetting /\ Life!Resetting' = Life!Resetting \ {Life!Framework}
  BY FrameworkApart DEF Life!Resetting
<1>3. Harmless' /\ (late \subseteq Life!Resetting)'  BY <1>2 DEF Harmless
<1>4. AskedBefore' /\ Marked'
  <2>1. Life!Framework \in late \/ ~owes  BY <1>2 DEF Harmless
  <2> QED BY <2>1 DEF AskedBefore, Marked
<1>5. (~overlap => Alone)' /\ Unmade'  BY DEF Alone, Life!Gone, Unmade
<1> QED BY <1>1, <1>3, <1>4, <1>5

\* A new life of the probe.
LEMMA LifeStartStep ==
  ASSUME LifeIInv, Life!StartProbe
  PROVE  LifeIInv'
<1> USE LifeAssumption DEF LifeIInv, Life!StartProbe
<1>1. made \in Nat /\ made + 1 \in Life!Threads /\ made' = made + 1
  BY DEF Life!TypeOK, Life!Threads
<1>2. \A t \in Life!Threads : pcT'[t] = IF t = made' THEN "enter" ELSE pcT[t]
  BY <1>1 DEF Life!TypeOK
<1>3. Life!TypeOK'
  <2>1. pcT' \in [Life!Threads -> Life!ThreadStates]
    BY DEF Life!TypeOK, Life!ThreadStates
  <2>2. made' \in 0..MaxStarts /\ cur' = made'
    BY <1>1 DEF Life!NewThread, Life!Threads
  <2> QED BY <2>1, <2>2 DEF Life!TypeOK, Life!FmkStates
<1>4. Life!Resetting' = Life!Resetting
  <2>1. pcT[made + 1] = "none"  BY <1>1 DEF Unmade
  <2>2. \A t \in Life!Threads : pcT'[t] = "stopReset" <=> pcT[t] = "stopReset"
    BY <1>1, <1>2, <2>1
  <2> QED BY <2>2 DEF Life!Resetting
<1>5. Harmless' /\ (late \subseteq Life!Resetting)'  BY <1>4 DEF Harmless
<1>6. AskedBefore' /\ Marked'  BY <1>2 DEF AskedBefore, Marked
<1>7. Unmade'
  <2> SUFFICES ASSUME NEW t \in Life!Threads, t > made' PROVE pcT'[t] = "none"  BY DEF Unmade
  <2>1. t > made /\ t # made'  BY <1>1 DEF Life!Threads
  <2> QED BY <1>2, <2>1 DEF Unmade
<1>8. (~overlap => Alone)'
  <2> SUFFICES ASSUME ~overlap' PROVE Alone'  OBVIOUS
  <2>1. \A t \in Life!Threads : Life!Gone(t)  OBVIOUS
  <2>2. Life!Resetting = {}  BY <2>1 DEF Life!Resetting, Life!Gone
  <2>3. late' = {} /\ ~torn' /\ ~spoilt'
    BY <2>2 DEF Alone
  <2>4. ASSUME NEW t \in Life!Threads
        PROVE /\ t # made' => Life!Gone(t)'
              /\ pcT'[t] # "mark" /\ pcM' = "waitInit"
    BY <1>2, <2>1, <2>4 DEF Life!Gone
  <2> QED BY <2>3, <2>4 DEF Alone
<1> QED BY <1>3, <1>5, <1>6, <1>7, <1>8

\* A thread marks the probe and calls start(): whoever is about to reset the mark is late.
LEMMA LifeMarkStep ==
  ASSUME LifeIInv, NEW t \in Life!Threads, Life!Mark(t)
  PROVE  LifeIInv'
<1> USE LifeAssumption DEF LifeIInv, Life!events, Life!Mark, Life!MarkFirst, Life!Goto
<1>1. \A u \in Life!Threads : pcT'[u] = IF u = t THEN "start" ELSE pcT[u]
  BY DEF Life!TypeOK
<1>2. Life!Resetting' = Life!Resetting  BY <1>1 DEF Life!Resetting
<1>3. Life!TypeOK'  BY <1>1 DEF Life!TypeOK, Life!ThreadStates, Life!Resetting
<1>4. Harmless' /\ (late \subseteq Life!Resetting)'  BY <1>2 DEF Harmless
<1>5. AskedBefore' /\ Marked' /\ Unmade'  BY <1>1 DEF AskedBefore, Marked, Unmade
<1>6. (~overlap => Alone)'
  <2> SUFFICES ASSUME ~overlap PROVE Alone'  OBVIOUS
  <2>1. t = made  BY DEF Alone, Life!Gone
  <2>2. Life!Resetting = {}
    <3>1. \A u \in Life!Threads : pcT[u] # "stopReset"  BY <2>1 DEF Alone, Life!Gone
    <3>2. pcM # "stopReset"  BY DEF Alone
    <3> QED BY <3>1, <3>2 DEF Life!Resetting
  <2> QED BY <1>1, <2>1, <2>2 DEF Alone, Life!Gone
<1> QED BY <1>3, <1>4, <1>5, <1>6

\* A thread resets the mark.
LEMMA LifeStopResetStep ==
  ASSUME LifeIInv, NEW t \in Life!Threads, Life!StopReset(t)
  PROVE  LifeIInv'
<1> USE LifeAssumption DEF LifeIInv, Life!events, Life!StopReset, Life!Reset, Life!Goto
<1>1. \A u \in Life!Threads : pcT'[u] = IF u = t THEN "ended" ELSE pcT[u]
  BY DEF Life!TypeOK
<1>2. t \in Life!Resetting /\ Life!Resetting' = Life!Resetting \ {t}
  BY <1>1, FrameworkApart DEF Life!Resetting
<1>3. Life!TypeOK'  BY <1>1 DEF Life!TypeOK, Life!ThreadStates
<1>4. Harmless' /\ (late \subseteq Life!Resetting)'  BY <1>2 DEF Harmless
<1>5. AskedBefore' /\ Unmade'  BY <1>1 DEF AskedBefore, Unmade
<1>6. Marked'
  <2>1. owes' => torn'  BY <1>2 DEF Harmless
  <2>2. t # made => spoilt'  OBVIOUS
  <2>3. ASSUME NEW u \in Life!Threads, u = made, pcT'[u] \in {"start", "notify", "loop", "main"}
        PROVE spoilt'
    <3>1. pcT'[u] # "ended"  BY <2>3
    <3>2. u # t  BY <1>1, <3>1
    <3> QED BY <2>2, <2>3, <3>2
  <2> QED BY <2>1, <2>3 DEF Marked
<1>7. (~overlap => Alone)'
  <2> SUFFICES ASSUME ~overlap PROVE Alone'  OBVIOUS
  <2>1. t = made  BY DEF Alone, Life!Gone
  <2>2. late' = {} /\ ~torn' /\ ~spoilt'  BY <2>1 DEF Alone
  <2>3. \A u \in Life!Threads : u # made => Life!Gone(u)'
    BY <1>1, <2>1 DEF Alone, Life!Gone
  <2>4. ASSUME NEW u \in Life!Threads
        PROVE  /\ pcT'[u] = "mark" => ~started' /\ pcM' \notin {"stopCall", "stopReset"}
               /\ pcT'[u] # "enter" \/ pcM' \notin {"stopCall", "stopReset"}
    <3>1. CASE u = t  BY <1>1, <3>1
    <3>2. CASE u # t
      <4>1. pcT'[u] = pcT[u] /\ Life!Gone(u)  BY <1>1, <2>1, <3>2 DEF Alone
      <4> QED BY <4>1 DEF Life!Gone
    <3> QED BY <3>1, <3>2
  <2> QED BY <2>2, <2>3, <2>4 DEF Alone
<1> QED BY <1>3, <1>4, <1>5, <1>6, <1>7

\* The other steps of a thread, which leave the mark alone.
LEMMA LifeThreadStep ==
  ASSUME LifeIInv, NEW t \in Life!Threads,
         \/ Life!Enter(t) \/ Life!Notify(t) \/ Life!Loop(t) \/ Life!StopTest(t)
         \/ Life!UserCode(t)
  PROVE  LifeIInv'
<1> USE LifeAssumption DEF LifeIInv, Life!events, Life!races, Life!UserCode, Life!Enter,
            Life!Notify, Life!Loop, Life!GoOn, Life!StopTest, Life!StopOrLeave,
            Life!StartReturns, Life!MainReturns, Life!StopCall, Life!Goto
<1>1. /\ \A u \in Life!Threads : u # t => pcT'[u] = pcT[u]
      /\ t \in Life!Threads /\ pcT[t] # "none" /\ pcT[t] # "stopReset"
      /\ UNCHANGED <<made, cur, pcM, started, stopEvt, Life!races>>
  BY DEF Life!TypeOK
<1>2. Life!TypeOK'  BY DEF Life!TypeOK, Life!ThreadStates
<1>3. /\ Life!Resetting \subseteq Life!Resetting'
      /\ \A who \in Life!Resetting' : who \in Life!Resetting \/ ~owes'
  BY <1>1 DEF Life!Resetting, Life!TypeOK
<1>4. owes' => owes  OBVIOUS
<1>5. Harmless' /\ (late \subseteq Life!Resetting)'  BY <1>3, <1>4 DEF Harmless
<1>6. AskedBefore' /\ Unmade'  BY <1>1 DEF AskedBefore, Unmade
<1>7. Marked'
  <2>1. pcT'[t] \in {"start", "notify", "loop", "main"} /\ ~stopEvt =>
            started \/ pcT[t] \in {"start", "notify", "loop", "main"}
    BY DEF Life!TypeOK
  <2> QED BY <1>1, <1>4, <2>1 DEF Marked
<1>8. (~overlap => Alone)'
  <2> SUFFICES ASSUME ~overlap PROVE Alone'  OBVIOUS
  <2>1. t = made  BY <1>1 DEF Alone, Life!Gone
  <2>2. /\ pcT'[t] = "mark" => ~started /\ pcM \notin {"stopCall", "stopReset"}
        /\ pcT'[t] # "enter"
    BY DEF Alone, Life!TypeOK
  <2> QED BY <1>1, <2>1, <2>2 DEF Alone, Life!Gone
<1> QED BY <1>2, <1>5, <1>6, <1>7, <1>8

\* Every step keeps the invariant.
LEMMA LifeStep == LifeIInv /\ [Life!Next]_(Life!vars) => LifeIInv'
<1> SUFFICES ASSUME LifeIInv, [Life!Next]_(Life!vars) PROVE LifeIInv'  OBVIOUS
<1>1. CASE Life!Fmk
  BY <1>1, LifeFmkStep, LifeResetStep, LifeStartStep DEF Life!Fmk
<1>2. CASE \E t \in Life!Threads : Life!ThreadCode(t) \/ Life!UserCode(t)
  BY <1>2, LifeThreadStep, LifeMarkStep, LifeStopResetStep DEF Life!ThreadCode
<1>3. CASE UNCHANGED Life!vars
  BY <1>3
  DEF Life!vars, Life!events, Life!races, LifeIInv, Life!TypeOK, Alone, Life!Gone, Unmade,
      Harmless, Life!Resetting, AskedBefore, Marked
<1> QED BY <1>1, <1>2, <1>3 DEF Life!Next

\* The invariant of the lives of a probe.
LEMMA LifeInductive == Life!Spec => []LifeIInv
  BY LifeInit, LifeStep, PTL DEF Life!Spec

-----------------------------------------------------------------------------
\* Every variable keeps its type, through any number of starts and stops of the probe
\* (monitor.py, ProbeUser), also when it is restarted while earlier threads are running.
THEOREM LifeTypes == Life!Spec => []Life!TypeOK
  BY LifeInductive, PTL DEF LifeIInv

\* Through any number of restarts, a probe whose start() was called and whose stop() was not
\* is marked as started, so that the next Probe._stop calls it, unless a thread that had
\* called stop() before that start() reset the mark after it, which takes a probe started
\* while an earlier thread of it was running (monitor.py, Probe._start and Probe._stop).
THEOREM OwedStop == Life!Spec => []OwedStopIsPossible
<1>1. LifeIInv => OwedStopIsPossible
  BY DEF LifeIInv, Marked, Alone, OwedStopIsPossible, Life!OwedStopIsPossible
<1> QED BY <1>1, LifeInductive, PTL

\* Through any number of restarts, the probe of the last thread made is marked as started
\* while the thread works and was not told to stop, unless a thread of an earlier life, which
\* was running when the probe was started again, reset the mark since (monitor.py,
\* Probe._start and Probe._stop).
THEOREM Working == Life!Spec => []WorkingIsStarted
<1>1. LifeIInv => WorkingIsStarted
  BY DEF LifeIInv, Marked, Alone, WorkingIsStarted, Life!WorkingIsStarted
<1> QED BY <1>1, LifeInductive, PTL
=============================================================================
