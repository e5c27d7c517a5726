-------------------------- MODULE SendCycleProofs --------------------------
(***************************************************************************)
(* Proofs about SendCycle, for any targets, any sizes of burst and any     *)
(* sequence of rounds of the two loops: no data stays pending, and no      *)
(* verdict of a recovery is lost but where the code drops it.              *)
(*                                                                         *)
(* VerdictsAreKept looks at the end of a round only; Kept says what the    *)
(* verdicts are worth at every step, in the loops over the targets too.    *)
(***************************************************************************)
EXTENDS SendCycle, TLAPS

\* Which steps belong to which part of a round.
Placed ==
    /\ pc # "idle" => mode \in {"shell", "operator"}
    /\ pc = "collect" => stage = "before"
    /\ pc \in {"delay", "send", "unsol", "log", "report"} => stage = "after"
    /\ pc = "unsol" => mode = "shell"
    /\ pc = "report" => mode = "operator"
    /\ pc \in {"wait", "probes"} => stage # "last"

\* A round goes to the sending only while all is well, and the loop over the
\* probes is skipped in the middle of a burst.
WellSoFar ==
    /\ pc = "send" => ok
    /\ pc = "probes" /\ stage = "after" /\ ~AtBoundary => last

\* Data stays behind only after a data went to an unknown target.
NothingPending == ~misled => pending = {}

\* A recovery that failed shows in the verdict of the round, or in that of the
\* loop the step is in, or it is among those known to be lost.
Kept == ok /\ (pc \in {"wait", "probes"} => last) => failed \subseteq masked

IInv == TypeOK /\ Placed /\ WellSoFar /\ NothingPending /\ Kept

-----------------------------------------------------------------------------
LEMMA OrderFacts == Len(Order) \in Nat /\ 1 \in 1..Len(Order) + 1
<1>1. Len(Order) \in Nat  BY SendCycleAssumption
<1> QED BY <1>1

\* NextStep is defined wherever a step of the code uses it.
LEMMA BeforeFollows ==
  ASSUME stage = "before", pc \in {"collect", "wait", "fbk", "probes"}
  PROVE  /\ NextStep \in {"wait", "fbk", "probes", "decide"}
         /\ pc # "collect" => NextStep # "wait"
BY DEF NextStep, Follow

LEMMA LastFollows ==
  ASSUME stage = "last", pc = "fbk"
  PROVE  NextStep = "end"
BY DEF NextStep, Follow

LEMMA ShellFollows ==
  ASSUME stage = "after", mode = "shell",
         pc \in {"delay", "unsol", "wait", "log", "fbk", "probes"}
  PROVE  /\ NextStep \in {"send", "wait", "log", "fbk", "probes", "end"}
         /\ NextStep = "send" => pc = "delay"
BY DEF NextStep, Follow

LEMMA OperatorFollows ==
  ASSUME stage = "after", mode = "operator",
         pc \in {"log", "wait", "fbk", "probes", "report", "delay"}
  PROVE  NextStep \in {"wait", "fbk", "probes", "report", "delay", "end"}
BY DEF NextStep, Follow

LEMMA InitIInv == Init => IInv
<1> SUFFICES ASSUME Init PROVE IInv  OBVIOUS
<1>1. TypeOK
  <2>1. burst \in Bursts /\ countdown \in 0..burst
    BY SendCycleAssumption DEF Init
  <2>2. ready \in [Targets -> BOOLEAN] /\ pending \subseteq Targets
    BY DEF Init
  <2>3. since \in 0..MaxSince  BY SendCycleAssumption DEF Init
  <2>4. i \in 1..Len(Order) + 1  BY OrderFacts DEF Init
  <2>5. /\ mode \in {"none", "shell", "operator"} /\ pc \in Steps \cup {"idle", "plan"}
        /\ stage \in {"before", "after", "last"}
        /\ {sendErr, stopSend, ok, last, misled, crashed} \subseteq BOOLEAN
        /\ recovered \cup failed \cup masked \subseteq Targets
    BY DEF Init
  <2> QED BY <2>1, <2>2, <2>3, <2>4, <2>5 DEF TypeOK
<1>2. Placed /\ WellSoFar /\ NothingPending /\ Kept
  BY DEF Init, Placed, WellSoFar, NothingPending, Kept
<1> QED BY <1>1, <1>2 DEF IInv

\* The user, and the steps that change nothing but where the loops are.
LEMMA UserStep ==
  ASSUME IInv,
         \/ \E n \in Bursts : SetBurst(n)
         \/ \E t \in Targets : Settle(t)
         \/ \E m \in {"shell", "operator"} : Launch(m)
         \/ PlanData \/ PlanStop \/ OperatorCrashes
  PROVE  IInv'
<1> USE SendCycleAssumption, OrderFacts
    DEF IInv, TypeOK, Steps, bursts, flags, verdicts, history, Go, Leave
<1>1. ASSUME NEW n \in Bursts, SetBurst(n) PROVE IInv'
  <2>1. TypeOK'  BY <1>1 DEF SetBurst
  <2>2. (Placed /\ WellSoFar /\ NothingPending /\ Kept)'
    BY <1>1 DEF SetBurst, Placed, WellSoFar, NothingPending, Kept, AtBoundary
  <2> QED BY <2>1, <2>2
<1>2. ASSUME NEW t \in Targets, Settle(t) PROVE IInv'
  <2>1. TypeOK'  BY <1>2 DEF Settle
  <2>2. (Placed /\ WellSoFar /\ NothingPending /\ Kept)'
    BY <1>2 DEF Settle, Placed, WellSoFar, NothingPending, Kept, AtBoundary
  <2> QED BY <2>1, <2>2
<1>3. ASSUME NEW m \in {"shell", "operator"}, Launch(m) PROVE IInv'
  <2>1. TypeOK'  BY <1>3 DEF Launch
  <2>2. (Placed /\ WellSoFar /\ NothingPending /\ Kept)'
    BY <1>3 DEF Launch, Placed, WellSoFar, NothingPending, Kept, AtBoundary
  <2> QED BY <2>1, <2>2
<1>4. CASE PlanData \/ PlanStop \/ OperatorCrashes
  <2>1. TypeOK'  BY <1>4 DEF PlanData, PlanStop, OperatorCrashes
  <2>2. (Placed /\ WellSoFar /\ NothingPending /\ Kept)'
    BY <1>4 DEF PlanData, PlanStop, OperatorCrashes, Placed, WellSoFar,
                NothingPending, Kept, AtBoundary
  <2> QED BY <2>1, <2>2
<1> QED BY <1>1, <1>2, <1>3, <1>4

\* Before the sending.
LEMMA BeforeStep ==
  ASSUME IInv, BeginRound \/ Collect \/ CollectNothing \/ Decide \/ NothingLeft \/ Delay
  PROVE  IInv'
<1> USE SendCycleAssumption, OrderFacts
    DEF IInv, TypeOK, Steps, bursts, flags, verdicts, history, Go, Leave
<1>1. CASE BeginRound \/ CollectNothing \/ Decide \/ NothingLeft
  <2>1. TypeOK'  BY <1>1 DEF BeginRound, CollectNothing, Decide, NothingLeft
  <2>2. (Placed /\ WellSoFar /\ NothingPending /\ Kept)'
    BY <1>1 DEF BeginRound, CollectNothing, Decide, NothingLeft, Placed, WellSoFar,
                NothingPending, Kept, AtBoundary
  <2> QED BY <2>1, <2>2
<1>2. CASE Collect
  <2>1. NextStep \in {"wait", "fbk", "probes", "decide"}
    BY <1>2, BeforeFollows DEF Collect, Placed
  <2>2. ready' \in [Targets -> BOOLEAN]  BY <1>2 DEF Collect
  <2>3. TypeOK'  BY <1>2, <2>1, <2>2 DEF Collect
  <2>4. (Placed /\ WellSoFar /\ NothingPending /\ Kept)'
    BY <1>2, <2>1 DEF Collect, Placed, WellSoFar, NothingPending, Kept, AtBoundary
  <2> QED BY <2>3, <2>4
<1>3. CASE Delay
  <2>1. /\ mode = "shell" => NextStep = "send"
        /\ mode = "operator" => NextStep = "end"
    BY <1>3 DEF Delay, Placed, NextStep, Follow
  <2>2. mode \in {"shell", "operator"} /\ stage = "after"  BY <1>3 DEF Delay, Placed
  <2>3. countdown' \in 0..burst /\ (ok' => ok) /\ ok' \in BOOLEAN
    <3>1. burst \in Nat \ {0} /\ countdown \in 0..burst /\ ok \in BOOLEAN  OBVIOUS
    <3>2. CASE countdown <= 1
      <4>1. countdown' = burst /\ (ok' = ok \/ ok' = FALSE)  BY <1>3, <3>2, Zenon DEF Delay, Over
      <4>2. countdown' \in 0..burst  BY <3>1, <4>1
      <4>3. CASE ok' = ok  BY <3>1, <4>2, <4>3
      <4>4. CASE ok' = FALSE  BY <4>2, <4>4
      <4> QED BY <4>1, <4>3, <4>4
    <3>3. CASE ~(countdown <= 1)  BY <1>3, <3>1, <3>3 DEF Delay, Over
    <3> QED BY <3>2, <3>3
  <2>4. TypeOK'  BY <1>3, <2>1, <2>2, <2>3 DEF Delay
  <2>5. (Placed /\ WellSoFar /\ NothingPending /\ Kept)'
    BY <1>3, <2>1, <2>2, <2>3 DEF Delay, Placed, WellSoFar, NothingPending, Kept, AtBoundary
  <2> QED BY <2>4, <2>5
<1> QED BY <1>1, <1>2, <1>3

\* The sending.
LEMMA SendStep ==
  ASSUME IInv,
         \/ RejectData \/ DataYields \/ Unsolicited
         \/ \E kept \in SUBSET Targets : Misdirect(kept)
         \/ \E dest, stuck \in SUBSET Targets : SendData(dest, stuck)
  PROVE  IInv'
<1> USE SendCycleAssumption, OrderFacts
    DEF IInv, TypeOK, Steps, bursts, flags, verdicts, history, Go
<1>1. CASE RejectData \/ DataYields
  <2>1. TypeOK'  BY <1>1 DEF RejectData, DataYields, SendsNothing
  <2>2. (Placed /\ WellSoFar /\ NothingPending /\ Kept)'
    BY <1>1 DEF RejectData, DataYields, SendsNothing, Placed, WellSoFar,
                NothingPending, Kept, AtBoundary
  <2> QED BY <2>1, <2>2
<1>2. CASE Unsolicited
  <2>1. NextStep = "wait"
    BY <1>2 DEF Unsolicited, Placed, NextStep, Follow
  <2>2. ready' \in [Targets -> BOOLEAN]  BY <1>2 DEF Unsolicited
  <2>3. TypeOK'  BY <1>2, <2>1, <2>2 DEF Unsolicited
  <2>4. (Placed /\ WellSoFar /\ NothingPending /\ Kept)'
    BY <1>2, <2>1 DEF Unsolicited, Placed, WellSoFar, NothingPending, Kept, AtBoundary
  <2> QED BY <2>3, <2>4
<1>3. ASSUME NEW kept \in SUBSET Targets, Misdirect(kept) PROVE IInv'
  <2>1. TypeOK'  BY <1>3 DEF Misdirect, SendsNothing
  <2>2. (Placed /\ WellSoFar /\ NothingPending /\ Kept)'
    BY <1>3 DEF Misdirect, SendsNothing, Placed, WellSoFar, NothingPending, Kept, AtBoundary
  <2> QED BY <2>1, <2>2
<1>4. ASSUME NEW dest \in SUBSET Targets, NEW stuck \in SUBSET Targets, SendData(dest, stuck)
      PROVE  IInv'
  <2>1. ready' \in [Targets -> BOOLEAN]  BY <1>4 DEF SendData
  <2>2. since' \in 0..MaxSince  BY <1>4 DEF SendData
  <2>3. pending' \subseteq pending  BY <1>4 DEF SendData, TakenFirst
  <2>4. /\ pc' \in {"end", "log", "unsol", "wait"} /\ last' = TRUE /\ i' = 1
        /\ pc' = "unsol" => mode = "shell"
        /\ ok' \in BOOLEAN /\ (ok' => ok)
        /\ sendErr' \in BOOLEAN /\ stopSend' \in BOOLEAN
    BY <1>4 DEF SendData, Placed
  <2>5. TypeOK'  BY <1>4, <2>1, <2>2, <2>3, <2>4 DEF SendData
  <2>6. (Placed /\ WellSoFar /\ NothingPending /\ Kept)'
    BY <1>4, <2>3, <2>4 DEF SendData, Placed, WellSoFar, NothingPending, Kept, AtBoundary
  <2> QED BY <2>5, <2>6
<1> QED BY <1>1, <1>2, <1>3, <1>4

\* A target is recovered, or was already.
LEMMA RecoverFacts ==
  ASSUME TypeOK, NEW t \in Targets, NEW verdict \in BOOLEAN, Recover(t, verdict)
  PROVE  /\ ready' \in [Targets -> BOOLEAN]
         /\ recovered' \subseteq Targets /\ failed' \subseteq Targets
         /\ verdict => failed' = failed
         /\ failed \subseteq failed'
<1>1. ready \in [Targets -> BOOLEAN]  BY DEF TypeOK
<1>2. CASE t \in recovered  BY <1>2, <1>1 DEF Recover, TypeOK
<1>3. CASE t \notin recovered
  <2>1. ready' \in [Targets -> BOOLEAN]
    BY <1>1, <1>3 DEF Recover
  <2>2. recovered' = recovered \cup {t} /\ failed' = failed \cup (IF verdict THEN {} ELSE {t})
    BY <1>3 DEF Recover
  <2> QED BY <2>1, <2>2 DEF TypeOK
<1> QED BY <1>2, <1>3

LEMMA TargetFacts == TypeOK /\ ~AtEnd => Target \in Targets /\ i + 1 \in 1..Len(Order) + 1
<1> SUFFICES ASSUME TypeOK, ~AtEnd PROVE Target \in Targets /\ i + 1 \in 1..Len(Order) + 1
  OBVIOUS
<1>1. Len(Order) \in Nat /\ Order \in Seq(Targets)  BY SendCycleAssumption
<1>2. i \in 1..Len(Order)  BY <1>1 DEF TypeOK, AtEnd
<1> QED BY <1>1, <1>2 DEF Target

\* The loops over the targets, after the sending and before it.
LEMMA LoopStep ==
  ASSUME IInv,
         \/ WaitReady
         \/ \E verdict \in BOOLEAN : WaitTimeout(verdict)
         \/ \E bad, verdict \in BOOLEAN : Feedback(bad, verdict) \/ Probes(bad, verdict)
  PROVE  IInv'
<1> USE DEF IInv, bursts, flags, verdicts, history
<1>1. CASE WaitReady
  <2>1. TypeOK'  BY <1>1, TargetFacts DEF WaitReady, TypeOK
  <2>2. (Placed /\ WellSoFar /\ NothingPending /\ Kept)'
    BY <1>1 DEF WaitReady, Placed, WellSoFar, NothingPending, Kept, AtBoundary
  <2> QED BY <2>1, <2>2
<1>2. ASSUME NEW verdict \in BOOLEAN, WaitTimeout(verdict) PROVE IInv'
  <2>1. Target \in Targets /\ i' \in 1..Len(Order) + 1
    BY <1>2, TargetFacts DEF WaitTimeout
  <2>2. /\ ready' \in [Targets -> BOOLEAN]
        /\ recovered' \subseteq Targets /\ failed' \subseteq Targets
        /\ verdict => failed' = failed
    BY <1>2, <2>1, RecoverFacts DEF WaitTimeout
  <2>3. /\ last' = verdict /\ masked' \subseteq Targets
        /\ masked' = IF verdict /\ ~last THEN masked \cup failed ELSE masked
    BY <1>2 DEF WaitTimeout, LastVerdict, TypeOK
  <2>4. TypeOK'  BY <1>2, <2>1, <2>2, <2>3 DEF WaitTimeout, TypeOK
  <2>5. Kept'  BY <1>2, <2>2, <2>3 DEF WaitTimeout, Kept
  <2>6. (Placed /\ WellSoFar /\ NothingPending)'
    BY <1>2 DEF WaitTimeout, Placed, WellSoFar, NothingPending, AtBoundary
  <2> QED BY <2>4, <2>5, <2>6
<1>3. ASSUME NEW bad \in BOOLEAN, NEW verdict \in BOOLEAN, Feedback(bad, verdict) PROVE IInv'
  <2>1. Target \in Targets /\ i' \in 1..Len(Order) + 1
    BY <1>3, TargetFacts DEF Feedback
  <2>2. /\ ready' \in [Targets -> BOOLEAN]
        /\ recovered' \subseteq Targets /\ failed' \subseteq Targets
        /\ ok' \in BOOLEAN /\ (ok' => ok /\ failed' = failed)
    <3>1. CASE bad  BY <1>3, <2>1, <3>1, RecoverFacts DEF Feedback, AndOk, TypeOK
    <3>2. CASE ~bad  BY <1>3, <3>2 DEF Feedback, TypeOK
    <3> QED BY <3>1, <3>2
  <2>3. TypeOK'  BY <1>3, <2>1, <2>2 DEF Feedback, TypeOK
  <2>4. Kept'  BY <1>3, <2>2 DEF Feedback, Kept
  <2>5. (Placed /\ WellSoFar /\ NothingPending)'
    BY <1>3 DEF Feedback, Placed, WellSoFar, NothingPending, AtBoundary
  <2> QED BY <2>3, <2>4, <2>5
<1>4. ASSUME NEW bad \in BOOLEAN, NEW verdict \in BOOLEAN, Probes(bad, verdict) PROVE IInv'
  <2>1. Target \in Targets /\ i' \in 1..Len(Order) + 1
    BY <1>4, TargetFacts DEF Probes
  <2>2. /\ ready' \in [Targets -> BOOLEAN]
        /\ recovered' \subseteq Targets /\ failed' \subseteq Targets
        /\ last' \in BOOLEAN /\ (last' => failed' = failed)
        /\ masked' = IF last' /\ ~last THEN masked \cup failed ELSE masked
    <3>1. CASE bad  BY <1>4, <2>1, <3>1, RecoverFacts DEF Probes, LastVerdict
    <3>2. CASE ~bad  BY <1>4, <3>2 DEF Probes, LastVerdict, TypeOK
    <3> QED BY <3>1, <3>2
  <2>3. masked' \subseteq Targets  BY <2>2 DEF TypeOK
  <2>4. TypeOK'  BY <1>4, <2>1, <2>2, <2>3 DEF Probes, TypeOK
  <2>5. Kept'  BY <1>4, <2>2 DEF Probes, Kept
  <2>6. (Placed /\ WellSoFar /\ NothingPending)'
    BY <1>4 DEF Probes, Placed, WellSoFar, NothingPending, AtBoundary
  <2> QED BY <2>4, <2>5, <2>6
<1> QED BY <1>1, <1>2, <1>3, <1>4

\* Where the steps after a loop lead.
LEMMA NextIsPlaced ==
  ASSUME Placed, stage \in {"before", "after", "last"},
         pc \in {"wait", "log", "fbk", "probes", "report"}
  PROVE  /\ NextStep \in {"wait", "log", "fbk", "probes", "decide", "report", "delay", "end"}
         /\ NextStep \in {"log", "report", "delay"} => stage = "after"
         /\ NextStep = "report" => mode = "operator"
         /\ NextStep \in {"wait", "probes"} => stage # "last"
<1>1. CASE stage = "before"  BY <1>1, BeforeFollows DEF Placed
<1>2. CASE stage = "last"  BY <1>2, LastFollows DEF Placed
<1>3. CASE stage = "after" /\ mode = "shell"  BY <1>3, ShellFollows DEF Placed
<1>4. CASE stage = "after" /\ mode = "operator"  BY <1>4, OperatorFollows DEF Placed
<1> QED BY <1>1, <1>2, <1>3, <1>4 DEF Placed

\* The steps that end a loop over the targets, or the round.
LEMMA EndStep ==
  ASSUME IInv,
         \/ WaitCancelled \/ WaitEnds \/ Log \/ SkipFeedback \/ FeedbackEnds
         \/ ProbesEnd \/ Report \/ EndRound
  PROVE  IInv'
<1> USE OrderFacts DEF IInv, bursts, flags, verdicts, history, Go
<1> DEFINE Onward ==
      /\ NextStep \in {"wait", "log", "fbk", "probes", "decide", "report", "delay", "end"}
      /\ NextStep \in {"log", "report", "delay"} => stage = "after"
      /\ NextStep = "report" => mode = "operator"
      /\ NextStep \in {"wait", "probes"} => stage # "last"
<1>1. CASE WaitCancelled \/ WaitEnds \/ Log
  <2>1. Onward  BY <1>1, NextIsPlaced DEF WaitCancelled, WaitEnds, Log, TypeOK
  <2>2. TypeOK'  BY <1>1, <2>1 DEF WaitCancelled, WaitEnds, Log, TypeOK, Steps
  <2>3. (Placed /\ WellSoFar /\ NothingPending)'
    BY <1>1, <2>1 DEF WaitCancelled, WaitEnds, Log, Placed, WellSoFar, NothingPending, AtBoundary
  <2>4. Kept'  BY <1>1 DEF WaitCancelled, WaitEnds, Log, Kept, TypeOK
  <2> QED BY <2>2, <2>3, <2>4
<1>2. CASE SkipFeedback \/ FeedbackEnds
  <2>1. Onward  BY <1>2, NextIsPlaced DEF SkipFeedback, FeedbackEnds, TypeOK
  <2>2. TypeOK'
    <3>1. since' \in 0..MaxSince /\ crashed' \in BOOLEAN
      <4>1. 0 \in 0..MaxSince  BY SendCycleAssumption
      <4>2. CASE SkipFeedback  BY <4>2 DEF SkipFeedback, TypeOK
      <4>3. CASE FeedbackEnds  BY <4>1, <4>3 DEF FeedbackEnds
      <4> QED BY <1>2, <4>2, <4>3
    <3>2. /\ pc' = NextStep /\ i' = 1 /\ last' = TRUE
          /\ UNCHANGED <<mode, stage, burst, countdown, ready, pending, recovered,
                        sendErr, stopSend, ok, failed, masked, misled>>
      BY <1>2 DEF SkipFeedback, FeedbackEnds
    <3> QED BY <2>1, <3>1, <3>2 DEF TypeOK, Steps
  <2>3. (Placed /\ WellSoFar /\ NothingPending)'
    BY <1>2, <2>1 DEF SkipFeedback, FeedbackEnds, Placed, WellSoFar, NothingPending, AtBoundary
  <2>4. ok' = ok /\ failed' = failed /\ masked' = masked
    BY <1>2 DEF SkipFeedback, FeedbackEnds
  <2>5. pc = "probes" => last
    <3>1. CASE SkipFeedback  BY <3>1, Zenon DEF SkipFeedback, WellSoFar
    <3>2. CASE FeedbackEnds  BY <3>2 DEF FeedbackEnds
    <3> QED BY <1>2, <3>1, <3>2
  <2>6. pc # "wait"  BY <1>2 DEF SkipFeedback, FeedbackEnds
  <2>7. Kept'  BY <2>4, <2>5, <2>6 DEF Kept
  <2> QED BY <2>2, <2>3, <2>7
<1>3. CASE ProbesEnd
  <2>1. Onward  BY <1>3, NextIsPlaced DEF ProbesEnd, TypeOK
  <2>2. TypeOK'  BY <1>3, <2>1 DEF ProbesEnd, TypeOK, Steps
  <2>3. (Placed /\ WellSoFar /\ NothingPending)'
    BY <1>3, <2>1 DEF ProbesEnd, Placed, WellSoFar, NothingPending, AtBoundary
  <2>4. Kept'  BY <1>3 DEF ProbesEnd, Kept, TypeOK
  <2> QED BY <2>2, <2>3, <2>4
<1>4. CASE Report
  <2>1. Onward  BY <1>4, NextIsPlaced DEF Report, TypeOK
  <2>2. ready' \in [Targets -> BOOLEAN] /\ recovered' \subseteq Targets /\ ok' \in BOOLEAN
    BY <1>4 DEF Report, TypeOK
  <2>3. TypeOK'  BY <1>4, <2>1, <2>2 DEF Report, TypeOK, Steps
  <2>4. (Placed /\ WellSoFar /\ NothingPending)'
    BY <1>4, <2>1 DEF Report, Placed, WellSoFar, NothingPending, AtBoundary
  <2>5. Kept'  BY <1>4 DEF Report, Kept
  <2> QED BY <2>3, <2>4, <2>5
<1>5. CASE EndRound
  <2>1. TypeOK'  BY <1>5 DEF EndRound, Leave, TypeOK, Steps
  <2>2. (Placed /\ WellSoFar /\ NothingPending /\ Kept)'
    BY <1>5 DEF EndRound, Leave, Placed, WellSoFar, NothingPending, Kept, AtBoundary
  <2> QED BY <2>1, <2>2
<1> QED BY <1>1, <1>2, <1>3, <1>4, <1>5

LEMMA NextIInv == IInv /\ [Next]_vars => IInv'
<1> SUFFICES ASSUME IInv, [Next]_vars PROVE IInv'  OBVIOUS
<1>1. CASE \/ BeginRound \/ Collect \/ CollectNothing \/ Decide \/ NothingLeft \/ Delay  BY <1>1, BeforeStep
<1>2. CASE \/ RejectData \/ DataYields \/ Unsolicited
           \/ \E kept \in SUBSET Targets : Misdirect(kept)
           \/ \E dest, stuck \in SUBSET Targets : SendData(dest, stuck)
  BY <1>2, SendStep
<1>3. CASE \/ WaitReady
           \/ \E verdict \in BOOLEAN : WaitTimeout(verdict)
           \/ \E bad, verdict \in BOOLEAN : Feedback(bad, verdict) \/ Probes(bad, verdict)
  BY <1>3, LoopStep
<1>4. CASE \/ WaitCancelled \/ WaitEnds \/ Log \/ SkipFeedback \/ FeedbackEnds
           \/ ProbesEnd \/ Report \/ EndRound
  BY <1>4, EndStep
<1>5. CASE \/ \E n \in Bursts : SetBurst(n)
           \/ \E t \in Targets : Settle(t)
           \/ \E m \in {"shell", "operator"} : Launch(m)
           \/ PlanData \/ PlanStop \/ OperatorCrashes
  BY <1>5, UserStep
<1>6. CASE UNCHANGED vars
  BY <1>6 DEF vars, bursts, flags, verdicts, history, IInv, TypeOK, Placed, WellSoFar,
              NothingPending, Kept, AtBoundary
<1> QED BY <1>1, <1>2, <1>3, <1>4, <1>5, <1>6 DEF Next, Round

-----------------------------------------------------------------------------
(* The size of a burst. A sending is counted before it is made by the       *)
(* shell, and after it by an operator; in between since is one ahead of the *)
(* count, or one behind. The last sending of a burst may fail: the count    *)
(* starts again, and the residual feedback of the next round makes up.      *)

\* The sendings counted since the burst began, and those it may have had by now.
Counted == burst - countdown
Allowed == IF AtBoundary THEN burst ELSE Counted

CountGoesOn ==
    /\ countdown >= 1
    /\ pc = "decide" => stage = "before"
    /\ stage = "before" /\ pc \in {"collect", "wait", "fbk"} => AtBoundary

InBetween ==
    /\ pc \in {"idle", "plan", "init", "end"} => AtBoundary \/ since <= Counted
    /\ stage = "before" /\ pc \in {"probes", "decide"} => since <= Counted
InShell == mode = "shell" =>
    /\ pc = "delay" => since <= Counted
    /\ pc = "send" => since + 1 <= Allowed
    /\ stage = "after" /\ pc \in {"unsol", "wait", "log", "fbk", "probes"} => since <= Allowed
InOperator == mode = "operator" =>
    /\ pc = "send" => since <= Counted
    /\ stage = "after" /\ pc \in {"log", "wait", "fbk", "probes", "report", "delay"}
       => since <= Counted + 1

CountInv == CountGoesOn /\ (~crashed => InBetween /\ InShell /\ InOperator)

LEMMA InitCountInv == Init => CountInv
<1> SUFFICES ASSUME Init PROVE CountInv  OBVIOUS
<1>1. burst \in Nat \ {0} /\ countdown = burst  BY SendCycleAssumption DEF Init
<1> QED BY <1>1 DEF Init, CountInv, CountGoesOn, InBetween, InShell, InOperator, AtBoundary

LEMMA CountBetweenRounds ==
  ASSUME IInv, CountInv, Silent # Targets,
         \/ \E n \in Bursts : SetBurst(n)
         \/ \E t \in Targets : Settle(t)
         \/ \E m \in {"shell", "operator"} : Launch(m)
         \/ PlanData \/ PlanStop \/ OperatorCrashes
         \/ BeginRound \/ Collect \/ CollectNothing \/ Decide \/ NothingLeft \/ EndRound
  PROVE  CountInv'
<1>1. burst \in Nat /\ burst >= 1 /\ countdown \in 0..burst /\ since \in Nat /\ Bursts \subseteq Nat \ {0}
  BY SendCycleAssumption DEF IInv, TypeOK
<1> USE DEF CountInv, CountGoesOn, InBetween, InShell, InOperator, Counted, Allowed, AtBoundary,
            bursts, flags, verdicts, history, Go, Leave
<1>2. ASSUME NEW n \in Bursts, SetBurst(n) PROVE CountInv'
  BY <1>1, <1>2 DEF SetBurst
<1>3. ASSUME NEW t \in Targets, Settle(t) PROVE CountInv'
  BY <1>1, <1>3 DEF Settle
<1>4. ASSUME NEW m \in {"shell", "operator"}, Launch(m) PROVE CountInv'
  BY <1>1, <1>4 DEF Launch
<1>5. CASE PlanData \/ PlanStop  BY <1>1, <1>5 DEF PlanData, PlanStop
<1>6. CASE OperatorCrashes  BY <1>1, <1>6 DEF OperatorCrashes
<1>7. CASE BeginRound  BY <1>1, <1>7 DEF BeginRound
<1>8. CASE Collect
  <2>1. pc' = "wait" /\ stage = "before"
    BY <1>8 DEF Collect, IInv, Placed, NextStep, Follow
  <2> QED BY <1>1, <1>8, <2>1 DEF Collect
<1>9. CASE CollectNothing
  <2>1. stage = "before"  BY <1>9 DEF CollectNothing, IInv, Placed
  <2> QED BY <1>1, <1>9, <2>1 DEF CollectNothing
<1>10. CASE Decide \/ NothingLeft  BY <1>1, <1>10 DEF Decide, NothingLeft
<1>11. CASE EndRound  BY <1>1, <1>11 DEF EndRound
<1> QED BY <1>2, <1>3, <1>4, <1>5, <1>6, <1>7, <1>8, <1>9, <1>10, <1>11

\* _delay_sending: the only place where a sending is counted.
LEMMA CountInDelay ==
  ASSUME IInv, CountInv, Delay
  PROVE  CountInv'
<1>1. burst \in Nat /\ burst >= 1 /\ countdown \in 0..burst /\ since \in Nat
  BY SendCycleAssumption DEF IInv, TypeOK
<1>2. stage = "after" /\ mode \in {"shell", "operator"}  BY DEF Delay, IInv, Placed
<1>3. /\ mode = "shell" => pc' \in {"send", "end"}
      /\ mode = "operator" => pc' = "end"
  BY <1>2 DEF Delay, Go, IInv, Placed, NextStep, Follow
<1>4. \/ countdown = 1 /\ countdown' = burst
      \/ countdown > 1 /\ countdown' = countdown - 1
  BY <1>1 DEF Delay, Over, CountInv, CountGoesOn
<1>5. UNCHANGED <<mode, stage, burst, since, crashed>> /\ pc = "delay"
  BY DEF Delay, history
<1> QED
  BY <1>1, <1>2, <1>3, <1>4, <1>5
  DEF CountInv, CountGoesOn, InBetween, InShell, InOperator, Counted, Allowed, AtBoundary

LEMMA CountInSending ==
  ASSUME IInv, CountInv,
         \/ RejectData \/ DataYields \/ Unsolicited
         \/ \E kept \in SUBSET Targets : Misdirect(kept)
         \/ \E dest, stuck \in SUBSET Targets : SendData(dest, stuck)
  PROVE  CountInv'
<1>1. burst \in Nat /\ burst >= 1 /\ countdown \in 0..burst /\ since \in Nat
  BY SendCycleAssumption DEF IInv, TypeOK
<1>2. stage = "after" /\ mode \in {"shell", "operator"}
  BY DEF RejectData, DataYields, Unsolicited, Misdirect, SendData, IInv, Placed
<1> USE DEF CountInv, CountGoesOn, InBetween, InShell, InOperator, Counted, Allowed, AtBoundary,
            bursts, history
<1>3. CASE RejectData \/ DataYields \/ \E kept \in SUBSET Targets : Misdirect(kept)
  <2>1. pc = "send" /\ pc' = "end"
    BY <1>3 DEF RejectData, DataYields, Misdirect, SendsNothing, Go
  <2>2. UNCHANGED <<mode, stage, burst, countdown, since, crashed>>
    BY <1>3 DEF RejectData, DataYields, Misdirect
  <2> QED BY <1>1, <1>2, <2>1, <2>2
<1>4. CASE Unsolicited
  <2>1. mode = "shell" /\ pc' = "wait"
    BY <1>2, <1>4 DEF Unsolicited, IInv, Placed, Go, NextStep, Follow
  <2>2. pc = "unsol" /\ UNCHANGED <<mode, stage, burst, countdown, since, crashed>>
    BY <1>4 DEF Unsolicited
  <2> QED BY <1>1, <1>2, <2>1, <2>2
<1>5. ASSUME NEW dest \in SUBSET Targets, NEW stuck \in SUBSET Targets, SendData(dest, stuck)
      PROVE  CountInv'
  <2>1. /\ pc = "send" /\ UNCHANGED <<mode, stage, burst, countdown, crashed>>
        /\ since' \in {since, since + 1}
    BY <1>5 DEF SendData
  <2>2. since' \in Nat /\ since' <= since + 1  BY <1>1, <2>1
  <2>3. CASE pc' = "end" /\ since' = since  BY <1>1, <1>2, <2>1, <2>3
  <2>4. CASE mode = "operator" /\ pc' = "log"  BY <1>1, <1>2, <2>1, <2>2, <2>4
  <2>5. CASE mode = "shell" /\ pc' \in {"unsol", "wait"}
    <3>1. Allowed' = Allowed /\ Allowed \in Int  BY <1>1, <2>1
    <3>2. ~crashed => since + 1 <= Allowed  BY <2>1, <2>5
    <3>3. ~crashed => since' <= Allowed'  BY <1>1, <2>2, <3>1, <3>2
    <3> QED BY <1>2, <2>1, <2>5, <3>3
  <2> QED BY <1>2, <1>5, <2>3, <2>4, <2>5 DEF SendData, Go
<1> QED BY <1>3, <1>4, <1>5

LEMMA CountInLoops ==
  ASSUME IInv, CountInv,
         \/ WaitReady
         \/ \E verdict \in BOOLEAN : WaitTimeout(verdict)
         \/ \E bad, verdict \in BOOLEAN : Feedback(bad, verdict) \/ Probes(bad, verdict)
         \/ UNCHANGED vars
  PROVE  CountInv'
<1>1. UNCHANGED <<mode, pc, stage, burst, countdown, since, crashed>>
  BY DEF WaitReady, WaitTimeout, Feedback, Probes, vars, bursts, history
<1> QED
  BY <1>1
  DEF CountInv, CountGoesOn, InBetween, InShell, InOperator, Counted, Allowed, AtBoundary

\* After the loops over the targets: a retrieval of feedback resets since.
LEMMA CountAfterLoops ==
  ASSUME IInv, CountInv,
         WaitCancelled \/ WaitEnds \/ Log \/ SkipFeedback \/ FeedbackEnds \/ ProbesEnd \/ Report
  PROVE  CountInv'
<1>1. burst \in Nat /\ burst >= 1 /\ countdown \in 0..burst /\ since \in Nat
  BY SendCycleAssumption DEF IInv, TypeOK
<1>2. pc' = NextStep /\ UNCHANGED <<mode, stage, burst, countdown>>
  BY DEF WaitCancelled, WaitEnds, Log, SkipFeedback, FeedbackEnds, ProbesEnd, Report, Go, bursts
<1>3. \/ UNCHANGED <<since, crashed>>
      \/ pc = "fbk" /\ since' = 0
  BY DEF WaitCancelled, WaitEnds, Log, SkipFeedback, FeedbackEnds, ProbesEnd, Report, history
<1>4. \/ pc \in {"wait", "log", "report"}
      \/ pc \in {"fbk", "probes"} /\ stage = "after" /\ ~AtBoundary
      \/ pc = "fbk" /\ since' = 0
      \/ pc = "probes" /\ (stage = "after" => AtBoundary)
  BY DEF WaitCancelled, WaitEnds, Log, SkipFeedback, FeedbackEnds, ProbesEnd, Report
<1> USE DEF CountInv, CountGoesOn, InBetween, InShell, InOperator, Counted, Allowed, AtBoundary
<1>5. CASE stage = "before"
  <2>1. \/ pc = "wait" /\ pc' = "fbk"
        \/ pc = "fbk" /\ pc' = "probes" /\ since' = 0
        \/ pc = "probes" /\ pc' = "decide"
    BY <1>2, <1>4, <1>5 DEF IInv, Placed, NextStep, Follow
  <2> QED BY <1>1, <1>2, <1>3, <1>5, <2>1
<1>6. CASE stage = "last"
  <2>1. pc = "fbk" /\ pc' = "end" /\ since' = 0
    BY <1>2, <1>4, <1>6 DEF IInv, Placed, NextStep, Follow
  <2> QED BY <1>1, <1>2, <1>6, <2>1
<1>7. CASE stage = "after" /\ mode = "shell"
  <2>1. \/ pc = "wait" /\ pc' = "log"
        \/ pc = "log" /\ pc' = "fbk"
        \/ pc = "fbk" /\ pc' = "probes"
        \/ pc = "probes" /\ pc' = "end"
    BY <1>2, <1>4, <1>7 DEF IInv, Placed, NextStep, Follow
  <2> QED BY <1>1, <1>2, <1>3, <1>4, <1>7, <2>1
<1>8. CASE stage = "after" /\ mode = "operator"
  <2>1. \/ pc = "log" /\ pc' = "wait"
        \/ pc = "wait" /\ pc' = "fbk"
        \/ pc = "fbk" /\ pc' = "probes"
        \/ pc = "probes" /\ pc' = "report"
        \/ pc = "report" /\ pc' = "delay"
    BY <1>2, <1>4, <1>8 DEF IInv, Placed, NextStep, Follow
  <2> QED BY <1>1, <1>2, <1>3, <1>8, <2>1
<1> QED BY <1>4, <1>5, <1>6, <1>7, <1>8 DEF IInv, TypeOK, Placed

LEMMA NextCountInv ==
  Silent # Targets /\ IInv /\ CountInv /\ [Next]_vars => CountInv'
BY CountBetweenRounds, CountInDelay, CountInSending, CountInLoops, CountAfterLoops
DEF Next, Round

-----------------------------------------------------------------------------
\* Every variable of SendCycle keeps its type (plumbing.py, the state of a
\* round), for any targets and sizes of burst.
THEOREM TypeCorrect == Spec => []TypeOK
<1>1. IInv => TypeOK  BY DEF IInv
<1> QED BY <1>1, InitIInv, NextIInv, PTL DEF Spec

\* No exit of a round leaves data in _pending_data unless some data was for a
\* target that is not enabled (target_helpers.py, send_pending_data).
THEOREM PendingIsEmptied == Spec => []NothingLeftPending
<1>1. IInv => NothingLeftPending  BY DEF IInv, NothingPending, NothingLeftPending
<1> QED BY <1>1, InitIInv, NextIInv, PTL DEF Spec

\* Between two retrievals of feedback, no more data is sent than a burst has,
\* whatever fails in between, however the user changes the burst and whichever
\* of the two loops counts (plumbing.py, _delay_sending). It needs a target
\* whose feedback timeout is not 0.
THEOREM BurstsKeepTheirSize == Spec => []BurstIsBounded
<1>1. CASE Silent # Targets
  <2>1. IInv /\ CountInv => BurstIsBounded
    <3> SUFFICES ASSUME IInv, CountInv, ~crashed, stage = "after",
                        pc \in {"unsol", "wait", "log", "fbk"}
                 PROVE  since <= burst
      BY DEF BurstIsBounded
    <3>1. /\ burst \in Nat /\ countdown \in 0..burst /\ countdown >= 1 /\ since \in Nat
          /\ mode \in {"shell", "operator"} /\ (mode = "operator" => pc # "unsol")
      BY SendCycleAssumption DEF IInv, TypeOK, Placed, CountInv, CountGoesOn
    <3>2. since <= Allowed \/ since <= Counted + 1
      BY <3>1 DEF CountInv, InShell, InOperator
    <3> QED BY <3>1, <3>2 DEF Allowed, Counted
  <2> QED BY <1>1, <2>1, InitIInv, NextIInv, InitCountInv, NextCountInv, PTL DEF Spec
<1>2. CASE Silent = Targets
  <2>1. BurstIsBounded  BY <1>2 DEF BurstIsBounded
  <2> QED BY <2>1, PTL
<1> QED BY <1>1, <1>2

\* A recovery that failed ends the loop, whatever the targets are and in
\* whatever order they fail, but for the verdicts the code is known to drop.
THEOREM RecoveriesCount == Spec => []VerdictsAreKept
<1>1. IInv => VerdictsAreKept  BY DEF IInv, Kept, VerdictsAreKept
<1> QED BY <1>1, InitIInv, NextIInv, PTL DEF Spec
=============================================================================
