--------------------------- MODULE ScenarioProofs ---------------------------
(***************************************************************************)
(* Proofs about Scenario and the chains of data makers of its DataProcess  *)
(* (DmakerChain), for any scenarios, data makers, stocks and cases.        *)
(*                                                                         *)
(* TypeInv, the types and what they rest on, comes first: the counters of  *)
(* the transitions are those of the step that is left, and the framework   *)
(* is inside a chain only while a DataProcess of the step is resolved.     *)
(*                                                                         *)
(* LeavesAfterPlaying is not inductive: what ends a round without playing  *)
(* it has to know why it did since the first hook (EndsInv).               *)
(*                                                                         *)
(* FirstTransition is not inductive either. The transitions are evaluated  *)
(* at three hooks, and a choice is revised as long as what precedes it may *)
(* still be allowed; RoundsInv says, hook by hook, which transitions have  *)
(* been refused, and that the counters are those of the hooks gone by.     *)
(*                                                                         *)
(* InOrder, of DmakerChain, compares two data that are delivered, and      *)
(* nothing of the attributes of the data makers. OrderInv says what they   *)
(* stand for while a chain is healthy: one data maker, the owner, goes on  *)
(* next; everything on its left is disabled and at work on a data that     *)
(* begins with what each of them has made last (Mark), everything on its   *)
(* right waits. Before the owner has gone on, the last data is up to its   *)
(* mark and nothing after it can go on (NotYet); after it has, the data    *)
(* that goes through the chain comes after the last one, choice by choice  *)
(* (Ahead). A chain that is hurt has no owner: Restorable says why a reset *)
(* of everything, or starting again from its head, gives it one back.      *)
(***************************************************************************)
EXTENDS Scenario, FiniteSetTheorems, WellFoundedInduction, TLAPS
-----------------------------------------------------------------------------
(* Sequences, and the first of a set of numbers.                            *)

\* What appending does to a sequence.
LEMMA AppendFacts ==
  ASSUME NEW S, NEW s \in Seq(S), NEW e \in S
  PROVE  /\ Append(s, e) \in Seq(S) /\ Len(Append(s, e)) = Len(s) + 1
         /\ Len(s) \in Nat
         /\ \A i \in 1..Len(s) : Append(s, e)[i] = s[i]
         /\ Append(s, e)[Len(s) + 1] = e
OBVIOUS

\* A set of numbers has a first one.
LEMMA MinOfNumbers ==
  ASSUME NEW S, S \subseteq Nat, S # {}
  PROVE  Min(S) \in S /\ \A x \in S : Min(S) <= x
<1>1. \E m \in S : \A y \in S : ~(<<y, m>> \in OpToRel(<, Nat))
  BY NatLessThanWellFounded, WFMin
<1>2. PICK m \in S : \A y \in S : ~(y < m)  BY <1>1 DEF OpToRel
<1>3. \A y \in S : m <= y  BY <1>2
<1> QED  BY <1>3 DEF Min

\* A bounded set of numbers has a last one.
LEMMA LastOfNumbers ==
  ASSUME NEW N \in Nat, NEW S, S \subseteq 1..N, S # {}
  PROVE  \E m \in S : \A x \in S : x <= m
<1> DEFINE T == {N - x : x \in S}
<1>1. \A x \in S : x \in Nat /\ x <= N /\ N - x \in Nat  OBVIOUS
<1>2. T \subseteq Nat /\ T # {}  BY <1>1
<1>3. \E m \in T : \A y \in T : ~(<<y, m>> \in OpToRel(<, Nat))
  BY <1>2, NatLessThanWellFounded, WFMin
<1>4. PICK m \in T : \A y \in T : ~(y < m)  BY <1>2, <1>3 DEF OpToRel
<1>5. PICK x \in S : m = N - x  BY <1>4
<1>6. \A y \in S : x >= y
  <2> TAKE y \in S
  <2>1. N - y \in T  OBVIOUS
  <2>2. ~(N - y < N - x)  BY <1>4, <1>5, <2>1
  <2> QED  BY <1>1, <1>5, <2>2
<1>7. \A y \in S : y <= x  BY <1>1, <1>5, <1>6
<1> QED  BY <1>5, <1>7

\* No transition, or the first that can be crossed.
LEMMA CrossedIsFirst ==
  ASSUME NEW n \in Nat, NEW S, S \subseteq 1..n
  PROVE  /\ Crossed(S) = 0 <=> S = {}
         /\ S # {} => Crossed(S) \in S
         /\ \A k \in S : Crossed(S) <= k
         /\ \A k \in S : (\A j \in S : k <= j) => Crossed(S) = k
<1>1. CASE S = {}  BY <1>1 DEF Crossed
<1>2. CASE S # {}
  <2>0. S \subseteq Nat  OBVIOUS
  <2>1. Min(S) \in S /\ \A x \in S : Min(S) <= x  BY <1>2, <2>0, MinOfNumbers
  <2>2. Crossed(S) = Min(S)  BY <1>2 DEF Crossed
  <2>3. Min(S) \in 1..n  BY <2>1
  <2>4. ASSUME NEW k \in S, \A j \in S : k <= j  PROVE Min(S) = k
    <3>1. k <= Min(S) /\ Min(S) <= k  BY <2>1, <2>4
    <3>2. k \in Nat /\ Min(S) \in Nat  BY <2>0, <2>1, <2>4
    <3> QED  BY <3>1, <3>2
  <2> HIDE DEF Crossed
  <2> QED  BY <1>2, <2>1, <2>2, <2>3, <2>4
<1> QED  BY <1>1, <1>2
-----------------------------------------------------------------------------
(* Types of a chain of data makers.                                         *)

\* The types of the variables of a chain, one by one.
LEMMA ChainTypes ==
  ASSUME ChainTypeOK
  PROVE  /\ chain = <<>> \/ IsChain(chain)
         /\ pos \in 0..Len(chain)
         /\ data \in Seq(Nat) /\ prev \in Seq(Nat) /\ src \in [Statefuls -> Seq(Nat)]
         /\ out \in {"none", "data"}
         /\ resetting \in {TRUE, FALSE} /\ woken \in {TRUE, FALSE}
         /\ hurt \in {TRUE, FALSE} /\ hit \in {TRUE, FALSE}
         /\ active \subseteq Dmakers /\ init \subseteq Dmakers /\ needSeed \subseteq Statefuls
         /\ made \in [Generators -> 0..Stock] /\ case \in [Statefuls -> 0..Cases]
         /\ faults \in 0..MaxFaults
BY DEF ChainTypeOK

\* A chain is a sequence of different data makers, and only the first generates.
LEMMA ChainFacts ==
  ASSUME NEW c, IsChain(c)
  PROVE  /\ Len(c) \in Nat /\ Len(c) >= 1 /\ DOMAIN c = 1..Len(c)
         /\ \A k \in 1..Len(c) : c[k] \in Dmakers
         /\ \A j, k \in 1..Len(c) : c[j] = c[k] => j = k
         /\ \A k \in 2..Len(c) : c[k] \notin Generators
BY DEF IsChain, IsInjective, ToSet

\* The data maker process_data is at, when it is working.
LEMMA DmFacts ==
  ASSUME ChainTypeOK, pos # 0
  PROVE  /\ IsChain(chain) /\ pos \in 1..Len(chain) /\ Dm \in Dmakers
         /\ Left \subseteq Dmakers /\ Dm \notin Left
         /\ pos = Len(chain) \/ pos + 1 \in 1..Len(chain)
         /\ Dm \in Generators => pos = 1
<1>1. chain # <<>>  BY DEF ChainTypeOK
<1>2. IsChain(chain) /\ pos \in 1..Len(chain)  BY <1>1 DEF ChainTypeOK
<1> QED  BY <1>2, ChainFacts DEF Dm, Left

LEMMA MadeFacts ==
  ASSUME ChainTypeOK, pos # 0
  PROVE  /\ MadeActive \subseteq Dmakers /\ ActiveNow \subseteq MadeActive
         /\ Cleaned \subseteq {Dm} /\ NeedNow \subseteq Statefuls
         /\ InitNow \subseteq init /\ InitNow \subseteq Dmakers
         /\ Dm \in MadeActive => Dm \in ActiveNow
         /\ Dm \in Generators => Made \in 0..Stock
<1>1. active \subseteq Dmakers /\ init \subseteq Dmakers /\ needSeed \subseteq Statefuls
  BY DEF ChainTypeOK
<1>2. made \in [Generators -> 0..Stock] /\ Stock \in Nat
  BY DmakerChainAssumption DEF ChainTypeOK
<1>3. Dm \in Dmakers /\ Dm \notin Left  BY DmFacts
<1>4. Cleaned \subseteq {Dm}  BY DEF Cleaned
<1>5. NeedNow \subseteq Statefuls /\ InitNow \subseteq init  BY <1>1, <1>4 DEF NeedNow, InitNow
<1>6. MadeActive \subseteq Dmakers  BY <1>1, <1>3 DEF MadeActive
<1>7. ActiveNow \subseteq MadeActive /\ (Dm \in MadeActive => Dm \in ActiveNow)
  BY <1>3 DEF ActiveNow, DisableLeft
<1>8. Dm \in Generators => Made \in 0..Stock  BY <1>2 DEF Made
<1> QED  BY <1>1, <1>4, <1>5, <1>6, <1>7, <1>8

\* The nearest stateful disruptor on the left.
LEMMA NearestFacts ==
  ASSUME ChainTypeOK, pos # 0
  PROVE  /\ Nearest \in 1..pos
         /\ (\A k \in 1..pos - 1 : chain[k] \notin Statefuls) => Nearest = 1
         /\ (\E k \in 1..pos - 1 : chain[k] \in Statefuls)
            => /\ Nearest \in 1..pos - 1 /\ chain[Nearest] \in Statefuls
               /\ \A j \in 1..pos - 1 : chain[j] \in Statefuls => j <= Nearest
<1> DEFINE S == {k \in 1..pos - 1 : chain[k] \in Statefuls}
<1>1. pos \in Nat \ {0}  BY DmFacts, ChainFacts
<1>2. Nearest = IF S = {} THEN 1 ELSE CHOOSE k \in S : \A j \in S : j <= k  BY DEF Nearest
<1>3. CASE S = {}  BY <1>1, <1>2, <1>3
<1>4. CASE S # {}
  <2>1. pos - 1 \in Nat /\ S \subseteq 1..pos - 1  BY <1>1
  <2> HIDE DEF S
  <2>2. \E m \in S : \A x \in S : x <= m  BY <1>4, <2>1, LastOfNumbers
  <2>3. Nearest \in S /\ \A j \in S : j <= Nearest  BY <1>2, <1>4, <2>2
  <2> USE DEF S
  <2> QED  BY <1>1, <1>4, <2>3
<1> QED  BY <1>3, <1>4

\* What Pass and Fail leave is well typed.
LEMMA PassTypes ==
  ASSUME ChainTypeOK, pos # 0, NEW d, d \in Seq(Nat), Pass(d) \/ Fail, UNCHANGED chain
  PROVE  /\ chain' = <<>> \/ IsChain(chain')
         /\ pos' \in 0..Len(chain') /\ data' \in Seq(Nat) /\ out' \in {"none", "data"}
<1>1. /\ IsChain(chain) /\ pos \in 1..Len(chain) /\ Len(chain) \in Nat
      /\ pos = Len(chain) \/ pos + 1 \in 1..Len(chain)
  BY DmFacts, ChainFacts
<1>2. IsChain(chain')  BY <1>1 DEF IsChain
<1>3. <<>> \in Seq(Nat)  OBVIOUS
<1>4. CASE Pass(d)  BY <1>1, <1>2, <1>4 DEF Pass
<1>5. CASE Fail  BY <1>1, <1>2, <1>3, <1>5 DEF Fail
<1> QED  BY <1>4, <1>5

\* A step of a chain keeps the types: what every data maker does is well typed.
LEMMA StepTypes ==
  ASSUME ChainTypeOK, chain' = <<>> \/ IsChain(chain'),
         pos' \in 0..Len(chain'), data' \in Seq(Nat), out' \in {"none", "data"},
         prev' = prev \/ prev' = <<>>, src' \in [Statefuls -> Seq(Nat)],
         UNCHANGED resetting, UNCHANGED woken \/ woken' = TRUE,
         hurt' \in BOOLEAN, hit' \in BOOLEAN,
         active' \subseteq Dmakers, init' \subseteq Dmakers, needSeed' \subseteq Statefuls,
         made' \in [Generators -> 0..Stock], case' \in [Statefuls -> 0..Cases],
         faults' \in 0..MaxFaults
  PROVE  ChainTypeOK'
<1>1. resetting' \in BOOLEAN /\ woken' \in BOOLEAN /\ prev' \in Seq(Nat)
  <2>1. <<>> \in Seq(Nat)  OBVIOUS
  <2> QED  BY <2>1 DEF ChainTypeOK
<1> QED  BY <1>1 DEF ChainTypeOK

LEMMA FaultTypes ==
  ASSUME ChainTypeOK, Fault
  PROVE  faults' \in 0..MaxFaults /\ hit' \in BOOLEAN
BY DmakerChainAssumption DEF ChainTypeOK, Fault

LEMMA SkipTypes == ASSUME ChainTypeOK, Skip  PROVE ChainTypeOK'
<1>1. pos # 0 /\ Pass(data) /\ UNCHANGED chain  BY DEF Skip
<1>2. UNCHANGED <<resetting, woken, active, needSeed, init, made, src, case, faults, hurt, hit, prev>>
  BY DEF Skip, attrs, walkers, history
<1>3. data \in Seq(Nat)  BY ChainTypes
<1>4. chain' = <<>> \/ IsChain(chain')  BY <1>1, <1>3, PassTypes
<1>5. pos' \in 0..Len(chain') /\ data' \in Seq(Nat) /\ out' \in {"none", "data"}
  BY <1>1, <1>3, PassTypes
<1> QED  BY <1>2, <1>4, <1>5, StepTypes, ChainTypes

LEMMA SetupFailsTypes == ASSUME ChainTypeOK, NEW crash, SetupFails(crash)  PROVE ChainTypeOK'
<1>1. pos # 0 /\ Fail /\ Fault /\ UNCHANGED chain  BY DEF SetupFails, Working
<1>2. UNCHANGED <<resetting, woken, made, src, case, prev>> /\ hurt' \in BOOLEAN
  BY DEF SetupFails, walkers, ChainTypeOK
<1>3. <<>> \in Seq(Nat)  OBVIOUS
<1>4. chain' = <<>> \/ IsChain(chain')  BY <1>1, <1>3, PassTypes
<1>5. pos' \in 0..Len(chain') /\ data' \in Seq(Nat) /\ out' \in {"none", "data"}
  BY <1>1, <1>3, PassTypes
<1>6. faults' \in 0..MaxFaults /\ hit' \in BOOLEAN  BY <1>1, FaultTypes
<1>7. active' \subseteq Dmakers  BY <1>1, DmFacts, MadeFacts DEF SetupFails
<1>8. needSeed' \subseteq Statefuls  BY <1>1, MadeFacts, ChainTypes DEF SetupFails
<1>9. init' \subseteq Dmakers  BY ChainTypes DEF SetupFails
<1> QED  BY <1>2, <1>4, <1>5, <1>6, <1>7, <1>8, <1>9, StepTypes, ChainTypes
LEMMA GenerateTypes == ASSUME ChainTypeOK, Generate  PROVE ChainTypeOK'
<1>1. /\ pos # 0 /\ Dm \in Generators /\ Made < Stock /\ Pass(<<Made + 1>>)
      /\ UNCHANGED chain
  BY DEF Generate, Working
<1>2. Made \in 0..Stock /\ Stock \in Nat  BY <1>1, MadeFacts, DmakerChainAssumption
<1>3. Made + 1 \in Nat /\ Made + 1 \in 0..Stock  BY <1>1, <1>2
<1>4. <<Made + 1>> \in Seq(Nat)  BY <1>3
<1>5. chain' = <<>> \/ IsChain(chain')  BY <1>1, <1>4, PassTypes
<1>6. pos' \in 0..Len(chain') /\ data' \in Seq(Nat) /\ out' \in {"none", "data"}
  BY <1>1, <1>4, PassTypes
<1>7. made' \in [Generators -> 0..Stock]
  <2>1. made' = [made EXCEPT ![Dm] = Made + 1]  BY DEF Generate
  <2> QED  BY <1>1, <1>3, <2>1, ChainTypes
<1>8. prev' = prev \/ prev' = <<>>  BY DEF Generate
<1>9. hurt' \in BOOLEAN /\ hit' \in BOOLEAN  BY DEF Generate
<1>10. active' = ActiveNow /\ init' = InitNow \cup {Dm}  BY DEF Generate, SetUp
<1>11. active' \subseteq Dmakers /\ init' \subseteq Dmakers  BY <1>1, <1>10, DmFacts, MadeFacts
<1>12. UNCHANGED <<resetting, needSeed, src, case, faults>> /\ woken' = TRUE  BY DEF Generate
<1> QED  BY <1>5, <1>6, <1>7, <1>8, <1>9, <1>11, <1>12, StepTypes, ChainTypes

LEMMA ExhaustedTypes == ASSUME ChainTypeOK, Exhausted  PROVE ChainTypeOK'
<1>1. pos # 0 /\ Fail /\ UNCHANGED chain  BY DEF Exhausted, Working
<1>2. <<>> \in Seq(Nat)  OBVIOUS
<1>3. chain' = <<>> \/ IsChain(chain')  BY <1>1, <1>2, PassTypes
<1>4. pos' \in 0..Len(chain') /\ data' \in Seq(Nat) /\ out' \in {"none", "data"}
  BY <1>1, <1>2, PassTypes
<1>5. active' \subseteq Dmakers /\ init' \subseteq Dmakers
  BY <1>1, MadeFacts, ChainTypes DEF Exhausted
<1>6. UNCHANGED <<resetting, needSeed, made, src, case, faults, hurt, hit, prev>> /\ woken' = TRUE
  BY DEF Exhausted, walkers, history
<1> QED  BY <1>3, <1>4, <1>5, <1>6, StepTypes, ChainTypes

LEMMA DisruptTypes == ASSUME ChainTypeOK, Disrupt  PROVE ChainTypeOK'
<1>1. pos # 0 /\ (Pass(Append(data, 0)) \/ Fail) /\ UNCHANGED chain  BY DEF Disrupt, Working
<1>2. Append(data, 0) \in Seq(Nat)  BY ChainTypes
<1>3. chain' = <<>> \/ IsChain(chain')  BY <1>1, <1>2, PassTypes
<1>4. pos' \in 0..Len(chain') /\ data' \in Seq(Nat) /\ out' \in {"none", "data"}
  BY <1>1, <1>2, PassTypes
<1>5. active' \subseteq Dmakers /\ init' \subseteq Dmakers
  BY <1>1, DmFacts, MadeFacts DEF Disrupt, SetUp
<1>6. UNCHANGED <<resetting, woken, needSeed, made, src, case, faults, hurt, hit, prev>>
  BY DEF Disrupt, walkers, history
<1> QED  BY <1>3, <1>4, <1>5, <1>6, StepTypes, ChainTypes

LEMMA CrashTypes == ASSUME ChainTypeOK, Crash  PROVE ChainTypeOK'
<1>1. pos # 0 /\ Fail /\ Fault /\ UNCHANGED chain  BY DEF Crash, Working
<1>2. <<>> \in Seq(Nat)  OBVIOUS
<1>3. chain' = <<>> \/ IsChain(chain')  BY <1>1, <1>2, PassTypes
<1>4. pos' \in 0..Len(chain') /\ data' \in Seq(Nat) /\ out' \in {"none", "data"}
  BY <1>1, <1>2, PassTypes
<1>5. active' \subseteq Dmakers /\ init' \subseteq Dmakers /\ needSeed' \subseteq Statefuls
  BY <1>1, DmFacts, MadeFacts DEF Crash, SetUp
<1>6. UNCHANGED <<resetting, woken, src, prev>> /\ hurt' \in BOOLEAN  BY DEF Crash
<1>7. faults' \in 0..MaxFaults /\ hit' \in BOOLEAN  BY <1>1, FaultTypes
<1>8. made' \in [Generators -> 0..Stock]
  <2>1. made' = IF Dm \in Generators THEN [made EXCEPT ![Dm] = Made] ELSE made  BY DEF Crash
  <2> QED  BY <1>1, <2>1, MadeFacts, ChainTypes
<1>9. case' \in [Statefuls -> 0..Cases]
  <2>1. CASE UNCHANGED case  BY <2>1, ChainTypes
  <2>2. CASE Dm \in Statefuls /\ case[Dm] < Cases /\ case' = [case EXCEPT ![Dm] = @ + 1]
    <3>1. case[Dm] \in 0..Cases /\ Cases \in Nat  BY <2>2, ChainTypes, DmakerChainAssumption
    <3>2. case[Dm] + 1 \in 0..Cases  BY <2>2, <3>1
    <3> QED  BY <2>2, <3>2, ChainTypes
  <2> QED  BY <2>1, <2>2 DEF Crash
<1> QED  BY <1>3, <1>4, <1>5, <1>6, <1>7, <1>8, <1>9, StepTypes, ChainTypes

\* A disruptor that keeps its seed though it crashed.
LEMMA CrashFedTypes == ASSUME ChainTypeOK, NEW n \in {0, 1}, CrashFed(n)  PROVE ChainTypeOK'
<1>1. /\ pos # 0 /\ Fail /\ Fault /\ Dm \in NeedNow /\ UNCHANGED chain
      /\ src' = [src EXCEPT ![Dm] = data] /\ case' = [case EXCEPT ![Dm] = n]
  BY DEF CrashFed, Working
<1>2. <<>> \in Seq(Nat)  OBVIOUS
<1>3. chain' = <<>> \/ IsChain(chain')  BY <1>1, <1>2, PassTypes
<1>4. pos' \in 0..Len(chain') /\ data' \in Seq(Nat) /\ out' \in {"none", "data"}
  BY <1>1, <1>2, PassTypes
<1>5. active' \subseteq Dmakers /\ init' \subseteq Dmakers /\ needSeed' \subseteq Statefuls
  BY <1>1, DmFacts, MadeFacts DEF CrashFed, SetUp
<1>6. UNCHANGED <<resetting, woken, made, prev>> /\ hurt' \in BOOLEAN
  BY DEF CrashFed, ChainTypeOK
<1>7. faults' \in 0..MaxFaults /\ hit' \in BOOLEAN  BY <1>1, FaultTypes
<1>8. src' \in [Statefuls -> Seq(Nat)] /\ case' \in [Statefuls -> 0..Cases]
  <2>1. n \in 0..Cases  BY DmakerChainAssumption
  <2> QED  BY <1>1, <2>1, ChainTypes
<1> QED  BY <1>3, <1>4, <1>5, <1>6, <1>7, <1>8, StepTypes, ChainTypes

LEMMA StarveTypes == ASSUME ChainTypeOK, Starve  PROVE ChainTypeOK'
<1>1. pos # 0 /\ Fail /\ UNCHANGED chain  BY DEF Starve, Working
<1>2. <<>> \in Seq(Nat)  OBVIOUS
<1>3. chain' = <<>> \/ IsChain(chain')  BY <1>1, <1>2, PassTypes
<1>4. pos' \in 0..Len(chain') /\ data' \in Seq(Nat) /\ out' \in {"none", "data"}
  BY <1>1, <1>2, PassTypes
<1>5. active' \subseteq Dmakers /\ init' \subseteq Dmakers /\ needSeed' \subseteq Statefuls
  BY <1>1, DmFacts, MadeFacts DEF Starve, SetUp
<1>6. UNCHANGED <<resetting, woken, made, src, case, faults, hurt, hit, prev>>
  BY DEF Starve, walkers, history
<1> QED  BY <1>3, <1>4, <1>5, <1>6, StepTypes, ChainTypes

LEMMA DeclineTypes == ASSUME ChainTypeOK, Decline  PROVE ChainTypeOK'
<1>1. pos # 0 /\ Pass(data) /\ Fault /\ UNCHANGED chain  BY DEF Decline, Working
<1>2. data \in Seq(Nat)  BY ChainTypes
<1>3. chain' = <<>> \/ IsChain(chain')  BY <1>1, <1>2, PassTypes
<1>4. pos' \in 0..Len(chain') /\ data' \in Seq(Nat) /\ out' \in {"none", "data"}
  BY <1>1, <1>2, PassTypes
<1>5. active' \subseteq Dmakers /\ init' \subseteq Dmakers /\ needSeed' \subseteq Statefuls
  BY <1>1, DmFacts, MadeFacts DEF Decline, SetUp
<1>6. UNCHANGED <<resetting, woken, made, src, case, prev>> /\ hurt' = TRUE
  BY DEF Decline, walkers
<1>7. faults' \in 0..MaxFaults /\ hit' \in BOOLEAN  BY <1>1, FaultTypes
<1> QED  BY <1>3, <1>4, <1>5, <1>6, <1>7, StepTypes, ChainTypes

LEMMA WalkTypes == ASSUME ChainTypeOK, Walk  PROVE ChainTypeOK'
<1> DEFINE fed == Dm \in NeedNow
           seed == IF fed THEN data ELSE src[Dm]
           n == IF fed THEN 1 ELSE case[Dm] + 1
<1>1. /\ pos # 0 /\ Dm \in Statefuls /\ n <= Cases /\ Pass(Append(seed, n)) /\ UNCHANGED chain
      /\ src' = [src EXCEPT ![Dm] = seed] /\ case' = [case EXCEPT ![Dm] = n]
  BY DEF Walk, Working
<1>2. seed \in Seq(Nat) /\ n \in 0..Cases
  BY <1>1, ChainTypes, DmakerChainAssumption
<1>3. Append(seed, n) \in Seq(Nat)  BY <1>2
<1>4. src' \in [Statefuls -> Seq(Nat)] /\ case' \in [Statefuls -> 0..Cases]
  BY <1>1, <1>2, ChainTypes
<1> HIDE DEF fed, seed, n
<1>5. chain' = <<>> \/ IsChain(chain')  BY <1>1, <1>3, PassTypes
<1>6. pos' \in 0..Len(chain') /\ data' \in Seq(Nat) /\ out' \in {"none", "data"}
  BY <1>1, <1>3, PassTypes
<1>7. active' \subseteq Dmakers /\ init' \subseteq Dmakers /\ needSeed' \subseteq Statefuls
  BY <1>1, DmFacts, MadeFacts DEF Walk, SetUp
<1>8. UNCHANGED <<resetting, woken, made, faults, hurt, hit, prev>>  BY DEF Walk, history
<1> QED  BY <1>4, <1>5, <1>6, <1>7, <1>8, StepTypes, ChainTypes

LEMMA YieldTypes == ASSUME ChainTypeOK, Yield  PROVE ChainTypeOK'
<1>1. pos # 0 /\ Fail /\ Dm \in Statefuls /\ UNCHANGED chain  BY DEF Yield, Working
<1>2. <<>> \in Seq(Nat)  OBVIOUS
<1>3. chain' = <<>> \/ IsChain(chain')  BY <1>1, <1>2, PassTypes
<1>4. pos' \in 0..Len(chain') /\ data' \in Seq(Nat) /\ out' \in {"none", "data"}
  BY <1>1, <1>2, PassTypes
<1>5. active' \subseteq Dmakers
  <2>1. HandedOver \subseteq Dmakers
    <3>1. \A k \in Nearest..pos : chain[k] \in Dmakers
      <4>1. Nearest \in 1..pos  BY <1>1, NearestFacts
      <4>2. pos \in 1..Len(chain) /\ Len(chain) \in Nat  BY <1>1, DmFacts, ChainFacts
      <4> QED  BY <1>1, <4>1, <4>2, DmFacts, ChainFacts
    <3> QED  BY <3>1 DEF HandedOver
  <2> QED  BY <1>1, <2>1, MadeFacts DEF Yield
<1>6. init' \subseteq Dmakers /\ needSeed' \subseteq Statefuls
  BY <1>1, MadeFacts, ChainTypes DEF Yield
<1>7. UNCHANGED <<resetting, woken, made, src, case, faults>>  BY DEF Yield, walkers
<1>8. hurt' \in BOOLEAN /\ hit' \in BOOLEAN /\ (prev' = prev \/ prev' = <<>>)
  BY DEF Yield
<1> QED  BY <1>3, <1>4, <1>5, <1>6, <1>7, <1>8, StepTypes, ChainTypes

\* Every step of a chain keeps the types.
LEMMA ChainStepTypes == ASSUME ChainTypeOK, ChainStep  PROVE ChainTypeOK'
<1>1. /\ (Skip => ChainTypeOK') /\ (Generate => ChainTypeOK') /\ (Exhausted => ChainTypeOK')
      /\ (Disrupt => ChainTypeOK') /\ (Crash => ChainTypeOK') /\ (Starve => ChainTypeOK')
      /\ (Decline => ChainTypeOK') /\ (Walk => ChainTypeOK') /\ (Yield => ChainTypeOK')
  BY SkipTypes, GenerateTypes, ExhaustedTypes, DisruptTypes, CrashTypes, StarveTypes,
     DeclineTypes, WalkTypes, YieldTypes
<1>2. ASSUME NEW crash \in BOOLEAN, SetupFails(crash)  PROVE ChainTypeOK'
  BY <1>2, SetupFailsTypes
<1>3. ASSUME NEW n \in {0, 1}, CrashFed(n)  PROVE ChainTypeOK'  BY <1>3, CrashFedTypes
<1> QED  BY <1>1, <1>2, <1>3 DEF ChainStep
-----------------------------------------------------------------------------
(* Types of the walk through a scenario.                                    *)

\* What is known of the scenario and of the transitions that leave the current step.
LEMMA PlayFacts ==
  ASSUME TypeOK
  PROVE  /\ IsPlay(play) /\ play.next \in [Steps -> Seq(Transitions)] /\ cur \in Steps
         /\ Len(Leaving) \in Nat /\ Trs = 1..Len(Leaving)
         /\ \A k \in Trs : /\ Leaving[k].to \in Steps /\ Leaving[k].hooks \in SUBSET Hooks
                           /\ Leaving[k].guard \in BOOLEAN
                           /\ Leaving[k].guard => Leaving[k].hooks = {}
                           /\ Leaving[k].hooks = {} => Leaving[k].guard \/ k = Len(Leaving)
<1>1. IsPlay(play) /\ cur \in Steps  BY ScenarioAssumption DEF TypeOK
<1>2. play.next \in [Steps -> Seq(Transitions)]  BY <1>1 DEF IsPlay
<1>3. Leaving \in Seq(Transitions)  BY <1>1, <1>2 DEF Leaving
<1>4. \A k \in Trs : Leaving[k] \in Transitions  BY <1>3 DEF Trs
<1>5. Len(Leaving) \in Nat /\ Trs = 1..Len(Leaving)  BY <1>3 DEF Trs
<1>6. \A k \in Trs : /\ Leaving[k].to \in Steps /\ Leaving[k].hooks \in SUBSET Hooks
                     /\ Leaving[k].guard \in BOOLEAN
  BY <1>4 DEF Transitions
<1>7. \A k \in Trs : /\ Leaving[k].guard => Leaving[k].hooks = {}
                     /\ Leaving[k].hooks = {} => Leaving[k].guard \/ k = Len(Leaving)
  BY <1>1 DEF IsPlay, Trs, Leaving
<1> QED  BY <1>1, <1>2, <1>5, <1>6, <1>7

\* How many callbacks a set of hooks counts.
LEMMA CountHooks ==
  /\ Cardinality({}) = 0 /\ Cardinality({"sending"}) = 1 /\ Cardinality({"fbk"}) = 1
  /\ Cardinality(Hooks) = 2
<1>1. Cardinality({}) = 0 /\ IsFiniteSet({})  BY FS_EmptySet
<1>2. \A x : IsFiniteSet({x}) /\ Cardinality({x}) = 1  BY FS_Singleton
<1>3. Cardinality({"sending"} \cup {"fbk"}) = 2
  <2> DEFINE S == {"sending"}
  <2>1. IsFiniteSet(S) /\ Cardinality(S) = 1 /\ "fbk" \notin S  BY <1>2
  <2> HIDE DEF S
  <2>2. Cardinality(S \cup {"fbk"}) = 2  BY <2>1, FS_AddElement
  <2> QED  BY <2>2 DEF S
<1>4. Hooks = {"sending"} \cup {"fbk"}  BY DEF Hooks
<1> QED  BY <1>1, <1>2, <1>3, <1>4

LEMMA HooksFacts ==
  ASSUME NEW H \in SUBSET Hooks
  PROVE  /\ Cardinality(H) = (IF "sending" \in H THEN 1 ELSE 0) + (IF "fbk" \in H THEN 1 ELSE 0)
         /\ H = {} \/ H = {"sending"} \/ H = {"fbk"} \/ H = Hooks
<1>1. H = {} \/ H = {"sending"} \/ H = {"fbk"} \/ H = Hooks  BY DEF Hooks
<1>2. CASE H = {}  BY <1>2, CountHooks
<1>3. CASE H = {"sending"}  BY <1>3, CountHooks
<1>4. CASE H = {"fbk"}  BY <1>4, CountHooks
<1>5. CASE H = Hooks
  <2>1. "sending" \in H /\ "fbk" \in H /\ Cardinality(H) = 2  BY <1>5, CountHooks DEF Hooks
  <2> QED  BY <1>1, <2>1
<1> QED  BY <1>1, <1>2, <1>3, <1>4, <1>5

\* What After computes, step by step: the transitions it looks at, the first that can be
\* crossed, those whose callbacks it calls.
ToTry == IF sel # 0 THEN pend ELSE Trs
CanNow(k, hook) ==
    IF sel # 0 THEN Says(k, hook)
    ELSE IF Leaving[k].guard THEN done ELSE Leaving[k].hooks = {} \/ Says(k, hook)
First(hook) == Crossed({k \in ToTry : CanNow(k, hook)})
Chosen(hook) == IF First(hook) # 0 THEN First(hook) ELSE sel
AreTried(hook) == {k \in ToTry : Leaving[k].hooks # {} /\ (First(hook) = 0 \/ k <= First(hook))}
Now(hook) == [k \in Trs |-> IF k \in AreTried(hook) THEN Called(k, hook) ELSE calls[cur][k]]

LEMMA AfterUnfolded ==
  ASSUME NEW hook
  PROVE  /\ After(hook).sel = Chosen(hook)
         /\ After(hook).calls = [calls EXCEPT ![cur] = Now(hook)]
         /\ After(hook).pend = {k \in Trs : Now(hook)[k] > 0 /\ k <= Chosen(hook)}
<1> DEFINE T == IF sel # 0 THEN pend ELSE Trs
           can(k) == IF Leaving[k].guard THEN done ELSE Leaving[k].hooks = {} \/ Says(k, hook)
           f == Crossed({k \in T : IF sel # 0 THEN Says(k, hook) ELSE can(k)})
<1>1. f = First(hook)  BY DEF First, ToTry, CanNow
<1> QED  BY <1>1 DEF After, Chosen, AreTried, Now, ToTry, StillToTry

\* The counter of a transition stays in its range.
LEMMA CalledTypes ==
  ASSUME TypeOK, NEW k \in Trs, NEW hook
  PROVE  /\ Qty(Leaving[k]) \in Nat /\ calls[cur][k] \in 0..Qty(Leaving[k])
         /\ Called(k, hook) \in 0..Qty(Leaving[k])
<1> DEFINE tr == Leaving[k]
           n == IF calls[cur][k] = 0 THEN Qty(tr) ELSE calls[cur][k]
<1>1. tr.hooks \in SUBSET Hooks  BY PlayFacts
<1>2. /\ Qty(tr) = (IF "sending" \in tr.hooks THEN 1 ELSE 0)
                 + (IF "fbk" \in tr.hooks THEN 1 ELSE 0)
      /\ Qty(tr) = 0 => hook \notin tr.hooks
  BY <1>1, HooksFacts DEF Qty, Hooks
<1>3. calls[cur][k] \in 0..Qty(tr)  BY DEF TypeOK, Trs, Leaving
<1>4. Qty(tr) \in Nat  BY <1>2
<1>5. n \in 0..Qty(tr) /\ (hook \in tr.hooks => n > 0)  BY <1>2, <1>3, <1>4
<1>6. Called(k, hook) = IF hook \in tr.hooks THEN n - 1 ELSE n  BY DEF Called
<1> QED  BY <1>3, <1>4, <1>5, <1>6

LEMMA AfterTypes ==
  ASSUME TypeOK, NEW hook
  PROVE  /\ First(hook) \in Trs \cup {0} /\ Chosen(hook) \in Trs \cup {0}
         /\ DOMAIN After(hook).calls = Steps
         /\ After(hook).calls[cur] = Now(hook)
         /\ \A s \in Steps : \A k \in DOMAIN play.next[s] :
               After(hook).calls[s][k] \in 0..Qty(play.next[s][k])
         /\ After(hook).pend \subseteq Trs
<1>1. Trs = 1..Len(Leaving) /\ Len(Leaving) \in Nat /\ cur \in Steps  BY PlayFacts
<1>2. ToTry \subseteq Trs  BY DEF ToTry, TypeOK
<1>3. First(hook) \in Trs \cup {0}
  <2> DEFINE S == {k \in ToTry : CanNow(k, hook)}
  <2>1. S \subseteq 1..Len(Leaving)  BY <1>1, <1>2
  <2> HIDE DEF S
  <2>2. S # {} => Crossed(S) \in S  BY <1>1, <2>1, CrossedIsFirst
  <2>3. S = {} => Crossed(S) = 0  BY <1>1, <2>1, CrossedIsFirst
  <2>4. Crossed(S) \in Trs \cup {0}  BY <1>1, <2>1, <2>2, <2>3
  <2> QED  BY <2>4 DEF First, S
<1>4. Chosen(hook) \in Trs \cup {0}  BY <1>3 DEF Chosen, TypeOK
<1>5. After(hook).calls = [calls EXCEPT ![cur] = Now(hook)] /\ DOMAIN calls = Steps
  BY AfterUnfolded DEF TypeOK
<1>6. DOMAIN After(hook).calls = Steps /\ After(hook).calls[cur] = Now(hook)
  BY <1>1, <1>5
<1>7. ASSUME NEW s \in Steps, NEW k \in DOMAIN play.next[s]
      PROVE  After(hook).calls[s][k] \in 0..Qty(play.next[s][k])
  <2>1. CASE s # cur  BY <1>5, <2>1 DEF TypeOK
  <2>2. CASE s = cur
    <3>1. k \in Trs /\ play.next[s][k] = Leaving[k]  BY <2>2 DEF Trs, Leaving
    <3>2. Now(hook)[k] \in 0..Qty(Leaving[k])  BY <3>1, CalledTypes DEF Now
    <3> QED  BY <1>6, <2>2, <3>1, <3>2
  <2> QED  BY <2>1, <2>2
<1>8. After(hook).pend \subseteq Trs  BY AfterUnfolded
<1> QED  BY <1>3, <1>4, <1>6, <1>7, <1>8

\* Between two rounds nothing is selected; a chain only runs for the DataProcess of the
\* current step.
Quiet == pc = "idle" => sel = 0 /\ pend = {} /\ truth = {}
InPlay ==
    /\ pc = "dp" => cur \in play.hosts /\ idx \in DOMAIN play.processes
    /\ pc = "replace" => cur \in play.hosts
    /\ pos # 0 => pc = "dp" /\ resetting = play.reset

TypeInv == TypeOK /\ Quiet /\ InPlay

\* Any step that leaves the scenario, the step and the data makers alone, as long as what
\* it changes is well typed.
LEMMA WalkStepTypes ==
  ASSUME TypeInv, UNCHANGED <<chainVars, play, cur>>, pc # "dp",
         pc' \in {"idle", "step1", "step2", "replace", "ready", "fbk", "final"},
         blocked' \subseteq Steps,
         DOMAIN calls' = Steps,
         \A s \in Steps : \A k \in DOMAIN play.next[s] : calls'[s][k] \in 0..Qty(play.next[s][k]),
         UNCHANGED idx, UNCHANGED back \/ back' \in {"step1", "replace"},
         done' \in BOOLEAN, outcome' \in BOOLEAN, usable' \in BOOLEAN, played' \in BOOLEAN,
         leftover' \in BOOLEAN, stale' \in BOOLEAN,
         sel' \in Trs \cup {0}, pend' \subseteq Trs, truth' \subseteq Trs \X Hooks,
         pc' = "idle" => sel' = 0 /\ pend' = {} /\ truth' = {},
         pc' = "replace" => cur \in play.hosts
  PROVE  TypeInv'
<1>1. ChainTypeOK'
  <2>1. ChainTypeOK  BY DEF TypeInv, TypeOK
  <2> QED  BY <2>1 DEF ChainTypeOK, chainVars, attrs, walkers, history
<1>2. Trs' = Trs /\ play' = play /\ cur' = cur  BY DEF Trs, Leaving
<1>3. pos = 0 /\ pos' = pos  BY DEF TypeInv, InPlay, chainVars
<1>4. play \in Plays /\ cur \in Steps /\ (idx = 1 \/ idx \in DOMAIN play.processes)
  BY DEF TypeInv, TypeOK
<1>5. back' \in {"step1", "replace"}  BY DEF TypeInv, TypeOK
<1>6. TypeOK'
  <2>1. {done', outcome', usable', played', leftover', stale'} \subseteq BOOLEAN  OBVIOUS
  <2>2. \A s \in Steps : \A k \in DOMAIN play'.next[s] :
           calls'[s][k] \in 0..Qty(play'.next[s][k])
    BY <1>2
  <2>3. pc' \in {"idle", "step1", "dp", "step2", "replace", "ready", "fbk", "final"}  OBVIOUS
  <2> QED  BY <1>1, <1>2, <1>4, <1>5, <2>1, <2>2, <2>3 DEF TypeOK
<1>7. Quiet'  BY DEF Quiet
<1>8. InPlay'  BY <1>2, <1>3 DEF InPlay
<1> QED  BY <1>6, <1>7, <1>8 DEF TypeInv

\* The types of the variables of the walk, one by one.
LEMMA WalkTypesOf ==
  ASSUME TypeInv
  PROVE  /\ TypeOK /\ Quiet /\ InPlay /\ ChainTypeOK
         /\ play \in Plays /\ cur \in Steps /\ blocked \subseteq Steps
         /\ DOMAIN calls = Steps
         /\ \A s \in Steps : \A k \in DOMAIN play.next[s] :
               calls[s][k] \in 0..Qty(play.next[s][k])
         /\ done \in BOOLEAN /\ outcome \in BOOLEAN /\ usable \in BOOLEAN
         /\ played \in BOOLEAN /\ leftover \in BOOLEAN /\ stale \in BOOLEAN
         /\ sel \in Trs \cup {0} /\ pend \subseteq Trs /\ truth \subseteq Trs \X Hooks
         /\ back \in {"step1", "replace"}
BY DEF TypeInv, TypeOK

LEMMA NewDataTypes == ASSUME TypeInv, NewData  PROVE TypeInv'
<1>1. pc = "idle" /\ UNCHANGED <<chainVars, play, cur, blocked, idx, back, done, outcome, calls,
                                usable, sel, pend>>
  BY DEF NewData, process, walk
<1>2. truth' \subseteq Trs \X Hooks  BY DEF NewData
<1>3. pc' \in {"step1", "fbk"}  BY DEF NewData
<1>4. played' \in BOOLEAN /\ leftover' \in BOOLEAN /\ stale' \in BOOLEAN  BY DEF NewData
<1> QED  BY <1>1, <1>2, <1>3, <1>4, WalkTypesOf, WalkStepTypes

\* A DataProcess that is resolved, or not, without a chain to run.
LEMMA ResolvedTypes ==
  ASSUME TypeInv, NEW ok \in BOOLEAN, NEW b, Resolved(ok, b)
  PROVE  pc' \in {"step2", "ready"} /\ usable' \in BOOLEAN
BY DEF Resolved

LEMMA CompletedTypes ==
  ASSUME TypeInv, NEW b, Completed(b)
  PROVE  /\ pc' \in {"step2", "ready"} /\ usable' \in BOOLEAN /\ done' \in BOOLEAN
         /\ leftover' \in BOOLEAN /\ UNCHANGED <<chainVars, idx, outcome, back>>
<1>1. pc' \in {"step2", "ready"} /\ usable' \in BOOLEAN  BY ResolvedTypes DEF Completed
<1> QED  BY <1>1 DEF Completed

\* Starting a chain of the DataProcess.
LEMMA RunTypes ==
  ASSUME TypeInv, cur \in play.hosts, NEW k \in DOMAIN play.processes,
         NEW b \in {"step1", "replace"}, Run(k, b),
         UNCHANGED <<play, cur, blocked, walk, done, outcome, usable, truth, playHistory>>
  PROVE  TypeInv'
<1>1. IsPlay(play)  BY WalkTypesOf, ScenarioAssumption
<1>2. IsChain(play.processes[k]) /\ play.reset \in BOOLEAN  BY <1>1 DEF IsPlay
<1> DEFINE c == play.processes[k]
<1>3. /\ chain' = c /\ pos' = 1 /\ resetting' = play.reset /\ woken' = FALSE /\ out' = "none"
      /\ data' = IF c[1] \in Generators THEN <<>> ELSE <<0>>
      /\ prev' = IF c = chain /\ ~play.reset THEN LastData ELSE <<>>
      /\ UNCHANGED <<active, needSeed, init, made, src, case, faults, hit>>
      /\ hurt' \in BOOLEAN /\ idx' = k /\ back' = b /\ pc' = "dp"
  BY DEF Run, Call, attrs, walkers
<1>4. ChainTypeOK'
  <2>1. <<>> \in Seq(Nat) /\ <<0>> \in Seq(Nat)  OBVIOUS
  <2>2. LastData \in Seq(Nat)  BY <2>1, WalkTypesOf, ChainTypes DEF LastData
  <2>3. pos' \in 0..Len(chain')  BY <1>2, <1>3, ChainFacts
  <2>4. data' \in Seq(Nat) /\ prev' \in Seq(Nat)  BY <1>3, <2>1, <2>2
  <2>5. resetting' \in BOOLEAN /\ woken' \in BOOLEAN /\ hit' \in BOOLEAN
    BY <1>2, <1>3, WalkTypesOf, ChainTypes
  <2> QED  BY <1>2, <1>3, <2>3, <2>4, <2>5, WalkTypesOf, ChainTypes DEF ChainTypeOK
<1>5. Trs' = Trs /\ UNCHANGED <<play, cur, blocked, calls, sel, pend, done, outcome, usable, truth,
                               played, leftover, stale>>
  BY DEF Trs, Leaving, walk, playHistory
<1>6. TypeOK'  BY <1>3, <1>4, <1>5 DEF TypeInv, TypeOK
<1>7. Quiet' /\ InPlay'  BY <1>3, <1>5 DEF Quiet, InPlay
<1> QED  BY <1>6, <1>7 DEF TypeInv

\* The chain that follows another one.
LEMMA NextChain ==
  ASSUME NEW n \in Nat, NEW i \in 1..n
  PROVE  (i % n) + 1 \in 1..n
<1>1. CASE i = n
  <2>1. i % n = 0  BY <1>1
  <2> QED  BY <2>1
<1>2. CASE i < n
  <2>1. i % n = i  BY <1>2
  <2> QED  BY <1>2, <2>1
<1> QED  BY <1>1, <1>2

LEMMA StepOneTypes == ASSUME TypeInv, StepOne  PROVE TypeInv'
<1>1. pc = "step1" /\ UNCHANGED <<play, cur, blocked, calls, sel, pend, truth, played, stale>>
  BY DEF StepOne, walk
<1>2. CASE Resolved(TRUE, "step1") /\ UNCHANGED <<chainVars, process, leftover>>
  <2>1. pc' \in {"step2", "ready"} /\ usable' \in BOOLEAN  BY <1>2, ResolvedTypes
  <2>2. UNCHANGED <<idx, done, outcome, back>>  BY <1>2 DEF process
  <2> QED  BY <1>1, <1>2, <2>1, <2>2, WalkTypesOf, WalkStepTypes
<1>3. CASE Completed("step1")
  <2>1. /\ pc' \in {"step2", "ready"} /\ usable' \in BOOLEAN /\ done' \in BOOLEAN
        /\ leftover' \in BOOLEAN /\ UNCHANGED <<chainVars, idx, outcome, back>>
    BY <1>3, CompletedTypes
  <2> QED  BY <1>1, <2>1, WalkTypesOf, WalkStepTypes
<1>4. CASE cur \in play.hosts /\ Run(idx, "step1") /\ UNCHANGED <<done, outcome, usable, leftover>>
  <2>1. idx \in DOMAIN play.processes
    <3>1. IsPlay(play) /\ play.processes # <<>>
      BY <1>4, WalkTypesOf, ScenarioAssumption DEF IsPlay
    <3>2. 1 \in DOMAIN play.processes  BY <3>1 DEF IsPlay
    <3> QED  BY <3>2, WalkTypesOf DEF TypeOK
  <2>2. UNCHANGED <<walk, playHistory>>  BY <1>1, <1>4 DEF walk, playHistory
  <2> QED  BY <1>1, <1>4, <2>1, <2>2, RunTypes
<1> QED  BY <1>2, <1>3, <1>4 DEF StepOne

LEMMA ReplaceTypes == ASSUME TypeInv, Replace  PROVE TypeInv'
<1>1. /\ pc = "replace" /\ cur \in play.hosts
      /\ UNCHANGED <<play, cur, blocked, calls, sel, pend, truth, played, stale>>
  BY DEF Replace, walk, TypeInv, InPlay
<1>2. CASE Resolved(TRUE, "replace") /\ UNCHANGED <<chainVars, process, leftover>>
  <2>1. pc' \in {"step2", "ready"} /\ usable' \in BOOLEAN  BY <1>2, ResolvedTypes
  <2>2. UNCHANGED <<idx, done, outcome, back>>  BY <1>2 DEF process
  <2> QED  BY <1>1, <1>2, <2>1, <2>2, WalkTypesOf, WalkStepTypes
<1>3. CASE Completed("replace")
  <2>1. /\ pc' \in {"step2", "ready"} /\ usable' \in BOOLEAN /\ done' \in BOOLEAN
        /\ leftover' \in BOOLEAN /\ UNCHANGED <<chainVars, idx, outcome, back>>
    BY <1>3, CompletedTypes
  <2> QED  BY <1>1, <2>1, WalkTypesOf, WalkStepTypes
<1>4. CASE Run(idx, "replace") /\ UNCHANGED <<done, outcome, usable, leftover>>
  <2>1. idx \in DOMAIN play.processes
    <3>1. IsPlay(play) /\ play.processes # <<>>
      BY <1>1, <1>4, WalkTypesOf, ScenarioAssumption DEF IsPlay
    <3>2. 1 \in DOMAIN play.processes  BY <3>1 DEF IsPlay
    <3> QED  BY <3>2, WalkTypesOf DEF TypeOK
  <2>2. UNCHANGED <<walk, playHistory>>  BY <1>1, <1>4 DEF walk, playHistory
  <2> QED  BY <1>1, <1>4, <2>1, <2>2, RunTypes
<1> QED  BY <1>2, <1>3, <1>4 DEF Replace

\* What a chain of data makers returns resolves the DataProcess, or the next one is tried.
LEMMA ReturnsTypes == ASSUME TypeInv, ChainReturns  PROVE TypeInv'
<1> DEFINE n == Len(play.processes)
<1>1. /\ pc = "dp" /\ pos = 0
      /\ UNCHANGED <<play, cur, blocked, calls, sel, pend, truth, played, leftover, stale>>
  BY DEF ChainReturns, walk, playHistory
<1>2. cur \in play.hosts /\ idx \in DOMAIN play.processes  BY <1>1, WalkTypesOf DEF InPlay
<1>3. IsPlay(play)  BY WalkTypesOf, ScenarioAssumption
<1>4. n \in Nat /\ DOMAIN play.processes = 1..n /\ idx \in 1..n  BY <1>2, <1>3 DEF IsPlay
<1>5. CASE (idx < n \/ play.regen) /\ Run((idx % n) + 1, back) /\ UNCHANGED <<done, outcome, usable>>
  <2>1. (idx % n) + 1 \in 1..n  BY <1>4, NextChain
  <2>2. UNCHANGED <<walk, playHistory>>  BY <1>1 DEF walk, playHistory
  <2>3. (idx % n) + 1 \in DOMAIN play.processes /\ back \in {"step1", "replace"}
    BY <1>4, <2>1, WalkTypesOf
  <2> HIDE DEF n
  <2> QED  BY <1>1, <1>2, <1>5, <2>2, <2>3, RunTypes
<1>6. ASSUME NEW ok \in BOOLEAN, Resolved(ok, back), UNCHANGED <<chainVars, back>>,
             idx' = idx \/ idx' = 1, done' \in BOOLEAN, outcome' \in BOOLEAN
      PROVE  TypeInv'
  <2>1. pc' \in {"step2", "ready"} /\ usable' \in BOOLEAN  BY <1>6, ResolvedTypes
  <2>2. ChainTypeOK' /\ pos' = 0
    <3>1. ChainTypeOK  BY WalkTypesOf
    <3> QED  BY <1>1, <1>6, <3>1 DEF ChainTypeOK, chainVars, attrs, walkers, history
  <2>3. Trs' = Trs  BY <1>1 DEF Trs, Leaving
  <2>4. TypeOK'
    <3>1. idx' = 1 \/ idx' \in DOMAIN play'.processes  BY <1>1, <1>2, <1>6
    <3>2. back' \in {"step1", "replace"}  BY <1>6, WalkTypesOf
    <3>3. {done', outcome', usable', played', leftover', stale'} \subseteq BOOLEAN
      BY <1>1, <1>6, <2>1, WalkTypesOf
    <3>4. pc' \in {"idle", "step1", "dp", "step2", "replace", "ready", "fbk", "final"}  BY <2>1
    <3> QED  BY <1>1, <2>2, <2>3, <3>1, <3>2, <3>3, <3>4, WalkTypesOf DEF TypeOK
  <2>5. Quiet' /\ InPlay'  BY <2>1, <2>2 DEF Quiet, InPlay
  <2> QED  BY <2>4, <2>5 DEF TypeInv
<1>7. CASE Resolved(TRUE, back) /\ outcome' = TRUE /\ UNCHANGED <<chainVars, idx, done, back>>
  <2>1. done' \in BOOLEAN /\ outcome' \in BOOLEAN  BY <1>7, WalkTypesOf
  <2> QED  BY <1>6, <1>7, <2>1
<1>8. CASE /\ Resolved(FALSE, back) /\ idx' = 1 /\ done' = TRUE /\ outcome' = FALSE
           /\ UNCHANGED <<chainVars, back>>
  <2>1. done' \in BOOLEAN /\ outcome' \in BOOLEAN  BY <1>8
  <2> QED  BY <1>6, <1>8, <2>1
<1> QED  BY <1>5, <1>7, <1>8 DEF ChainReturns

LEMMA InChainTypes == ASSUME TypeInv, InChain  PROVE TypeInv'
<1>1. pc = "dp" /\ ChainStep /\ UNCHANGED scenarioVars  BY DEF InChain
<1>2. ChainTypeOK'  BY <1>1, WalkTypesOf, ChainStepTypes
<1>3. UNCHANGED <<play, pc, cur, calls, blocked, idx, done, outcome, back, usable, sel, pend, truth,
                  played, leftover, stale>>
  BY <1>1 DEF scenarioVars, process, walk, playHistory
<1>4. Trs' = Trs  BY <1>3 DEF Trs, Leaving
<1>5. TypeOK'  BY <1>2, <1>3, <1>4 DEF TypeInv, TypeOK
<1>6. pos # 0 /\ UNCHANGED resetting
  BY <1>1 DEF ChainStep, Skip, Generate, Exhausted, Disrupt, Crash, CrashFed, Starve, Decline,
              Walk, Yield, SetupFails, Working
<1>7. Quiet' /\ InPlay'  BY <1>1, <1>3, <1>6, WalkTypesOf DEF Quiet, InPlay
<1> QED  BY <1>5, <1>7 DEF TypeInv

LEMMA ResetTypes == ASSUME TypeInv, UserResets  PROVE TypeInv'
<1>1. pc = "idle" /\ Reset /\ UNCHANGED scenarioVars  BY DEF UserResets
<1>2. UNCHANGED <<play, pc, cur, calls, blocked, idx, done, outcome, back, usable, sel, pend, truth,
                  played, leftover, stale>>
  BY <1>1 DEF scenarioVars, process, walk, playHistory
<1>3. PICK ds \in SUBSET Dmakers : Clean(ds)
  <2>1. ResetAll => Clean(init)  BY DEF ResetAll
  <2>2. \A d \in Dmakers : ResetOne(d) => Clean({d})  BY DEF ResetOne
  <2> QED  BY <1>1, <2>1, <2>2, WalkTypesOf, ChainTypes DEF Reset
<1>4. /\ pos = 0 /\ UNCHANGED <<chain, pos, resetting, woken, made, src, case>>
      /\ hurt' \in BOOLEAN /\ faults' = faults + 1 /\ faults < MaxFaults
      /\ hit' = hit \/ hit' = FALSE
  BY <1>1 DEF Reset, ResetAll, ResetOne, walkers
<1>5. ChainTypeOK'
  <2>1. <<>> \in Seq(Nat)  OBVIOUS
  <2>2. faults' \in 0..MaxFaults  BY <1>4, WalkTypesOf, ChainTypes, DmakerChainAssumption
  <2>3. active' \subseteq Dmakers /\ init' \subseteq Dmakers /\ needSeed' \subseteq Statefuls
    BY <1>3, WalkTypesOf, ChainTypes DEF Clean
  <2>4. hit' \in BOOLEAN /\ woken' \in BOOLEAN /\ resetting' \in BOOLEAN
    BY <1>4, WalkTypesOf, ChainTypes
  <2>5. data' = <<>> /\ prev' = <<>> /\ out' = "none"  BY <1>3 DEF Clean
  <2> QED  BY <1>4, <2>1, <2>2, <2>3, <2>4, <2>5, WalkTypesOf, ChainTypes DEF ChainTypeOK
<1>6. Trs' = Trs  BY <1>2 DEF Trs, Leaving
<1>7. TypeOK'  BY <1>2, <1>5, <1>6 DEF TypeInv, TypeOK
<1>8. Quiet' /\ InPlay'  BY <1>2, <1>4, WalkTypesOf DEF Quiet, InPlay
<1> QED  BY <1>7, <1>8 DEF TypeInv

\* The rounds of callbacks, and the end of a round.
LEMMA EvaluateTypes ==
  ASSUME TypeInv, NEW hook, Evaluate(hook)
  PROVE  /\ DOMAIN calls' = Steps /\ sel' \in Trs \cup {0} /\ pend' \subseteq Trs
         /\ \A s \in Steps : \A k \in DOMAIN play.next[s] :
               calls'[s][k] \in 0..Qty(play.next[s][k])
<1>1. sel' = After(hook).sel /\ calls' = After(hook).calls /\ pend' = After(hook).pend
  BY DEF Evaluate
<1> QED  BY <1>1, WalkTypesOf, AfterTypes, AfterUnfolded

LEMMA StepTwoTypes == ASSUME TypeInv, StepTwo  PROVE TypeInv'
<1>1. /\ pc = "step2" /\ Evaluate("step2") /\ pc' \in {"replace", "ready"}
      /\ pc' = "replace" => cur \in play.hosts
      /\ UNCHANGED <<chainVars, play, cur, blocked, idx, done, outcome, back, usable, truth, played,
                    leftover, stale>>
  BY DEF StepTwo, process, playHistory
<1> QED  BY <1>1, EvaluateTypes, WalkTypesOf, WalkStepTypes

LEMMA SendTypes == ASSUME TypeInv, Send  PROVE TypeInv'
<1>1. /\ pc = "ready" /\ Evaluate("sending") /\ pc' = "fbk"
      /\ UNCHANGED <<chainVars, play, cur, blocked, idx, done, outcome, back, usable, truth, played,
                    leftover, stale>>
  BY DEF Send, process, playHistory
<1> QED  BY <1>1, EvaluateTypes, WalkTypesOf, WalkStepTypes

LEMMA FeedbackTypes == ASSUME TypeInv, Feedback  PROVE TypeInv'
<1>1. /\ pc = "fbk" /\ Evaluate("fbk") /\ pc' = "final" /\ played' = TRUE
      /\ UNCHANGED <<chainVars, play, cur, idx, done, outcome, back, usable, truth, leftover, stale>>
  BY DEF Feedback, process
<1>2. blocked' \subseteq Steps  BY WalkTypesOf DEF Feedback
<1> QED  BY <1>1, <1>2, EvaluateTypes, WalkTypesOf, WalkStepTypes

\* A round that is given up.
LEMMA GiveUpTypes ==
  ASSUME TypeInv, pc # "dp", GiveUp, UNCHANGED <<chainVars, play, cur, process, playHistory>>,
         blocked' \subseteq Steps, calls' = calls \/ \E hook : calls' = After(hook).calls
  PROVE  TypeInv'
<1>1. /\ pc' = "idle" /\ sel' = 0 /\ pend' = {} /\ truth' = {} /\ usable' = FALSE
      /\ UNCHANGED <<idx, done, outcome, back, played, leftover, stale>>
  BY DEF GiveUp, Forget, process, playHistory
<1>2. /\ DOMAIN calls' = Steps
      /\ \A s \in Steps : \A k \in DOMAIN play.next[s] : calls'[s][k] \in 0..Qty(play.next[s][k])
  <2>1. CASE calls' = calls  BY <2>1, WalkTypesOf
  <2>2. ASSUME NEW hook, calls' = After(hook).calls
        PROVE  /\ DOMAIN calls' = Steps
               /\ \A s \in Steps : \A k \in DOMAIN play.next[s] :
                     calls'[s][k] \in 0..Qty(play.next[s][k])
    BY <2>2, WalkTypesOf, AfterTypes
  <2> QED  BY <2>1, <2>2
<1>3. sel' \in Trs \cup {0} /\ pend' \subseteq Trs /\ truth' \subseteq Trs \X Hooks  BY <1>1
<1> QED  BY <1>1, <1>2, <1>3, WalkTypesOf, WalkStepTypes

LEMMA BlocksTypes == ASSUME TypeInv, StepTwoBlocks  PROVE TypeInv'
<1>1. /\ pc = "step2" /\ GiveUp /\ UNCHANGED <<chainVars, play, cur, process, playHistory>>
      /\ blocked' = blocked \cup {cur} /\ calls' = After("step2").calls
  BY DEF StepTwoBlocks
<1>2. blocked' \subseteq Steps  BY <1>1, WalkTypesOf
<1> QED  BY <1>1, <1>2, GiveUpTypes

LEMMA NotSentTypes == ASSUME TypeInv, NotSent  PROVE TypeInv'
<1>1. blocked' \subseteq Steps  BY WalkTypesOf DEF NotSent
<1> QED  BY <1>1, GiveUpTypes DEF NotSent

LEMMA SendFailsTypes == ASSUME TypeInv, SendFails  PROVE TypeInv'
<1>1. blocked' \subseteq Steps  BY WalkTypesOf DEF SendFails
<1> QED  BY <1>1, GiveUpTypes DEF SendFails

LEMMA UnusableTypes == ASSUME TypeInv, Unusable  PROVE TypeInv'
<1>1. pc = "ready" /\ UNCHANGED <<chainVars, play, cur, calls, blocked, process, playHistory>>
  BY DEF Unusable
<1>2. CASE GiveUp
  <2>1. blocked' \subseteq Steps  BY <1>1, WalkTypesOf
  <2> QED  BY <1>1, <1>2, <2>1, GiveUpTypes
<1>3. CASE pc' = "final" /\ UNCHANGED <<sel, pend, truth, usable>>
  <2>1. UNCHANGED <<idx, done, outcome, back, played, leftover, stale>>
    BY <1>1 DEF process, playHistory
  <2> QED  BY <1>1, <1>3, <2>1, WalkTypesOf, WalkStepTypes
<1> QED  BY <1>2, <1>3 DEF Unusable

\* Where the scenario goes to another step, nothing is selected any more.
LEMMA GoTypes ==
  ASSUME TypeInv, pc \in {"idle", "final"}, pc' = "idle", UNCHANGED <<chainVars, play, back>>,
         cur' \in Steps, blocked' \subseteq Steps, DOMAIN calls' = Steps,
         \A s \in Steps : \A k \in DOMAIN play.next[s] : calls'[s][k] \in 0..Qty(play.next[s][k]),
         idx' = idx \/ idx' = 1,
         done' \in BOOLEAN, outcome' \in BOOLEAN, usable' \in BOOLEAN, played' \in BOOLEAN,
         leftover' \in BOOLEAN, stale' \in BOOLEAN,
         sel' = 0, pend' = {}, truth' = {}
  PROVE  TypeInv'
<1>1. ChainTypeOK'
  <2>1. ChainTypeOK  BY DEF TypeInv, TypeOK
  <2> QED  BY <2>1 DEF ChainTypeOK, chainVars, attrs, walkers, history
<1>2. pos = 0 /\ pos' = pos  BY DEF TypeInv, InPlay, chainVars
<1>3. play' \in Plays /\ (idx' = 1 \/ idx' \in DOMAIN play'.processes)  BY WalkTypesOf DEF TypeOK
<1>4. TypeOK'
  <2>1. {done', outcome', usable', played', leftover', stale'} \subseteq BOOLEAN  OBVIOUS
  <2>2. \A s \in Steps : \A k \in DOMAIN play'.next[s] :
           calls'[s][k] \in 0..Qty(play'.next[s][k])
    OBVIOUS
  <2>3. pc' \in {"idle", "step1", "dp", "step2", "replace", "ready", "fbk", "final"}  OBVIOUS
  <2>4. back' \in {"step1", "replace"}  BY WalkTypesOf
  <2> QED  BY <1>1, <1>3, <2>1, <2>2, <2>3, <2>4 DEF TypeOK
<1>5. Quiet' /\ InPlay'  BY <1>2 DEF Quiet, InPlay
<1> QED  BY <1>4, <1>5 DEF TypeInv

LEMMA FinalTypes == ASSUME TypeInv, Final  PROVE TypeInv'
<1>1. /\ pc = "final" /\ pc' = "idle" /\ sel' = 0 /\ pend' = {} /\ truth' = {} /\ usable' = FALSE
      /\ UNCHANGED <<chainVars, play, calls, blocked, idx, done, back, played, leftover, stale>>
      /\ outcome' \in BOOLEAN
  BY DEF Final, Forget, playHistory
<1>2. cur' \in Steps
  <2>1. cur' = IF sel = 0 THEN cur ELSE Leaving[sel].to  BY DEF Final
  <2> QED  BY <2>1, WalkTypesOf, PlayFacts
<1> QED  BY <1>1, <1>2, WalkTypesOf, GoTypes

\* At the beginning every callback of every transition is still to be called.
LEMMA FreshFacts ==
  ASSUME NEW p \in Plays
  PROVE  /\ DOMAIN Fresh(p) = Steps
         /\ \A s \in Steps : \A k \in DOMAIN p.next[s] :
               /\ Fresh(p)[s][k] = Qty(p.next[s][k]) /\ Qty(p.next[s][k]) \in Nat
<1>1. p.next \in [Steps -> Seq(Transitions)]  BY ScenarioAssumption DEF IsPlay
<1>2. DOMAIN Fresh(p) = Steps
      /\ \A s \in Steps : \A k \in DOMAIN p.next[s] : Fresh(p)[s][k] = Qty(p.next[s][k])
  BY DEF Fresh
<1>3. ASSUME NEW s \in Steps, NEW k \in DOMAIN p.next[s]
      PROVE  Qty(p.next[s][k]) \in Nat
  <2>1. p.next[s][k] \in Transitions  BY <1>1
  <2>2. p.next[s][k].hooks \in SUBSET Hooks  BY <2>1 DEF Transitions
  <2> QED  BY <2>2, HooksFacts DEF Qty
<1> QED  BY <1>2, <1>3

LEMMA EndTypes == ASSUME TypeInv, EndScenario  PROVE TypeInv'
<1>1. /\ pc = "idle" /\ pc' = pc /\ cur' = play.anchor /\ calls' = Fresh(play)
      /\ blocked' = play.silent /\ idx' = 1 /\ done' = FALSE /\ outcome' = FALSE
      /\ played' = FALSE /\ leftover' = FALSE /\ stale' = FALSE
      /\ UNCHANGED <<chainVars, play, back, usable, sel, pend, truth>>
  BY DEF EndScenario
<1>2. play \in Plays /\ IsPlay(play)  BY WalkTypesOf, ScenarioAssumption
<1>3. cur' \in Steps /\ blocked' \subseteq Steps  BY <1>1, <1>2 DEF IsPlay
<1>4. /\ DOMAIN calls' = Steps
      /\ \A s \in Steps : \A k \in DOMAIN play.next[s] : calls'[s][k] \in 0..Qty(play.next[s][k])
  BY <1>1, <1>2, FreshFacts
<1>5. sel' = 0 /\ pend' = {} /\ truth' = {}  BY <1>1, WalkTypesOf DEF Quiet
<1> QED  BY <1>1, <1>3, <1>4, <1>5, WalkTypesOf, GoTypes

LEMMA InitTypes == Init => TypeInv
<1> SUFFICES ASSUME Init  PROVE TypeInv
  OBVIOUS
<1>1. ChainTypeOK /\ pos = 0
  <2>1. ChainInit  BY DEF Init
  <2>2. <<>> \in Seq(Nat) /\ Len(<<>>) = 0  OBVIOUS
  <2>3. /\ chain = <<>> /\ pos = 0 /\ data = <<>> /\ prev = <<>> /\ out = "none"
        /\ resetting = FALSE /\ woken = FALSE /\ hurt = FALSE /\ hit = FALSE
        /\ active = Dmakers /\ needSeed = Statefuls /\ init = {} /\ faults = 0
        /\ made = [d \in Generators |-> 0] /\ src = [d \in Statefuls |-> <<>>]
        /\ case = [d \in Statefuls |-> 0]
    BY <2>1 DEF ChainInit
  <2>4. pos \in 0..Len(chain)  BY <2>2, <2>3
  <2>5. made \in [Generators -> 0..Stock] /\ case \in [Statefuls -> 0..Cases]
        /\ faults \in 0..MaxFaults
    BY <2>3, DmakerChainAssumption
  <2>6. {resetting, woken, hurt, hit} \subseteq BOOLEAN  BY <2>3
  <2>7. src \in [Statefuls -> Seq(Nat)]  BY <2>2, <2>3
  <2> QED  BY <2>2, <2>3, <2>4, <2>5, <2>6, <2>7 DEF ChainTypeOK
<1>2. /\ play \in Plays /\ pc = "idle" /\ cur = play.anchor /\ calls = Fresh(play)
      /\ blocked = play.silent /\ idx = 1 /\ done = FALSE /\ outcome = FALSE
      /\ back = "step1" /\ usable = FALSE /\ sel = 0 /\ pend = {} /\ truth = {}
      /\ played = FALSE /\ leftover = FALSE /\ stale = FALSE
  BY DEF Init, Begin
<1>3. IsPlay(play)  BY <1>2, ScenarioAssumption
<1>4. cur \in Steps /\ blocked \subseteq Steps  BY <1>2, <1>3 DEF IsPlay
<1>5. /\ DOMAIN calls = Steps
      /\ \A s \in Steps : \A k \in DOMAIN play.next[s] : calls[s][k] \in 0..Qty(play.next[s][k])
  BY <1>2, FreshFacts
<1>6. TypeOK
  <2>1. {done, outcome, usable, played, leftover, stale} \subseteq BOOLEAN  BY <1>2
  <2>2. sel \in Trs \cup {0} /\ pend \subseteq Trs /\ truth \subseteq Trs \X Hooks  BY <1>2
  <2>3. pc \in {"idle", "step1", "dp", "step2", "replace", "ready", "fbk", "final"}
        /\ back \in {"step1", "replace"}
    BY <1>2
  <2> QED  BY <1>1, <1>2, <1>4, <1>5, <2>1, <2>2, <2>3 DEF TypeOK
<1>7. Quiet /\ InPlay  BY <1>1, <1>2 DEF Quiet, InPlay
<1> QED  BY <1>6, <1>7 DEF TypeInv

LEMMA TypeStep == TypeInv /\ [Next]_vars => TypeInv'
<1> SUFFICES ASSUME TypeInv, [Next]_vars  PROVE TypeInv'
  OBVIOUS
<1>1. CASE UNCHANGED vars
  <2>1. /\ UNCHANGED <<chainVars, play, pc, cur, blocked, idx, done, outcome, back, usable>>
        /\ UNCHANGED <<sel, pend, calls, truth, played, leftover, stale>>
    BY <1>1 DEF vars, scenarioVars, process, walk, playHistory
  <2>2. ChainTypeOK' /\ pos' = pos /\ resetting' = resetting
    BY <2>1, WalkTypesOf DEF ChainTypeOK, chainVars, attrs, walkers, history
  <2>3. Trs' = Trs  BY <2>1 DEF Trs, Leaving
  <2>4. TypeOK'  BY <2>1, <2>2, <2>3 DEF TypeInv, TypeOK
  <2>5. Quiet' /\ InPlay'  BY <2>1, <2>2, WalkTypesOf DEF Quiet, InPlay
  <2> QED  BY <2>4, <2>5 DEF TypeInv
<1>2. CASE Next
  <2>1. CASE NewData  BY <2>1, NewDataTypes
  <2>2. CASE EndScenario  BY <2>2, EndTypes
  <2>3. CASE StepOne  BY <2>3, StepOneTypes
  <2>4. CASE StepTwo  BY <2>4, StepTwoTypes
  <2>5. CASE StepTwoBlocks  BY <2>5, BlocksTypes
  <2>6. CASE Replace  BY <2>6, ReplaceTypes
  <2>7. CASE Unusable  BY <2>7, UnusableTypes
  <2>8. CASE NotSent  BY <2>8, NotSentTypes
  <2>9. CASE Send  BY <2>9, SendTypes
  <2>10. CASE SendFails  BY <2>10, SendFailsTypes
  <2>11. CASE Feedback  BY <2>11, FeedbackTypes
  <2>12. CASE Final  BY <2>12, FinalTypes
  <2>13. CASE InChain  BY <2>13, InChainTypes
  <2>14. CASE ChainReturns  BY <2>14, ReturnsTypes
  <2>15. CASE UserResets  BY <2>15, ResetTypes
  <2> QED
    BY <1>2, <2>1, <2>2, <2>3, <2>4, <2>5, <2>6, <2>7, <2>8, <2>9, <2>10, <2>11, <2>12, <2>13,
       <2>14, <2>15
    DEF Next
<1> QED  BY <1>1, <1>2

\* TypeOK, and what relates the places where the round and the chain are.
THEOREM TypeCorrect == Spec => []TypeInv
BY InitTypes, TypeStep, PTL DEF Spec
-----------------------------------------------------------------------------
(* How a scenario leaves a step.                                            *)

Hosted == cur \in play.hosts
GuardChosen == sel \in Trs /\ Leaving[sel].guard

\* A DataProcess was resolved, or it has ended and a transition waits for that.
EndsAt(chosen) ==
    \/ usable /\ outcome /\ ~done
    \/ ~usable /\ done /\ chosen
    \/ leftover

EndsInv ==
    /\ pc = "dp" => ~done /\ (back = "step1" => sel = 0) /\ (back = "replace" => leftover)
    /\ pc = "step1" => sel = 0
    /\ pc = "step2" => sel = 0
    /\ pc = "step2" /\ ~Hosted => usable
    /\ pc = "step2" /\ Hosted => EndsAt(Guarded)
    /\ pc = "replace" => EndsAt(GuardChosen)
    /\ pc = "ready" /\ ~usable => sel = 0 \/ GuardChosen \/ leftover
    /\ LeavesAfterPlaying

\* The step and its transitions stay the same.
LEMMA SameStep ==
  ASSUME UNCHANGED <<play, cur>>
  PROVE  /\ Leaving' = Leaving /\ Trs' = Trs /\ (Guarded' <=> Guarded) /\ (Hosted' <=> Hosted)
BY DEF Leaving, Trs, Guarded, Hosted

\* Where nothing is said of the DataProcess.
LEMMA EndsElsewhere ==
  ASSUME pc' \in {"idle", "fbk"} \/ (pc' = "step1" /\ sel' = 0) \/ (pc' = "final" /\ played')
  PROVE  EndsInv'
BY DEF EndsInv, LeavesAfterPlaying

\* What resolving a DataProcess at the first hook leads to.
LEMMA ResolvedEnds ==
  ASSUME TypeInv, UNCHANGED <<play, cur>>, sel' = 0, NEW ok \in BOOLEAN, Resolved(ok, "step1"),
         Hosted => (IF ok THEN outcome' /\ ~done' ELSE done') \/ leftover',
         ok \/ Hosted, done' \in BOOLEAN
  PROVE  EndsInv'
<1>1. /\ usable' = ok /\ pc' = IF ok \/ Guarded THEN "step2" ELSE "ready"
  BY DEF Resolved
<1>2. (Guarded' <=> Guarded) /\ (Hosted' <=> Hosted)  BY SameStep
<1>3. CASE ok
  <2>1. pc' = "step2" /\ usable'  BY <1>1, <1>3
  <2>2. Hosted => EndsAt(Guarded)'  BY <1>2, <1>3, <2>1 DEF EndsAt
  <2> QED  BY <1>2, <2>1, <2>2 DEF EndsInv, LeavesAfterPlaying
<1>4. CASE ~ok /\ Guarded
  <2>1. pc' = "step2" /\ ~usable' /\ Hosted'  BY <1>1, <1>2, <1>4
  <2>2. EndsAt(Guarded)'  BY <1>2, <1>4, <2>1 DEF EndsAt
  <2> QED  BY <1>2, <2>1, <2>2 DEF EndsInv, LeavesAfterPlaying
<1>5. CASE ~ok /\ ~Guarded
  <2>1. pc' = "ready"  BY <1>1, <1>5
  <2> QED  BY <2>1 DEF EndsInv, LeavesAfterPlaying
<1> QED  BY <1>3, <1>4, <1>5

LEMMA StepOneEnds == ASSUME TypeInv, EndsInv, StepOne  PROVE EndsInv'
<1>1. pc = "step1" /\ sel = 0 /\ UNCHANGED <<play, cur, sel>>  BY DEF StepOne, walk, EndsInv
<1>2. CASE ~Hosted /\ Resolved(TRUE, "step1") /\ UNCHANGED <<process, leftover>>
  <2>1. done' \in BOOLEAN  BY <1>2, WalkTypesOf DEF process
  <2> QED  BY <1>1, <1>2, <2>1, ResolvedEnds
<1>3. CASE Hosted /\ Completed("step1")
  <2>1. Resolved(FALSE, "step1") /\ leftover' /\ done' = FALSE  BY <1>3 DEF Completed
  <2> QED  BY <1>1, <1>3, <2>1, ResolvedEnds
<1>4. CASE ~done /\ Run(idx, "step1") /\ UNCHANGED <<done, leftover>>
  <2>1. pc' = "dp" /\ back' = "step1" /\ ~done' /\ sel' = 0  BY <1>1, <1>4 DEF Run
  <2> QED  BY <2>1 DEF EndsInv, LeavesAfterPlaying
<1> QED  BY <1>2, <1>3, <1>4 DEF StepOne, Hosted

\* At the second hook a DataProcess is only resolved again when it was left completed.
LEMMA ReturnsEnds == ASSUME TypeInv, EndsInv, ChainReturns  PROVE EndsInv'
<1>1. /\ pc = "dp" /\ ~done /\ Hosted /\ (back = "step1" => sel = 0)
      /\ back = "replace" => leftover
      /\ UNCHANGED <<play, cur, sel, leftover>>
  BY WalkTypesOf DEF ChainReturns, EndsInv, InPlay, Hosted, walk, playHistory
<1>2. back \in {"step1", "replace"}  BY WalkTypesOf
<1>3. ASSUME NEW k, Run(k, back), UNCHANGED done  PROVE EndsInv'
  <2>1. pc' = "dp" /\ back' = back /\ ~done'  BY <1>1, <1>3 DEF Run
  <2> QED  BY <1>1, <2>1 DEF EndsInv, LeavesAfterPlaying
<1>4. ASSUME NEW ok \in BOOLEAN, Resolved(ok, back),
             IF ok THEN outcome' /\ ~done' ELSE done', done' \in BOOLEAN
      PROVE  EndsInv'
  <2>1. CASE back = "step1"  BY <1>1, <1>4, <2>1, ResolvedEnds
  <2>2. CASE back = "replace"
    <3>1. pc' = "ready" /\ leftover'  BY <1>1, <1>4, <2>2 DEF Resolved
    <3> QED  BY <3>1 DEF EndsInv, LeavesAfterPlaying
  <2> QED  BY <1>2, <2>1, <2>2
<1>5. CASE Resolved(TRUE, back) /\ outcome' = TRUE /\ UNCHANGED done
  <2>1. done' \in BOOLEAN  BY <1>5, WalkTypesOf
  <2> QED  BY <1>1, <1>4, <1>5, <2>1
<1>6. CASE Resolved(FALSE, back) /\ done' = TRUE  BY <1>4, <1>6
<1> QED  BY <1>3, <1>5, <1>6 DEF ChainReturns

\* The transition on the end of the DataProcess is chosen when it has ended, as only the
\* last transition can be crossed without a callback.
LEMMA StepTwoEnds == ASSUME TypeInv, EndsInv, StepTwo  PROVE EndsInv'
<1>1. /\ pc = "step2" /\ pc' = IF cur \in play.altering \cap play.hosts THEN "replace" ELSE "ready"
      /\ UNCHANGED <<play, cur, done, outcome, usable, leftover>> /\ sel' = Chosen("step2")
      /\ sel = 0
  BY AfterUnfolded DEF StepTwo, Evaluate, process, playHistory, EndsInv
<1>2. Leaving' = Leaving /\ Trs' = Trs /\ (Guarded' <=> Guarded) /\ (Hosted' <=> Hosted)
  BY <1>1, SameStep
<1>3. CASE Hosted
  <2>1. EndsAt(Guarded)  BY <1>1, <1>3 DEF EndsInv
  <2>2. ASSUME ~usable, done, Guarded  PROVE GuardChosen'
    <3> DEFINE S == {k \in ToTry : CanNow(k, "step2")}
    <3>1. /\ Len(Leaving) \in Nat /\ Trs = 1..Len(Leaving)
          /\ \A k \in Trs : /\ Leaving[k].hooks \in SUBSET Hooks /\ Leaving[k].guard \in BOOLEAN
                            /\ Leaving[k].guard => Leaving[k].hooks = {}
                            /\ Leaving[k].hooks = {} => Leaving[k].guard \/ k = Len(Leaving)
      BY WalkTypesOf, PlayFacts
    <3>2. ToTry = Trs  BY <1>1 DEF ToTry
    <3>3. \A k \in Trs : ~Says(k, "step2")  BY <3>1 DEF Says, Hooks
    <3>4. \A k \in Trs : k \in S <=> Leaving[k].guard \/ Leaving[k].hooks = {}
      BY <1>1, <2>2, <3>1, <3>2, <3>3 DEF CanNow
    <3>5. PICK g \in Trs : Leaving[g].guard  BY <2>2 DEF Guarded
    <3>6. S \subseteq 1..Len(Leaving) /\ g \in S  BY <3>1, <3>2, <3>4, <3>5
    <3>7. Crossed(S) = First("step2")  BY DEF First
    <3> HIDE DEF S
    <3>8. Crossed(S) \in S /\ Crossed(S) <= g  BY <3>1, <3>6, CrossedIsFirst
    <3>9. Crossed(S) \in Trs /\ Crossed(S) # 0
      <4>1. Crossed(S) \in 1..Len(Leaving)  BY <3>6, <3>8
      <4>2. Trs = 1..Len(Leaving) /\ Len(Leaving) \in Nat  BY <3>1
      <4> QED  BY <4>1, <4>2
    <3>10. Leaving[Crossed(S)].guard
      <4>1. CASE Leaving[Crossed(S)].hooks = {} /\ ~Leaving[Crossed(S)].guard
        <5>1. Crossed(S) = Len(Leaving)  BY <3>1, <3>9, <4>1
        <5>2. Crossed(S) = g  BY <3>1, <3>5, <3>8, <5>1
        <5> QED  BY <3>5, <5>2
      <4> QED  BY <3>4, <3>8, <3>9, <4>1
    <3>11. sel' = Crossed(S)  BY <1>1, <3>7, <3>9 DEF Chosen
    <3> QED  BY <1>2, <3>9, <3>10, <3>11 DEF GuardChosen
  <2>3. EndsAt(GuardChosen)'  BY <1>1, <2>1, <2>2 DEF EndsAt
  <2> QED  BY <1>1, <2>3 DEF EndsInv, EndsAt, LeavesAfterPlaying
<1>4. CASE ~Hosted
  <2>1. usable' /\ pc' = "ready"  BY <1>1, <1>4 DEF EndsInv, Hosted
  <2> QED  BY <2>1 DEF EndsInv, LeavesAfterPlaying
<1> QED  BY <1>3, <1>4

LEMMA ReplaceEnds == ASSUME TypeInv, EndsInv, Replace  PROVE EndsInv'
<1>1. pc = "replace" /\ EndsAt(GuardChosen) /\ UNCHANGED <<play, cur, sel>>
  BY DEF Replace, EndsInv, walk
<1>2. GuardChosen' <=> GuardChosen  BY <1>1, SameStep DEF GuardChosen
<1>3. CASE Completed("replace")
  <2>1. pc' = "ready" /\ done /\ leftover' = leftover
    BY <1>3, WalkTypesOf DEF Completed, Resolved
  <2>2. GuardChosen' \/ leftover'  BY <1>1, <1>2, <2>1 DEF EndsAt
  <2> QED  BY <2>1, <2>2 DEF EndsInv, LeavesAfterPlaying
<1>4. CASE Resolved(TRUE, "replace")
  <2>1. pc' = "ready" /\ usable'  BY <1>4 DEF Resolved
  <2> QED  BY <2>1 DEF EndsInv, LeavesAfterPlaying
<1>5. CASE ~done /\ ~outcome /\ Run(idx, "replace") /\ UNCHANGED <<done, leftover>>
  <2>1. leftover  BY <1>1, <1>5 DEF EndsAt
  <2>2. pc' = "dp" /\ back' = "replace" /\ ~done' /\ leftover'  BY <1>5, <2>1 DEF Run
  <2> QED  BY <2>2 DEF EndsInv, LeavesAfterPlaying
<1> QED  BY <1>3, <1>4, <1>5 DEF Replace

LEMMA UnusableEnds == ASSUME TypeInv, EndsInv, Unusable  PROVE EndsInv'
<1>1. pc = "ready" /\ (sel = 0 \/ GuardChosen \/ leftover) /\ UNCHANGED <<play, cur, leftover>>
  BY DEF Unusable, EndsInv, playHistory
<1>2. CASE GiveUp  BY <1>2, EndsElsewhere DEF GiveUp
<1>3. CASE pc' = "final" /\ UNCHANGED sel
  <2>1. sel' # 0 => Leaving'[sel'].guard \/ leftover'  BY <1>1, <1>3, SameStep DEF GuardChosen
  <2> QED  BY <1>3, <2>1 DEF EndsInv, LeavesAfterPlaying
<1> QED  BY <1>2, <1>3 DEF Unusable

LEMMA EndsStep == TypeInv /\ EndsInv /\ [Next]_vars => EndsInv'
<1> SUFFICES ASSUME TypeInv, EndsInv, [Next]_vars  PROVE EndsInv'
  OBVIOUS
<1>1. CASE UNCHANGED vars \/ InChain \/ UserResets
  <2>1. UNCHANGED <<play, pc, cur, done, outcome, back, usable, sel, played, leftover>>
    BY <1>1 DEF vars, InChain, UserResets, scenarioVars, process, walk, playHistory
  <2>2. Leaving' = Leaving /\ Trs' = Trs /\ (Guarded' <=> Guarded) /\ (Hosted' <=> Hosted)
    BY <2>1, SameStep
  <2> QED  BY <2>1, <2>2 DEF EndsInv, EndsAt, GuardChosen, LeavesAfterPlaying
<1>2. CASE NewData
  <2>1. sel = 0  BY <1>2, WalkTypesOf DEF NewData, Quiet
  <2>2. pc' \in {"step1", "fbk"} /\ sel' = 0  BY <1>2, <2>1 DEF NewData, walk
  <2> QED  BY <2>2, EndsElsewhere
<1>3. CASE EndScenario  BY <1>3, EndsElsewhere DEF EndScenario
<1>4. CASE StepTwoBlocks \/ NotSent \/ SendFails
  BY <1>4, EndsElsewhere DEF StepTwoBlocks, NotSent, SendFails, GiveUp
<1>5. CASE Send  BY <1>5, EndsElsewhere DEF Send
<1>6. CASE Feedback  BY <1>6, EndsElsewhere DEF Feedback
<1>7. CASE Final  BY <1>7, EndsElsewhere DEF Final
<1> QED
  BY <1>1, <1>2, <1>3, <1>4, <1>5, <1>6, <1>7, StepOneEnds, ReturnsEnds, StepTwoEnds, ReplaceEnds,
     UnusableEnds
  DEF Next

\* scenario.py, DynGeneratorFromScenario: for any scenarios with a guard on the end of a
\* DataProcess, whatever fails or is blocked, only that guard makes the scenario leave a step
\* it has not played, unless an earlier visit had left the DataProcess completed.
THEOREM LeavesPlayed == Spec => []LeavesAfterPlaying
<1>1. Init => EndsInv
  <2> SUFFICES ASSUME Init  PROVE EndsInv
    OBVIOUS
  <2>1. pc = "idle"  BY DEF Init, Begin
  <2> QED  BY <2>1 DEF EndsInv, LeavesAfterPlaying
<1>2. EndsInv => LeavesAfterPlaying  BY DEF EndsInv
<1> QED  BY <1>1, <1>2, InitTypes, TypeStep, EndsStep, PTL DEF Spec
-----------------------------------------------------------------------------
(* Which transition is crossed.                                             *)

\* What a transition would do if the callbacks of all these hooks were called at once.
CanBy(k, H) ==
    IF Leaving[k].guard THEN done ELSE Leaving[k].hooks = {} \/ \E h \in H : Says(k, h)
AllBy(H) == {k \in Trs : CanBy(k, H)}

Untried == sel = 0 /\ pend = {}
AtRest == \A k \in Trs : calls[cur][k] \in {0, Qty(Leaving[k])}

\* The callbacks of these hooks were called: the transition selected is the first that can
\* be by any of them, and those before it wait for their other callbacks.
Tried(H) ==
    /\ sel = Crossed(AllBy(H))
    /\ \A k \in Trs : sel = 0 \/ k <= sel => calls[cur][k] = Cardinality(Leaving[k].hooks \ H)
    /\ sel # 0 => pend = {k \in Trs : calls[cur][k] > 0 /\ k <= sel}

Beginning == pc \in {"idle", "step1", "step2"} \/ (pc = "dp" /\ back = "step1")
Replacing == pc = "replace" \/ (pc = "dp" /\ back = "replace") \/ (pc = "ready" /\ usable)

RoundsInv ==
    /\ Beginning => Untried
    /\ ~stale /\ Beginning /\ pc # "idle" => AtRest
    /\ ~stale /\ Replacing => Tried({})
    /\ ~stale /\ pc = "fbk" => \/ Tried({"sending"})
                               \/ Untried /\ \A k \in Trs : ~Says(k, "sending")
    /\ FirstTransition

LEMMA SameRound ==
  ASSUME UNCHANGED <<play, cur, calls, sel, pend, truth>>
  PROVE  /\ Leaving' = Leaving /\ Trs' = Trs
         /\ \A k, h : Says(k, h)' <=> Says(k, h)
         /\ (AtRest' <=> AtRest) /\ (Untried' <=> Untried)
         /\ done' = done => \A H : (Tried(H)' <=> Tried(H))
<1>1. Leaving' = Leaving  BY DEF Leaving
<1>2. Trs' = Trs  BY <1>1 DEF Trs
<1>3. \A k, h : Says(k, h)' <=> Says(k, h)  BY <1>1 DEF Says
<1>4. AtRest' <=> AtRest  BY <1>1, <1>2 DEF AtRest, Qty
<1>5. Untried' <=> Untried  BY DEF Untried
<1>6. ASSUME done' = done, NEW H  PROVE Tried(H)' <=> Tried(H)
  <2>1. \A k : CanBy(k, H)' <=> CanBy(k, H)  BY <1>1, <1>3, <1>6 DEF CanBy
  <2>2. AllBy(H)' = AllBy(H)  BY <1>2, <2>1 DEF AllBy
  <2> QED  BY <1>1, <1>2, <2>2 DEF Tried
<1> QED  BY <1>1, <1>2, <1>3, <1>4, <1>5, <1>6

\* The transitions that can be crossed by the hooks called so far.
LEMMA AllByFacts ==
  ASSUME TypeOK, NEW H
  PROVE  /\ AllBy(H) = {} <=> Crossed(AllBy(H)) = 0
         /\ AllBy(H) # {} => Crossed(AllBy(H)) \in AllBy(H)
         /\ \A k \in AllBy(H) : Crossed(AllBy(H)) <= k
         /\ \A k \in AllBy(H) : (\A j \in AllBy(H) : k <= j) => Crossed(AllBy(H)) = k
<1>1. Len(Leaving) \in Nat /\ AllBy(H) \subseteq 1..Len(Leaving)  BY PlayFacts DEF AllBy
<1> QED  BY <1>1, CrossedIsFirst

\* The first round of a walk looks at all the transitions.
LEMMA FirstTry ==
  ASSUME TypeOK, sel = 0, NEW hook
  PROVE  Chosen(hook) = Crossed(AllBy({hook}))
<1>1. ToTry = Trs  BY DEF ToTry
<1>2. \A k \in Trs : CanNow(k, hook) <=> CanBy(k, {hook})  BY DEF CanNow, CanBy
<1>3. First(hook) = Crossed(AllBy({hook}))  BY <1>1, <1>2 DEF First, AllBy
<1> QED  BY <1>3 DEF Chosen

\* A later round only has to look at what precedes the selected transition.
LEMMA NextTry ==
  ASSUME TypeOK, NEW H \in SUBSET Hooks, NEW hook \in Hooks \ H, Tried(H)
  PROVE  Chosen(hook) = Crossed(AllBy(H \cup {hook})) /\ (sel # 0 => Chosen(hook) <= sel)
<1> DEFINE A == AllBy(H)
           B == AllBy(H \cup {hook})
           S == {k \in ToTry : CanNow(k, hook)}
<1>1. /\ Len(Leaving) \in Nat /\ Trs = 1..Len(Leaving) /\ sel \in Trs \cup {0}
      /\ \A k \in Trs : Leaving[k].hooks \in SUBSET Hooks
  BY PlayFacts DEF TypeOK
<1>2. sel = Crossed(A)  BY DEF Tried
<1>3. ToTry \subseteq Trs  BY DEF ToTry, TypeOK
<1>4. First(hook) = Crossed(S)  BY DEF First
<1>5. /\ S = {} <=> Crossed(S) = 0
      /\ S # {} => Crossed(S) \in S
      /\ \A k \in S : Crossed(S) <= k
  <2>1. S \subseteq 1..Len(Leaving)  BY <1>1, <1>3
  <2> HIDE DEF S
  <2> QED  BY <1>1, <2>1, CrossedIsFirst
<1>6. \A k \in Trs : k \in B <=> k \in A \/ Says(k, hook)
  <2>1. \A k \in Trs : Leaving[k].guard => Leaving[k].hooks = {}  BY PlayFacts
  <2>2. \A k \in Trs : CanBy(k, H \cup {hook}) <=> CanBy(k, H) \/ Says(k, hook)
    BY <2>1 DEF CanBy, Says
  <2> QED  BY <2>2 DEF AllBy
<1>7. CASE sel = 0
  <2>1. A = {}  BY <1>2, <1>7, AllByFacts
  <2>2. \A k \in Trs : CanNow(k, hook) <=> Says(k, hook)
    <3> TAKE k \in Trs
    <3>1. ~CanBy(k, H)  BY <2>1 DEF AllBy
    <3>2. Leaving[k].guard => Leaving[k].hooks = {}  BY PlayFacts
    <3> QED  BY <1>7, <3>1, <3>2 DEF CanNow, CanBy, Says
  <2>3. S = B  BY <1>6, <1>7, <2>1, <2>2 DEF ToTry, AllBy
  <2> HIDE DEF S, B
  <2> QED  BY <1>4, <1>7, <2>3 DEF Chosen, B
<1>8. CASE sel # 0
  <2>1. /\ sel \in A /\ sel \in Trs /\ \A k \in A : sel <= k
    BY <1>1, <1>2, <1>8, AllByFacts
  <2>2. pend = {k \in Trs : calls[cur][k] > 0 /\ k <= sel}  BY <1>8 DEF Tried
  <2>3. \A k \in Trs : k \in S <=> k \in pend /\ Says(k, hook)
    BY <1>3, <1>8 DEF ToTry, CanNow
  <2>4. ASSUME NEW k \in Trs, k < sel, Says(k, hook)  PROVE k \in S
    <3>1. calls[cur][k] = Cardinality(Leaving[k].hooks \ H)
      <4>1. k <= sel  BY <1>1, <2>1, <2>4
      <4> QED  BY <4>1 DEF Tried
    <3>2. hook \in Leaving[k].hooks \ H  BY <2>4 DEF Says
    <3>3. Cardinality(Leaving[k].hooks \ H) > 0
      <4> DEFINE R == Leaving[k].hooks \ H
      <4>1. R \in SUBSET Hooks /\ hook \in R  BY <1>1, <3>2
      <4> HIDE DEF R
      <4>2. Cardinality(R) > 0  BY <4>1, HooksFacts DEF Hooks
      <4> QED  BY <4>2 DEF R
    <3>4. k <= sel  BY <1>1, <2>1, <2>4
    <3> QED  BY <2>2, <2>3, <2>4, <3>1, <3>3, <3>4
  <2>5. sel \in B  BY <1>6, <2>1
  <2> HIDE DEF S, A, B
  <2>6. CASE S = {}
    <3>1. \A j \in B : sel <= j
      <4> TAKE j \in B
      <4>1. j \in Trs  BY DEF B, AllBy
      <4>2. CASE j < sel
        <5>1. j \notin A  BY <1>1, <2>1, <4>1, <4>2
        <5> QED  BY <1>6, <2>4, <2>6, <4>1, <4>2, <5>1
      <4> QED  BY <1>1, <2>1, <4>1, <4>2
    <3>2. Crossed(B) = sel  BY <2>5, <3>1, AllByFacts DEF B
    <3>3. Chosen(hook) = sel  BY <1>4, <1>5, <2>6 DEF Chosen
    <3> QED  BY <1>1, <2>1, <3>2, <3>3 DEF B
  <2>7. CASE S # {}
    <3> DEFINE f == Crossed(S)
    <3>1. f \in S /\ f # 0 /\ \A j \in S : f <= j  BY <1>5, <2>7
    <3>2. f \in Trs /\ f \in pend /\ Says(f, hook)
      <4>1. S \subseteq Trs  BY <1>3 DEF S
      <4> QED  BY <2>3, <3>1, <4>1
    <3>3. f <= sel /\ f \in B  BY <1>6, <2>2, <3>2
    <3> HIDE DEF f
    <3>4. \A j \in B : f <= j
      <4> TAKE j \in B
      <4>1. j \in Trs  BY DEF B, AllBy
      <4>2. CASE j < f
        <5>1. j < sel  BY <1>1, <2>1, <3>2, <3>3, <4>1, <4>2
        <5>2. j \notin A  BY <1>1, <2>1, <4>1, <5>1
        <5>3. j \in S  BY <1>6, <2>4, <4>1, <5>1, <5>2
        <5> QED  BY <3>1, <5>3
      <4> QED  BY <1>1, <3>2, <4>1, <4>2
    <3>5. Crossed(B) = f  BY <3>3, <3>4, AllByFacts DEF B
    <3>6. Chosen(hook) = f  BY <1>4, <3>1 DEF Chosen, f
    <3> QED  BY <3>3, <3>5, <3>6 DEF B
  <2> QED  BY <2>6, <2>7
<1> QED  BY <1>7, <1>8

\* What the callbacks have counted at the end of a round that began at rest.
LEMMA CountAtStepTwo ==
  ASSUME TypeOK, sel = 0, AtRest, NEW k \in Trs, Chosen("step2") = 0 \/ k <= Chosen("step2")
  PROVE  Now("step2")[k] = Cardinality(Leaving[k].hooks)
<1>1. /\ Trs = 1..Len(Leaving) /\ Leaving[k].hooks \in SUBSET Hooks
      /\ calls[cur][k] \in {0, Qty(Leaving[k])} /\ ToTry = Trs
  BY PlayFacts DEF AtRest, ToTry
<1>2. Qty(Leaving[k]) = Cardinality(Leaving[k].hooks)  BY DEF Qty
<1>3. CASE Leaving[k].hooks = {}
  <2>1. Now("step2")[k] = calls[cur][k]  BY <1>3 DEF Now, AreTried
  <2> QED  BY <1>1, <1>2, <1>3, <2>1, CountHooks
<1>4. CASE Leaving[k].hooks # {}
  <2>1. k \in AreTried("step2")  BY <1>1, <1>4 DEF AreTried, Chosen
  <2>2. "step2" \notin Leaving[k].hooks  BY <1>1 DEF Hooks
  <2>3. Now("step2")[k] = Qty(Leaving[k])  BY <1>1, <2>1, <2>2 DEF Now, Called
  <2> QED  BY <1>2, <2>3
<1> QED  BY <1>3, <1>4

LEMMA CountAtSending ==
  ASSUME TypeOK, Tried({}), NEW k \in Trs,
         Chosen("sending") = 0 \/ k <= Chosen("sending"), sel # 0 => Chosen("sending") <= sel
  PROVE  Now("sending")[k] = Cardinality(Leaving[k].hooks \ {"sending"})
<1>1. /\ Trs = 1..Len(Leaving) /\ Len(Leaving) \in Nat /\ Leaving[k].hooks \in SUBSET Hooks
      /\ sel \in Trs \cup {0} /\ Chosen("sending") \in Trs \cup {0}
  BY PlayFacts, AfterTypes DEF TypeOK
<1>2. sel = 0 \/ k <= sel  BY <1>1 DEF Chosen
<1>3. calls[cur][k] = Cardinality(Leaving[k].hooks)
  <2>1. Leaving[k].hooks \ {} = Leaving[k].hooks  OBVIOUS
  <2> QED  BY <1>2, <2>1 DEF Tried
<1>4. CASE Leaving[k].hooks = {}
  <2>1. Now("sending")[k] = calls[cur][k]  BY <1>4 DEF Now, AreTried
  <2>2. Leaving[k].hooks \ {"sending"} = {}  BY <1>4
  <2> QED  BY <1>3, <1>4, <2>1, <2>2
<1>5. CASE Leaving[k].hooks # {}
  <2> DEFINE R == Leaving[k].hooks
  <2>1. calls[cur][k] = Cardinality(R) /\ Cardinality(R) \in Nat \ {0}
    <3>1. R \in SUBSET Hooks /\ R # {}  BY <1>1, <1>5
    <3> HIDE DEF R
    <3>2. Cardinality(R) = (IF "sending" \in R THEN 1 ELSE 0) + (IF "fbk" \in R THEN 1 ELSE 0)
      BY <3>1, HooksFacts
    <3>3. "sending" \in R \/ "fbk" \in R  BY <3>1 DEF Hooks
    <3>4. Cardinality(R) \in Nat \ {0}  BY <3>2, <3>3
    <3> QED  BY <1>3, <3>4 DEF R
  <2>2. k \in ToTry  BY <1>2, <2>1 DEF ToTry, Tried
  <2>3. k \in AreTried("sending")  BY <1>1, <1>5, <2>2 DEF AreTried, Chosen
  <2>4. Now("sending")[k] = IF "sending" \in R THEN calls[cur][k] - 1 ELSE calls[cur][k]
    BY <2>1, <2>3 DEF Now, Called
  <2>5. Cardinality(R \ {"sending"}) = IF "sending" \in R THEN Cardinality(R) - 1 ELSE Cardinality(R)
    <3>1. R \in SUBSET Hooks /\ R \ {"sending"} \in SUBSET Hooks  BY <1>1
    <3> HIDE DEF R
    <3> QED  BY <3>1, HooksFacts DEF Hooks
  <2> QED  BY <2>1, <2>4, <2>5
<1> QED  BY <1>4, <1>5

\* After a round of callbacks the transitions are tried for one more hook.
LEMMA TriedAfter ==
  ASSUME TypeOK, NEW hook, Evaluate(hook), UNCHANGED <<play, cur, truth, done>>, NEW H,
         Chosen(hook) = Crossed(AllBy(H)),
         \A k \in Trs : Chosen(hook) = 0 \/ k <= Chosen(hook)
                        => Now(hook)[k] = Cardinality(Leaving[k].hooks \ H)
  PROVE  Tried(H)'
<1>1. sel' = Chosen(hook) /\ calls'[cur] = Now(hook) /\ cur' = cur
      /\ pend' = {k \in Trs : Now(hook)[k] > 0 /\ k <= Chosen(hook)}
  BY AfterUnfolded, AfterTypes DEF Evaluate
<1>2. Leaving' = Leaving /\ Trs' = Trs  BY SameStep
<1>3. \A k : CanBy(k, H)' <=> CanBy(k, H)  BY <1>2 DEF CanBy, Says
<1>4. AllBy(H)' = AllBy(H)  BY <1>2, <1>3 DEF AllBy
<1> QED  BY <1>1, <1>2, <1>4 DEF Tried

\* The walk is somewhere else, and nothing is to be said of the round.
LEMMA RoundsElsewhere ==
  ASSUME pc' = "idle" => sel' = 0 /\ pend' = {},
         pc' = "idle" \/ (pc' = "ready" /\ ~usable') \/ (pc' = "final" /\ ~played')
  PROVE  RoundsInv'
BY DEF RoundsInv, Beginning, Untried, Replacing, FirstTransition

LEMMA NewDataRounds == ASSUME TypeInv, RoundsInv, NewData  PROVE RoundsInv'
<1>1. /\ pc = "idle" /\ sel = 0 /\ pend = {} /\ UNCHANGED <<play, cur, calls, sel, pend>>
      /\ stale' = \E k \in Trs : calls[cur][k] \in 1..Qty(Leaving[k]) - 1
      /\ pc' = IF cur \in blocked THEN "fbk" ELSE "step1"
  BY WalkTypesOf DEF NewData, Quiet, walk
<1>2. Leaving' = Leaving /\ Trs' = Trs  BY <1>1, SameStep
<1>3. Untried'  BY <1>1 DEF Untried
<1>4. ~stale' => AtRest'
  <2>1. ASSUME ~stale', NEW k \in Trs  PROVE calls[cur][k] \in {0, Qty(Leaving[k])}
    <3>1. calls[cur][k] \in 0..Qty(Leaving[k]) /\ Qty(Leaving[k]) \in Nat
      BY WalkTypesOf, CalledTypes
    <3>2. calls[cur][k] \notin 1..Qty(Leaving[k]) - 1  BY <1>1, <2>1
    <3> QED  BY <3>1, <3>2
  <2> QED  BY <1>1, <1>2, <2>1 DEF AtRest, Qty
<1>5. CASE cur \in blocked
  <2>1. truth' \in SUBSET {t \in Trs \X Hooks :
                        t[2] \in Leaving[t[1]].hooks /\ (cur \in blocked => t[2] = "fbk")}
    BY DEF NewData
  <2>2. \A k \in Trs : <<k, "sending">> \notin truth'
    <3> SUFFICES ASSUME NEW k \in Trs, <<k, "sending">> \in truth'  PROVE FALSE
      OBVIOUS
    <3>1. <<k, "sending">>[2] = "fbk"  BY <1>5, <2>1
    <3> QED  BY <3>1
  <2>3. \A k \in Trs' : ~Says(k, "sending")'  BY <1>2, <2>2 DEF Says
  <2>4. pc' = "fbk"  BY <1>1, <1>5
  <2> QED  BY <1>3, <2>3, <2>4 DEF RoundsInv, Beginning, Replacing, FirstTransition
<1>6. CASE cur \notin blocked
  <2>1. pc' = "step1"  BY <1>1, <1>6
  <2> QED  BY <1>3, <1>4, <2>1 DEF RoundsInv, Beginning, Replacing, FirstTransition
<1> QED  BY <1>5, <1>6

\* The resolution of the DataProcess does not touch the transitions.
LEMMA ResolutionRounds ==
  ASSUME TypeInv, RoundsInv, UNCHANGED <<play, cur, calls, sel, pend, truth, stale>>,
         \/ /\ Beginning /\ pc # "idle"
            /\ \/ pc' = "step2" \/ (pc' = "dp" /\ back' = "step1")
               \/ (pc' = "ready" /\ ~usable')
         \/ /\ Replacing
            /\ \/ (pc' = "dp" /\ back' = "replace" /\ done' = done)
               \/ pc' = "ready" /\ (usable' => done' = done)
  PROVE  RoundsInv'
<1>1. /\ (AtRest' <=> AtRest) /\ (Untried' <=> Untried)
      /\ done' = done => (Tried({})' <=> Tried({}))
  BY SameRound
<1>2. CASE Beginning /\ pc # "idle"
  <2>1. Untried /\ (~stale => AtRest)  BY <1>2 DEF RoundsInv
  <2>2. CASE pc' = "step2" \/ (pc' = "dp" /\ back' = "step1")
    BY <1>1, <2>1, <2>2 DEF RoundsInv, Beginning, Replacing, FirstTransition
  <2>3. CASE pc' = "ready" /\ ~usable'  BY <2>3, RoundsElsewhere
  <2>4. CASE Replacing  BY <1>2, <2>4 DEF Beginning, Replacing
  <2> QED  BY <2>2, <2>3, <2>4
<1>3. CASE Replacing
  <2>1. ~stale => Tried({})  BY <1>3 DEF RoundsInv
  <2>2. CASE pc' = "ready" /\ ~usable'  BY <2>2, RoundsElsewhere
  <2>3. CASE pc' = "ready" /\ usable' /\ done' = done
    BY <1>1, <2>1, <2>3 DEF RoundsInv, Beginning, Replacing, FirstTransition
  <2>4. CASE pc' = "dp" /\ back' = "replace" /\ done' = done
    BY <1>1, <2>1, <2>4 DEF RoundsInv, Beginning, Replacing, FirstTransition
  <2>5. CASE Beginning /\ pc # "idle"  BY <1>2, <2>5
  <2> QED  BY <2>2, <2>3, <2>4, <2>5
<1> QED  BY <1>2, <1>3

LEMMA StepOneRounds == ASSUME TypeInv, RoundsInv, StepOne  PROVE RoundsInv'
<1>1. /\ pc = "step1" /\ UNCHANGED <<play, cur, calls, sel, pend, truth, stale>>
  BY DEF StepOne, walk
<1>2. Beginning /\ pc # "idle"  BY <1>1 DEF Beginning
<1>3. pc' = "step2" \/ (pc' = "dp" /\ back' = "step1") \/ (pc' = "ready" /\ ~usable')
  BY DEF StepOne, Resolved, Completed, Run
<1> QED  BY <1>1, <1>2, <1>3, ResolutionRounds

LEMMA ReturnsRounds == ASSUME TypeInv, RoundsInv, ChainReturns  PROVE RoundsInv'
<1>1. /\ pc = "dp" /\ UNCHANGED <<play, cur, calls, sel, pend, truth, stale>>
  BY DEF ChainReturns, walk, playHistory
<1>2. CASE back = "step1"
  <2>1. Beginning /\ pc # "idle"  BY <1>1, <1>2 DEF Beginning
  <2>2. pc' = "step2" \/ (pc' = "dp" /\ back' = "step1") \/ (pc' = "ready" /\ ~usable')
    BY <1>2 DEF ChainReturns, Resolved, Run
  <2> QED  BY <1>1, <2>1, <2>2, ResolutionRounds
<1>3. CASE back = "replace"
  <2>1. Replacing  BY <1>1, <1>3 DEF Replacing
  <2>2. \/ (pc' = "dp" /\ back' = "replace" /\ done' = done)
        \/ pc' = "ready" /\ (usable' => done' = done)
    BY <1>3 DEF ChainReturns, Resolved, Run
  <2> QED  BY <1>1, <2>1, <2>2, ResolutionRounds
<1> QED  BY <1>2, <1>3, WalkTypesOf

LEMMA ReplaceRounds == ASSUME TypeInv, RoundsInv, Replace  PROVE RoundsInv'
<1>1. /\ pc = "replace" /\ UNCHANGED <<play, cur, calls, sel, pend, truth, stale>>
  BY DEF Replace, walk
<1>2. Replacing  BY <1>1 DEF Replacing
<1>3. \/ (pc' = "dp" /\ back' = "replace" /\ done' = done)
      \/ pc' = "ready" /\ (usable' => done' = done)
  BY DEF Replace, Resolved, Completed, Run, process
<1> QED  BY <1>1, <1>2, <1>3, ResolutionRounds

LEMMA StepTwoRounds == ASSUME TypeInv, RoundsInv, StepTwo  PROVE RoundsInv'
<1>1. /\ pc = "step2" /\ Evaluate("step2") /\ UNCHANGED <<play, cur, truth, done, stale, usable>>
      /\ pc' \in {"replace", "ready"}
  BY DEF StepTwo, process, playHistory
<1>2. sel = 0 /\ (~stale => AtRest)  BY <1>1 DEF RoundsInv, Beginning, Untried
<1>3. ASSUME ~stale  PROVE Tried({})'
  <2>1. \A k : CanBy(k, {"step2"}) <=> CanBy(k, {}) \/ (~Leaving[k].guard /\ Says(k, "step2"))
    BY DEF CanBy
  <2>2. \A k \in Trs : ~Says(k, "step2")
    <3>1. \A k \in Trs : Leaving[k].hooks \in SUBSET Hooks  BY WalkTypesOf, PlayFacts
    <3> QED  BY <3>1 DEF Says, Hooks
  <2>3. AllBy({"step2"}) = AllBy({})  BY <2>1, <2>2 DEF AllBy
  <2>4. Chosen("step2") = Crossed(AllBy({}))  BY <1>2, <2>3, WalkTypesOf, FirstTry
  <2>5. \A k \in Trs : Chosen("step2") = 0 \/ k <= Chosen("step2")
                      => Now("step2")[k] = Cardinality(Leaving[k].hooks \ {})
    <3>1. \A k : Leaving[k].hooks \ {} = Leaving[k].hooks  OBVIOUS
    <3> QED  BY <1>2, <1>3, <3>1, WalkTypesOf, CountAtStepTwo
  <2> QED  BY <1>1, <2>4, <2>5, WalkTypesOf, TriedAfter
<1> QED  BY <1>1, <1>3 DEF RoundsInv, Beginning, Replacing, FirstTransition

LEMMA SendRounds == ASSUME TypeInv, RoundsInv, Send  PROVE RoundsInv'
<1>1. /\ pc = "ready" /\ usable /\ Evaluate("sending") /\ pc' = "fbk"
      /\ UNCHANGED <<play, cur, truth, done, stale, usable>>
  BY DEF Send, process, playHistory
<1>2. ASSUME ~stale  PROVE Tried({"sending"})'
  <2>1. Tried({})  BY <1>1, <1>2 DEF RoundsInv, Replacing
  <2>2. Chosen("sending") = Crossed(AllBy({"sending"})) /\ (sel # 0 => Chosen("sending") <= sel)
    <3>1. {} \in SUBSET Hooks /\ "sending" \in Hooks \ {} /\ {} \cup {"sending"} = {"sending"}
      BY DEF Hooks
    <3> QED  BY <2>1, <3>1, WalkTypesOf, NextTry
  <2>3. \A k \in Trs : Chosen("sending") = 0 \/ k <= Chosen("sending")
                      => Now("sending")[k] = Cardinality(Leaving[k].hooks \ {"sending"})
    BY <2>1, <2>2, WalkTypesOf, CountAtSending
  <2> QED  BY <1>1, <2>2, <2>3, WalkTypesOf, TriedAfter
<1> QED  BY <1>1, <1>2 DEF RoundsInv, Beginning, Replacing, FirstTransition

LEMMA FeedbackRounds == ASSUME TypeInv, RoundsInv, Feedback  PROVE RoundsInv'
<1>1. /\ pc = "fbk" /\ pc' = "final" /\ UNCHANGED <<play, cur, truth, done, stale>>
      /\ sel' = Chosen("fbk")
  BY AfterUnfolded DEF Feedback, Evaluate, process
<1>2. ASSUME ~stale  PROVE Chosen("fbk") = Crossed(AllBy(Hooks))
  <2>1. CASE Tried({"sending"})
    <3>1. {"sending"} \in SUBSET Hooks /\ "fbk" \in Hooks \ {"sending"}
          /\ {"sending"} \cup {"fbk"} = Hooks
      BY DEF Hooks
    <3> QED  BY <2>1, <3>1, WalkTypesOf, NextTry
  <2>2. CASE Untried /\ \A k \in Trs : ~Says(k, "sending")
    <3>1. \A k \in Trs : CanBy(k, Hooks) <=> CanBy(k, {"fbk"})  BY <2>2 DEF CanBy, Hooks
    <3>2. AllBy(Hooks) = AllBy({"fbk"})  BY <3>1 DEF AllBy
    <3> QED  BY <2>2, <3>2, WalkTypesOf, FirstTry DEF Untried
  <2> QED  BY <1>1, <1>2, <2>1, <2>2 DEF RoundsInv
<1>3. FirstTransition'
  <2> DEFINE can(k) == IF Leaving[k].guard THEN done
                       ELSE Leaving[k].hooks = {} \/ \E h \in Hooks : Says(k, h)
  <2>1. AllBy(Hooks) = {k \in Trs : can(k)}  BY DEF AllBy, CanBy
  <2>2. Leaving' = Leaving /\ Trs' = Trs  BY <1>1, SameStep
  <2>3. \A k : can(k)' <=> can(k)  BY <1>1, <2>2 DEF Says
  <2>4. {k \in Trs : can(k)}' = {k \in Trs : can(k)}  BY <2>2, <2>3
  <2> HIDE DEF can
  <2>5. ~stale' => sel' = Crossed({k \in Trs : can(k)}')  BY <1>1, <1>2, <2>1, <2>4
  <2> USE DEF can
  <2> QED  BY <2>5 DEF FirstTransition
<1> QED  BY <1>1, <1>3 DEF RoundsInv, Beginning, Replacing

\* A step is played by its feedback only.
PlayedInv == played => pc \in {"idle", "final"}

LEMMA PlayedStep == PlayedInv /\ [Next]_vars => PlayedInv'
<1> SUFFICES ASSUME PlayedInv, [Next]_vars  PROVE PlayedInv'
  OBVIOUS
<1>1. CASE UNCHANGED vars \/ InChain \/ UserResets
  BY <1>1 DEF vars, InChain, UserResets, scenarioVars, playHistory, PlayedInv
<1>2. CASE NewData \/ EndScenario  BY <1>2 DEF NewData, EndScenario, PlayedInv
<1>3. CASE Feedback \/ Final  BY <1>3 DEF Feedback, Final, PlayedInv
<1>4. CASE StepOne \/ ChainReturns \/ StepTwo \/ StepTwoBlocks \/ Replace \/ Unusable \/ NotSent
           \/ Send \/ SendFails
  <2>1. pc \notin {"idle", "final"} /\ played' = played
    BY <1>4 DEF StepOne, ChainReturns, StepTwo, StepTwoBlocks, Replace, Unusable, NotSent, Send,
                SendFails, playHistory
  <2> QED  BY <2>1 DEF PlayedInv
<1> QED  BY <1>1, <1>2, <1>3, <1>4 DEF Next

LEMMA RoundsStep == TypeInv /\ PlayedInv /\ RoundsInv /\ [Next]_vars => RoundsInv'
<1> SUFFICES ASSUME TypeInv, PlayedInv, RoundsInv, [Next]_vars  PROVE RoundsInv'
  OBVIOUS
<1>1. CASE UNCHANGED vars \/ InChain \/ UserResets
  <2>1. UNCHANGED <<play, pc, cur, calls, done, back, usable, sel, pend, truth, played, stale>>
    BY <1>1 DEF vars, InChain, UserResets, scenarioVars, process, walk, playHistory
  <2>2. /\ Leaving' = Leaving /\ Trs' = Trs
        /\ \A k, h : Says(k, h)' <=> Says(k, h)
        /\ (AtRest' <=> AtRest) /\ (Untried' <=> Untried)
        /\ \A H : (Tried(H)' <=> Tried(H))
    BY <2>1, SameRound
  <2>3. FirstTransition' <=> FirstTransition  BY <2>1, <2>2 DEF FirstTransition
  <2>4. (Beginning' <=> Beginning) /\ (Replacing' <=> Replacing)
    BY <2>1 DEF Beginning, Replacing
  <2> QED  BY <2>1, <2>2, <2>3, <2>4 DEF RoundsInv
<1>2. CASE NewData  BY <1>2, NewDataRounds
<1>3. CASE EndScenario
  <2>1. pc = "idle" /\ pc' = "idle" /\ sel' = 0 /\ pend' = {}
    BY <1>3, WalkTypesOf DEF EndScenario, Quiet
  <2> QED  BY <2>1, RoundsElsewhere
<1>4. CASE StepTwoBlocks \/ NotSent \/ SendFails
  BY <1>4, RoundsElsewhere DEF StepTwoBlocks, NotSent, SendFails, GiveUp, Forget
<1>5. CASE Unusable
  <2>1. ~played'  BY <1>5 DEF Unusable, PlayedInv, playHistory
  <2>2. CASE GiveUp  BY <2>2, RoundsElsewhere DEF GiveUp, Forget
  <2>3. CASE pc' = "final"  BY <2>1, <2>3, RoundsElsewhere
  <2> QED  BY <1>5, <2>2, <2>3 DEF Unusable
<1>6. CASE Final  BY <1>6, RoundsElsewhere DEF Final, Forget
<1> QED
  BY <1>1, <1>2, <1>3, <1>4, <1>5, <1>6, StepOneRounds, ReturnsRounds, ReplaceRounds, StepTwoRounds,
     SendRounds, FeedbackRounds
  DEF Next

\* scenario.rst: for any scenarios, of any number of transitions with callbacks at any hooks,
\* the transition that is crossed after a step was played is the first, in the order of their
\* registration, that any of its callbacks allows, although they are tried hook by hook and
\* an earlier choice is revised; unless a round before had left counters in the middle.
THEOREM FirstIsCrossed == Spec => []FirstTransition
<1>1. Init => RoundsInv /\ PlayedInv
  <2> SUFFICES ASSUME Init  PROVE RoundsInv /\ PlayedInv
    OBVIOUS
  <2>1. pc = "idle" /\ sel = 0 /\ pend = {}  BY DEF Init, Begin
  <2> QED  BY <2>1 DEF RoundsInv, Beginning, Untried, Replacing, FirstTransition, PlayedInv
<1>2. RoundsInv => FirstTransition  BY DEF RoundsInv
<1> QED  BY <1>1, <1>2, InitTypes, TypeStep, PlayedStep, RoundsStep, PTL DEF Spec
-----------------------------------------------------------------------------
(* The order of data, as sequences of choices.                              *)

\* d goes through m, or comes before everything that does.
Begins(m, d) == Len(m) <= Len(d) /\ \A j \in 1..Len(m) : d[j] = m[j]
Precedes(d, m) == \E k \in 1..Len(m) : d[k] < m[k] /\ \A j \in 1..k - 1 : d[j] = m[j]
UpTo(d, m) == Begins(m, d) \/ Precedes(d, m)

\* What goes on with the choice e, when the last one was not later, comes later.
LEMMA GoesOn ==
  ASSUME NEW s \in Seq(Nat), NEW d \in Seq(Nat), NEW e \in Nat, NEW f \in Nat, e < f,
         UpTo(d, Append(s, e)), Len(s) < Len(d)
  PROVE  Precedes(d, Append(s, f))
<1> DEFINE a == Append(s, e)
           b == Append(s, f)
           i == Len(s) + 1
<1>1. /\ i \in Nat \ {0} /\ i \in 1..Len(d) /\ Len(a) = i /\ Len(b) = i /\ a[i] = e /\ b[i] = f
      /\ \A j \in 1..i - 1 : a[j] = s[j] /\ b[j] = s[j]
  BY AppendFacts
<1> HIDE DEF a, b, i
<1>2. CASE Begins(a, d)
  <2>1. d[i] < b[i] /\ \A j \in 1..i - 1 : d[j] = b[j]  BY <1>1, <1>2 DEF Begins
  <2>2. i \in 1..Len(b)  BY <1>1 DEF i
  <2> QED  BY <2>1, <2>2 DEF Precedes, b
<1>3. CASE Precedes(d, a)
  <2>1. PICK k \in 1..i : d[k] < a[k] /\ \A j \in 1..k - 1 : d[j] = a[j]
    BY <1>1, <1>3 DEF Precedes
  <2>2. CASE k = i
    <3>1. d[i] < e  BY <1>1, <2>1, <2>2
    <3>2. d[i] \in Nat  BY <1>1
    <3>3. d[i] < f  BY <3>1, <3>2
    <3>4. d[i] < b[i] /\ \A j \in 1..i - 1 : d[j] = b[j]  BY <1>1, <2>1, <2>2, <3>3
    <3> QED  BY <1>1, <2>1, <2>2, <3>4 DEF Precedes, b
  <2>3. CASE k < i
    <3>1. d[k] < b[k] /\ \A j \in 1..k - 1 : d[j] = b[j]  BY <1>1, <2>1, <2>3
    <3> QED  BY <1>1, <2>1, <3>1 DEF Precedes, b
  <2> QED  BY <1>1, <2>1, <2>2, <2>3
<1> QED  BY <1>2, <1>3 DEF UpTo, a

\* What is up to d is up to everything that d goes through.
LEMMA UpToPart ==
  ASSUME NEW p \in Seq(Nat), NEW d \in Seq(Nat), NEW m \in Seq(Nat),
         UpTo(p, d), Begins(m, d), Len(m) <= Len(p)
  PROVE  UpTo(p, m)
<1>1. Len(m) \in Nat /\ Len(d) \in Nat /\ Len(p) \in Nat  OBVIOUS
<1>2. CASE Begins(d, p)
  <2>1. Begins(m, p)  BY <1>1, <1>2 DEF Begins
  <2> QED  BY <2>1 DEF UpTo
<1>3. CASE Precedes(p, d)
  <2>1. PICK k \in 1..Len(d) : p[k] < d[k] /\ \A j \in 1..k - 1 : p[j] = d[j]
    BY <1>3 DEF Precedes
  <2>2. CASE k <= Len(m)
    <3>1. k \in 1..Len(m) /\ p[k] < m[k] /\ \A j \in 1..k - 1 : p[j] = m[j]
      BY <1>1, <2>1, <2>2 DEF Begins
    <3> QED  BY <3>1 DEF UpTo, Precedes
  <2>3. CASE k > Len(m)
    <3>1. \A j \in 1..Len(m) : p[j] = m[j]  BY <1>1, <2>1, <2>3 DEF Begins
    <3> QED  BY <3>1 DEF UpTo, Begins
  <2> QED  BY <1>1, <2>1, <2>2, <2>3
<1> QED  BY <1>2, <1>3 DEF UpTo

\* A choice more does not change what comes before.
LEMMA PrecedesMore ==
  ASSUME NEW p \in Seq(Nat), NEW d \in Seq(Nat), NEW e \in Nat, Precedes(p, d)
  PROVE  Precedes(p, Append(d, e))
<1>1. /\ Len(d) \in Nat /\ Len(Append(d, e)) = Len(d) + 1
      /\ \A j \in 1..Len(d) : Append(d, e)[j] = d[j]
  BY AppendFacts
<1>2. PICK k \in 1..Len(d) : p[k] < d[k] /\ \A j \in 1..k - 1 : p[j] = d[j]  BY DEF Precedes
<1>3. /\ k \in 1..Len(Append(d, e)) /\ p[k] < Append(d, e)[k]
      /\ \A j \in 1..k - 1 : p[j] = Append(d, e)[j]
  BY <1>1, <1>2
<1> QED  BY <1>3 DEF Precedes

\* Going through a part of a data.
LEMMA BeginsMore ==
  ASSUME NEW m \in Seq(Nat), NEW d \in Seq(Nat), NEW e \in Nat, Begins(m, d)
  PROVE  Begins(m, Append(d, e))
<1>1. /\ Len(d) \in Nat /\ Len(Append(d, e)) = Len(d) + 1 /\ Len(m) \in Nat
      /\ \A j \in 1..Len(d) : Append(d, e)[j] = d[j]
  BY AppendFacts
<1> QED  BY <1>1 DEF Begins

\* Every data goes through itself.
LEMMA BeginsItself == ASSUME NEW d \in Seq(Nat)  PROVE Begins(d, d)
BY DEF Begins

\* The choices that can go on.
CanGoOn(v) == v \in 1..Cases - 1

\* What follows d, when i is the rightmost choice that can go on.
LEMMA FollowingMover ==
  ASSUME NEW d \in Seq(Nat), NEW i \in 2..Len(d), CanGoOn(d[i]),
         \A j \in i + 1..Len(d) : ~CanGoOn(d[j])
  PROVE  /\ \A j \in 1..i - 1 : Following(d)[j] = d[j]
         /\ Following(d)[i] = d[i] + 1
<1> DEFINE More(k) == k > 1 /\ d[k] \in 1..Cases - 1
           k0 == IF \E k \in 1..Len(d) : More(k)
                 THEN CHOOSE k \in 1..Len(d) : More(k) /\ \A j \in k + 1..Len(d) : ~More(j)
                 ELSE 1
<1>1. Len(d) \in Nat  OBVIOUS
<1>2. i \in 1..Len(d) /\ More(i) /\ \A j \in i + 1..Len(d) : ~More(j)  BY <1>1 DEF CanGoOn
<1>3. Following(d) = [k \in 1..Len(d) |-> IF k < k0 THEN d[k] ELSE IF k = k0 THEN d[k] + 1
                                          ELSE IF d[k] = 0 THEN 0 ELSE 1]
  BY DEF Following
<1> HIDE DEF More
<1>4. k0 \in 1..Len(d) /\ More(k0) /\ \A j \in k0 + 1..Len(d) : ~More(j)  BY <1>2
<1> HIDE DEF k0
<1>5. k0 = i  BY <1>1, <1>2, <1>4
<1> QED  BY <1>1, <1>2, <1>3, <1>5

\* Behind the rightmost choice that can go on, everything starts again.
LEMMA FollowingRest ==
  ASSUME NEW d \in Seq(Nat), NEW i \in 2..Len(d), \A j \in i..Len(d) : ~CanGoOn(d[j])
  PROVE  Following(d)[i] = IF d[i] = 0 THEN 0 ELSE 1
<1> DEFINE More(k) == k > 1 /\ d[k] \in 1..Cases - 1
           S == {k \in 1..Len(d) : More(k)}
           k0 == IF \E k \in 1..Len(d) : More(k)
                 THEN CHOOSE k \in 1..Len(d) : More(k) /\ \A j \in k + 1..Len(d) : ~More(j)
                 ELSE 1
<1>1. Len(d) \in Nat  OBVIOUS
<1>2. \A j \in i..Len(d) : ~More(j)  BY DEF CanGoOn
<1>3. Following(d) = [k \in 1..Len(d) |-> IF k < k0 THEN d[k] ELSE IF k = k0 THEN d[k] + 1
                                          ELSE IF d[k] = 0 THEN 0 ELSE 1]
  BY DEF Following
<1> HIDE DEF More
<1>4. k0 < i /\ k0 \in Nat
  <2>1. CASE S = {}
    <3>1. k0 = 1  BY <2>1
    <3> HIDE DEF k0
    <3> QED  BY <1>1, <3>1
  <2>2. CASE S # {}
    <3>1. S \subseteq 1..Len(d)  OBVIOUS
    <3>2. \E m \in S : \A x \in S : x <= m  BY <1>1, <2>2, <3>1, LastOfNumbers
    <3>3. PICK m \in S : \A x \in S : x <= m  BY <3>2
    <3>4. m \in 1..Len(d) /\ More(m) /\ \A j \in m + 1..Len(d) : ~More(j)  BY <1>1, <3>3
    <3>5. k0 \in 1..Len(d) /\ More(k0)  BY <3>4
    <3> HIDE DEF k0, S
    <3> QED  BY <1>1, <1>2, <3>5
  <2> QED  BY <2>1, <2>2
<1> HIDE DEF k0
<1> QED  BY <1>1, <1>3, <1>4

\* When no disruptor can go on, the generator does.
LEMMA FollowingFirst ==
  ASSUME NEW d \in Seq(Nat), Len(d) >= 1, \A j \in 2..Len(d) : ~CanGoOn(d[j])
  PROVE  Following(d)[1] = d[1] + 1
<1> DEFINE More(k) == k > 1 /\ d[k] \in 1..Cases - 1
           k0 == IF \E k \in 1..Len(d) : More(k)
                 THEN CHOOSE k \in 1..Len(d) : More(k) /\ \A j \in k + 1..Len(d) : ~More(j)
                 ELSE 1
<1>1. Len(d) \in Nat  OBVIOUS
<1>2. ~\E k \in 1..Len(d) : More(k)  BY <1>1 DEF CanGoOn
<1>3. Following(d) = [k \in 1..Len(d) |-> IF k < k0 THEN d[k] ELSE IF k = k0 THEN d[k] + 1
                                          ELSE IF d[k] = 0 THEN 0 ELSE 1]
  BY DEF Following
<1>4. k0 = 1  BY <1>2
<1> HIDE DEF k0
<1> QED  BY <1>1, <1>3, <1>4
-----------------------------------------------------------------------------
(* The order in which a chain makes its data.                               *)

\* A data that starts from a seed has one more choice than there are data makers.
IsGen(c) == c # <<>> /\ c[1] \in Generators
Shift(c) == IF IsGen(c) THEN 0 ELSE 1

\* The choices of a data are choices its data makers can make.
Fitting(c, k, v) ==
    IF c[k] \in Generators THEN v \in 1..Stock
    ELSE IF c[k] \in Statefuls THEN v \in 1..Cases ELSE v = 0
Shaped(c, d) ==
    \A j \in 1..Len(d) : IF j = Shift(c) THEN d[j] = 0 ELSE Fitting(c, j - Shift(c), d[j])
Complete(c, d) == Len(d) = Len(c) + Shift(c) /\ Shaped(c, d)

\* Every disruptor after w has made its last case in d; no disruptor is between w and p.
LastCases(c, d, w) ==
    \A k \in 1..Len(c) : k > w /\ c[k] \in Statefuls => d[k + Shift(c)] = Cases
NoneIn(c, w, p) == \A k \in 1..Len(c) : w < k /\ k < p => c[k] \notin Statefuls

\* The stateful disruptors that are at work on a data, and what each of them, or the
\* generator (0), has made last.
AtWork(k) == chain[k] \in Statefuls /\ chain[k] \notin needSeed
Mark(k) ==
    IF k # 0 THEN Append(src[chain[k]], case[chain[k]])
    ELSE IF IsGen(chain) THEN <<made[chain[1]]>> ELSE <<>>
Marks(p) == {Mark(k) : k \in {0} \cup {j \in 1..p - 1 : AtWork(j)}}

\* d has been through the first p - 1 data makers, which have made M last.
Current(c, M, p, d) ==
    Len(d) = p - 1 + Shift(c) /\ Shaped(c, d) /\ \A m \in M : Begins(m, d)

Seeds ==
    \A k \in 1..Len(chain) :
        AtWork(k) => Current(chain, Marks(k), k, src[chain[k]])

\* The data maker that goes on next (0: the head of the chain): what is on its left is
\* disabled and at work, what is on its right waits for a data.
Owner(w) ==
    \A k \in 1..Len(chain) :
        /\ k < w => chain[k] \notin active /\ (chain[k] \in Statefuls => chain[k] \notin needSeed)
        /\ k = w => chain[k] \in active /\ AtWork(k)
        /\ k > w => chain[k] \in active /\ ~AtWork(k)

\* The last data that was delivered, when the owner has not gone on yet.
GenMade == IsGen(chain) /\ chain[1] \in init /\ made[chain[1]] # 0
NotYet(w) ==
    prev # <<>> =>
        /\ Complete(chain, prev) /\ (w = 0 => IsGen(chain))
        /\ w # 0 \/ GenMade =>
             /\ UpTo(prev, Mark(w))
             /\ ~hit => Begins(Mark(w), prev) /\ LastCases(chain, prev, w)

\* The new data, when the owner has gone on and the data makers before p have followed.
Follows(d, e) == \A j \in 1..Len(e) : e[j] = Following(d)[j]
Moved(p) ==
    prev # <<>> =>
        /\ Complete(chain, prev) /\ Precedes(prev, data)
        /\ ~hit => Follows(prev, data) /\ LastCases(chain, prev, p - 1)
Ahead(w, p) ==
    /\ Current(chain, Marks(p), p, data) /\ NoneIn(chain, w, p) /\ Moved(p)
    /\ prev # <<>> => w # 0 \/ IsGen(chain)

\* process_data has gone through the first p - 1 data makers; it has not reached the owner.
Reached(p) == IF pos = 0 THEN out = "data" /\ p = Len(chain) + 1 ELSE p = pos
Waiting(w) == pos # 0 /\ (pos <= w \/ (w = 0 /\ pos = 1 /\ IsGen(chain)))

Healthy(w) ==
    /\ Owner(w) /\ Seeds
    /\ Waiting(w) => ~woken
    /\ Waiting(w) \/ (pos = 0 /\ out = "none") => NotYet(w)
    /\ \A p \in 1..Len(chain) + 1 : Reached(p) /\ ~Waiting(w) => Ahead(w, p)

\* With Reset_DMakers every chain starts from the beginning.
Restarted ==
    /\ prev = <<>>
    /\ ~hurt => /\ pos # 0 => Len(data) = pos - 1 + Shift(chain)
                /\ out = "data" => Len(data) = Len(chain) + Shift(chain)

\* What a reset of all the data makers restores; a data comes out of a chain.
Restorable ==
    /\ Dmakers \ active \subseteq init /\ Statefuls \ needSeed \subseteq init
    /\ \A k \in 1..Len(chain) : k < pos => chain[k] \in init
    /\ hurt /\ pos # 0 /\ prev # <<>> => \E k \in 1..Len(chain) : k < pos /\ chain[k] \in Statefuls
    /\ out = "data" => pos = 0 /\ chain # <<>>

OrderInv ==
    /\ Restorable
    /\ play.reset => Restarted
    /\ ~play.reset /\ ~hurt => \E w \in 0..Len(chain) : Healthy(w)

\* Where the choices of a data maker are.
LEMMA ShiftFacts ==
  ASSUME NEW c, IsChain(c)
  PROVE  /\ Shift(c) \in {0, 1} /\ (Shift(c) = 0 <=> IsGen(c))
         /\ IsGen(c) => c[1] \in Generators /\ c[1] \notin Statefuls
         /\ \A k \in 1..Len(c) : c[k] \in Statefuls => k + Shift(c) >= 2 /\ c[k] \notin Generators
         /\ \A k \in 1..Len(c) : c[k] \in Generators => k = 1 /\ IsGen(c)
         /\ IsGen(c) <=> c[1] \in Generators
<1>1. c # <<>> /\ Len(c) \in Nat  BY DEF IsChain
<1>2. Generators \cap Statefuls = {}  BY DmakerChainAssumption
<1>3. \A k \in 1..Len(c) : c[k] \in Generators => k = 1
  BY <1>1, ChainFacts
<1>4. IsGen(c) <=> c[1] \in Generators  BY <1>1 DEF IsGen
<1>5. \A k \in 1..Len(c) : c[k] \in Statefuls => k + Shift(c) >= 2 /\ c[k] \notin Generators
  <2> TAKE k \in 1..Len(c)
  <2>1. CASE k = 1  BY <1>2, <1>4, <2>1 DEF Shift
  <2>2. CASE k >= 2  BY <1>1, <1>2, <2>2 DEF Shift
  <2> QED  BY <1>1, <2>1, <2>2
<1> QED  BY <1>2, <1>3, <1>4, <1>5 DEF Shift

\* One data maker more.
LEMMA ShapedMore ==
  ASSUME NEW c, IsChain(c), NEW p \in 1..Len(c), NEW d \in Seq(Nat), NEW e \in Nat,
         Len(d) = p - 1 + Shift(c), Shaped(c, d), Fitting(c, p, e)
  PROVE  /\ Append(d, e) \in Seq(Nat) /\ Len(Append(d, e)) = p + Shift(c)
         /\ Shaped(c, Append(d, e))
<1>1. Len(c) \in Nat /\ p \in Nat /\ p >= 1 /\ Shift(c) \in {0, 1}  BY ChainFacts, ShiftFacts
<1>2. /\ Append(d, e) \in Seq(Nat) /\ Len(Append(d, e)) = p + Shift(c)
      /\ \A j \in 1..p - 1 + Shift(c) : Append(d, e)[j] = d[j]
      /\ Append(d, e)[p + Shift(c)] = e
  BY <1>1, AppendFacts
<1>3. ASSUME NEW j \in 1..Len(Append(d, e))
      PROVE  IF j = Shift(c) THEN Append(d, e)[j] = 0
             ELSE Fitting(c, j - Shift(c), Append(d, e)[j])
  <2>1. CASE j = p + Shift(c)
    <3>1. j # Shift(c) /\ j - Shift(c) = p  BY <1>1, <2>1
    <3> QED  BY <1>2, <2>1, <3>1
  <2>2. CASE j \in 1..Len(d)  BY <1>1, <1>2, <2>2 DEF Shaped
  <2> QED  BY <1>1, <1>2, <2>1, <2>2
<1> QED  BY <1>2, <1>3 DEF Shaped

\* One choice more in a data that went through what is made of it.
LEMMA CurrentMore ==
  ASSUME NEW c, IsChain(c), NEW p \in 1..Len(c), NEW d \in Seq(Nat), NEW e \in Nat,
         NEW M, NEW N, \A m \in M : m \in Seq(Nat),
         Current(c, M, p, d), Fitting(c, p, e), N \subseteq M \cup {Append(d, e)}
  PROVE  Current(c, N, p + 1, Append(d, e))
<1>1. Len(c) \in Nat /\ p \in Nat /\ p >= 1 /\ Shift(c) \in {0, 1}  BY ChainFacts, ShiftFacts
<1>2. Len(d) = p - 1 + Shift(c) /\ Shaped(c, d) /\ \A m \in M : Begins(m, d)  BY DEF Current
<1>3. /\ Append(d, e) \in Seq(Nat) /\ Len(Append(d, e)) = p + Shift(c)
      /\ Shaped(c, Append(d, e))
  BY <1>2, ShapedMore
<1>4. \A m \in N : Begins(m, Append(d, e))
  <2> TAKE m \in N
  <2>1. CASE m \in M  BY <1>2, <2>1, BeginsMore
  <2>2. CASE m = Append(d, e)  BY <1>3, <2>2, BeginsItself
  <2> QED  BY <2>1, <2>2
<1> QED  BY <1>1, <1>3, <1>4 DEF Current

\* When the disruptors after w have made their last cases, none of them can go on.
LEMMA NoneCanGoOn ==
  ASSUME NEW c, IsChain(c), NEW d \in Seq(Nat), Complete(c, d), NEW w \in Nat,
         LastCases(c, d, w)
  PROVE  \A j \in 2..Len(d) : j > w + Shift(c) => ~CanGoOn(d[j])
<1> TAKE j \in 2..Len(d)
<1> SUFFICES ASSUME j > w + Shift(c)  PROVE ~CanGoOn(d[j])  OBVIOUS
<1> DEFINE k == j - Shift(c)
<1>1. Shift(c) \in {0, 1} /\ Len(c) \in Nat /\ Len(d) = Len(c) + Shift(c) /\ Cases \in Nat
  BY ShiftFacts, ChainFacts, DmakerChainAssumption DEF Complete
<1>2. k \in 1..Len(c) /\ k > w /\ j = k + Shift(c) /\ j # Shift(c) /\ j \in 1..Len(d)  BY <1>1
<1>3. Fitting(c, k, d[j])  BY <1>2 DEF Complete, Shaped
<1>4. c[k] \notin Generators  BY <1>1, <1>2, ShiftFacts
<1> HIDE DEF k
<1>5. CASE c[k] \in Statefuls
  <2>1. d[j] = Cases  BY <1>2, <1>5 DEF LastCases
  <2> QED  BY <1>1, <2>1 DEF CanGoOn
<1>6. CASE c[k] \notin Statefuls
  <2>1. d[j] = 0  BY <1>3, <1>4, <1>6 DEF Fitting
  <2> QED  BY <2>1 DEF CanGoOn
<1> QED  BY <1>5, <1>6

\* What has been made last, as sequences.
LEMMA MarkFacts ==
  ASSUME ChainTypeOK, IsChain(chain), Seeds
  PROVE  /\ Mark(0) \in Seq(Nat) /\ Len(Mark(0)) = 1 - Shift(chain)
         /\ \A k \in 1..Len(chain) : AtWork(k) =>
              /\ Mark(k) = Append(src[chain[k]], case[chain[k]])
              /\ Mark(k) \in Seq(Nat) /\ Len(Mark(k)) = k + Shift(chain)
              /\ src[chain[k]] \in Seq(Nat) /\ case[chain[k]] \in Nat
              /\ Len(src[chain[k]]) = k - 1 + Shift(chain)
<1>1. /\ src \in [Statefuls -> Seq(Nat)] /\ case \in [Statefuls -> 0..Cases]
      /\ made \in [Generators -> 0..Stock] /\ Cases \in Nat /\ Stock \in Nat
  BY ChainTypes, DmakerChainAssumption
<1>2. Shift(chain) \in {0, 1} /\ Len(chain) \in Nat  BY ShiftFacts, ChainFacts
<1>3. Mark(0) \in Seq(Nat) /\ Len(Mark(0)) = 1 - Shift(chain)
  <2>1. CASE IsGen(chain)
    <3>1. made[chain[1]] \in Nat  BY <1>1, <2>1 DEF IsGen
    <3> QED  BY <2>1, <3>1 DEF Mark, Shift
  <2>2. CASE ~IsGen(chain)
    <3>1. Mark(0) = <<>>  BY <2>2 DEF Mark
    <3>2. Shift(chain) = 1  BY <2>2 DEF Shift
    <3>3. <<>> \in Seq(Nat) /\ Len(<<>>) = 0  OBVIOUS
    <3>4. Mark(0) \in Seq(Nat) /\ Len(Mark(0)) = 0  BY <3>1, <3>3, Zenon
    <3> QED  BY <3>2, <3>4
  <2> QED  BY <2>1, <2>2
<1>4. ASSUME NEW k \in 1..Len(chain), AtWork(k)
      PROVE  /\ Mark(k) = Append(src[chain[k]], case[chain[k]])
             /\ Mark(k) \in Seq(Nat) /\ Len(Mark(k)) = k + Shift(chain)
             /\ src[chain[k]] \in Seq(Nat) /\ case[chain[k]] \in Nat
             /\ Len(src[chain[k]]) = k - 1 + Shift(chain)
  <2>1. chain[k] \in Statefuls  BY <1>4 DEF AtWork
  <2>2. src[chain[k]] \in Seq(Nat) /\ case[chain[k]] \in Nat  BY <1>1, <2>1
  <2>3. Len(src[chain[k]]) = k - 1 + Shift(chain)  BY <1>4 DEF Seeds, Current
  <2>4. Mark(k) = Append(src[chain[k]], case[chain[k]])  BY DEF Mark
  <2> QED  BY <1>2, <2>2, <2>3, <2>4, AppendFacts
<1> QED  BY <1>3, <1>4

\* They are data.
LEMMA MarksAreData ==
  ASSUME ChainTypeOK, IsChain(chain), Seeds, NEW p \in 1..Len(chain) + 1
  PROVE  \A m \in Marks(p) : m \in Seq(Nat)
<1>1. Len(chain) \in Nat  BY ChainFacts
<1>2. \A j \in 1..p - 1 : j \in 1..Len(chain)  BY <1>1
<1> QED  BY <1>2, MarkFacts DEF Marks

\* What data makers that do not go on have made stays the same.
LEMMA MarksSame ==
  ASSUME IsChain(chain), chain' = chain, NEW p \in 1..Len(chain) + 1,
         IsGen(chain) => made'[chain[1]] = made[chain[1]],
         \A k \in 1..p - 1 : AtWork(k)' =>
            AtWork(k) /\ src'[chain[k]] = src[chain[k]] /\ case'[chain[k]] = case[chain[k]]
  PROVE  Marks(p)' \subseteq Marks(p)
<1>1. Mark(0)' = Mark(0)  BY DEF Mark
<1>2. \A k \in 1..p - 1 : AtWork(k)' => AtWork(k) /\ Mark(k)' = Mark(k)  BY DEF Mark
<1>3. ASSUME NEW m, m \in Marks(p)'  PROVE m \in Marks(p)
  <2>1. PICK k \in {0} \cup {j \in 1..p - 1 : AtWork(j)'} : m = Mark(k)'
    BY <1>3 DEF Marks
  <2>2. CASE k = 0  BY <1>1, <2>1, <2>2 DEF Marks
  <2>3. CASE k # 0  BY <1>2, <2>1, <2>3 DEF Marks
  <2> QED  BY <2>2, <2>3
<1> QED  BY <1>3

\* Nothing goes on.
LEMMA SeedsSame ==
  ASSUME Seeds, IsChain(chain), chain' = chain,
         IsGen(chain) => made'[chain[1]] = made[chain[1]],
         \A k \in 1..Len(chain) : AtWork(k)' =>
            AtWork(k) /\ src'[chain[k]] = src[chain[k]] /\ case'[chain[k]] = case[chain[k]]
  PROVE  Seeds'
<1>1. Len(chain) \in Nat  BY ChainFacts
<1>2. ASSUME NEW k \in 1..Len(chain), AtWork(k)'
      PROVE  Current(chain, Marks(k), k, src[chain[k]])'
  <2>1. Marks(k)' \subseteq Marks(k)
    <3>1. k \in 1..Len(chain) + 1 /\ \A j \in 1..k - 1 : j \in 1..Len(chain)  BY <1>1
    <3> QED  BY <3>1, MarksSame
  <2>2. AtWork(k) /\ src'[chain[k]] = src[chain[k]] /\ case'[chain[k]] = case[chain[k]]
    BY <1>2
  <2>3. Current(chain, Marks(k), k, src[chain[k]])  BY <2>2 DEF Seeds
  <2> QED  BY <2>1, <2>2, <2>3 DEF Current
<1> QED  BY <1>2 DEF Seeds

\* The data maker at q has gone on; nothing on its right is at work.
LEMMA SeedsMoved ==
  ASSUME Seeds, IsChain(chain), chain' = chain, NEW q \in 1..Len(chain),
         IsGen(chain) => made'[chain[1]] = made[chain[1]],
         \A k \in 1..q - 1 : AtWork(k)' =>
            AtWork(k) /\ src'[chain[k]] = src[chain[k]] /\ case'[chain[k]] = case[chain[k]],
         \A k \in 1..Len(chain) : k > q => ~AtWork(k)',
         AtWork(q)' => Current(chain, Marks(q), q, src'[chain[q]])
  PROVE  Seeds'
<1>1. Len(chain) \in Nat  BY ChainFacts
<1>2. ASSUME NEW k \in 1..Len(chain), AtWork(k)'
      PROVE  Current(chain, Marks(k), k, src[chain[k]])'
  <2>1. k <= q  BY <1>2
  <2>2. Marks(k)' \subseteq Marks(k)
    <3>1. k \in 1..Len(chain) + 1 /\ \A j \in 1..k - 1 : j \in 1..q - 1  BY <1>1, <2>1
    <3> QED  BY <3>1, MarksSame
  <2>3. Current(chain, Marks(k), k, src'[chain[k]])
    <3>1. CASE k = q  BY <1>2, <3>1
    <3>2. CASE k # q
      <4>1. AtWork(k) /\ src'[chain[k]] = src[chain[k]] /\ case'[chain[k]] = case[chain[k]]
        BY <1>2, <2>1, <3>2
      <4> QED  BY <4>1 DEF Seeds
    <3> QED  BY <3>1, <3>2
  <2> QED  BY <2>2, <2>3 DEF Current
<1> QED  BY <1>2 DEF Seeds

\* The same data makers are active, and the same stateful ones wait for a data.
LEMMA OwnerSame ==
  ASSUME NEW w \in Nat, Owner(w), chain' = chain,
         \A k \in 1..Len(chain) : chain[k] \in active' <=> chain[k] \in active,
         \A k \in 1..Len(chain) :
            chain[k] \in Statefuls => (chain[k] \in needSeed' <=> chain[k] \in needSeed)
  PROVE  Owner(w)'
BY DEF Owner, AtWork

\* The data goes on, or comes out of the chain.
LEMMA HealthyAfterPass ==
  ASSUME ChainTypeOK, pos # 0, chain' = chain, NEW v \in 0..pos, NEW d, d # <<>>, Pass(d),
         Owner(v)', Seeds', NEW q, q = pos + 1, Ahead(v, q)'
  PROVE  Healthy(v)'
<1>1. pos \in 1..Len(chain) /\ Len(chain) \in Nat  BY DmFacts, ChainFacts
<1>2. /\ pos' = (IF pos = Len(chain) THEN 0 ELSE pos + 1)
      /\ out' = (IF pos = Len(chain) THEN "data" ELSE "none")
  BY DEF Pass
<1>3. ~Waiting(v)' /\ ~(pos' = 0 /\ out' = "none")  BY <1>1, <1>2 DEF Waiting
<1>4. \A p \in 1..Len(chain') + 1 : Reached(p)' => p = q  BY <1>1, <1>2 DEF Reached
<1> QED  BY <1>3, <1>4 DEF Healthy

\* The chain returns without a data: the owner has not gone on.
LEMMA HealthyAfterFail ==
  ASSUME Fail, NEW v, Owner(v)', Seeds', NotYet(v)'
  PROVE  Healthy(v)'
<1>1. pos' = 0 /\ out' = "none"  BY DEF Fail
<1>2. ~Waiting(v)' /\ \A p : ~Reached(p)'  BY <1>1 DEF Waiting, Reached
<1> QED  BY <1>2 DEF Healthy

\* Before the owner everything is disabled; the owner is at work.
LEMMA AtOwner ==
  ASSUME ChainTypeOK, Restorable, pos # 0, resetting = FALSE,
         NEW w \in 0..Len(chain), Healthy(w), Waiting(w)
  PROVE  /\ pos \in 1..Len(chain) /\ IsChain(chain) /\ Owner(w) /\ Seeds /\ NotYet(w)
         /\ MadeActive = active /\ NeedNow = needSeed /\ InitNow = init
         /\ pos < w => Dm \notin active
         /\ pos = w => /\ Dm \in active /\ AtWork(pos) /\ Dm \in Statefuls /\ Dm \notin needSeed
                       /\ Dm \in init /\ Dm \notin Generators
         /\ pos > w => /\ w = 0 /\ pos = 1 /\ IsGen(chain) /\ Dm = chain[1]
                       /\ Dm \in Generators /\ Dm \notin Statefuls /\ Dm \in active
<1>1. pos \in 1..Len(chain) /\ IsChain(chain) /\ Len(chain) \in Nat  BY DmFacts, ChainFacts
<1>2. Owner(w) /\ Seeds /\ NotYet(w) /\ ~woken  BY DEF Healthy
<1>3. Cleaned = {} /\ ~WokenUp  BY <1>2 DEF Cleaned, WokenUp
<1>4. MadeActive = active /\ NeedNow = needSeed /\ InitNow = init
  BY <1>3 DEF MadeActive, NeedNow, InitNow
<1>5. pos < w => Dm \notin active  BY <1>1, <1>2 DEF Owner, Dm
<1>6. ASSUME pos = w
      PROVE  /\ Dm \in active /\ AtWork(pos) /\ Dm \in Statefuls /\ Dm \notin needSeed
             /\ Dm \in init /\ Dm \notin Generators
  <2>1. Dm \in active /\ AtWork(pos)  BY <1>1, <1>2, <1>6 DEF Owner, Dm
  <2>2. Dm \in Statefuls /\ Dm \notin needSeed  BY <2>1 DEF AtWork, Dm
  <2>3. Dm \in init  BY <2>2 DEF Restorable
  <2> QED  BY <2>1, <2>2, <2>3, DmakerChainAssumption
<1>7. ASSUME pos > w
      PROVE  /\ w = 0 /\ pos = 1 /\ IsGen(chain) /\ Dm = chain[1]
             /\ Dm \in Generators /\ Dm \notin Statefuls /\ Dm \in active
  <2>1. w = 0 /\ pos = 1 /\ IsGen(chain)  BY <1>1, <1>7 DEF Waiting
  <2>2. Dm = chain[1]  BY <2>1 DEF Dm
  <2>3. Dm \in active  BY <1>1, <1>2, <2>1, <2>2 DEF Owner
  <2> QED  BY <1>1, <2>1, <2>2, <2>3, ShiftFacts
<1> QED  BY <1>1, <1>2, <1>4, <1>5, <1>6, <1>7

\* After the owner everything is active and waits for the data.
LEMMA AfterOwner ==
  ASSUME ChainTypeOK, pos # 0, resetting = FALSE,
         NEW w \in 0..Len(chain), Healthy(w), ~Waiting(w)
  PROVE  /\ pos \in 1..Len(chain) /\ IsChain(chain) /\ Owner(w) /\ Seeds /\ w < pos
         /\ Ahead(w, pos) /\ Len(data) = pos - 1 + Shift(chain) /\ data # <<>>
         /\ pos + Shift(chain) >= 2
         /\ MadeActive = active /\ NeedNow = needSeed
         /\ Dm \in active /\ Dm \notin Generators /\ (Dm \in Statefuls => Dm \in needSeed)
<1>1. pos \in 1..Len(chain) /\ IsChain(chain) /\ Len(chain) \in Nat  BY DmFacts, ChainFacts
<1>2. Owner(w) /\ Seeds  BY DEF Healthy
<1>3. w < pos /\ ~(w = 0 /\ pos = 1 /\ IsGen(chain))  BY <1>1 DEF Waiting
<1>4. Shift(chain) \in {0, 1} /\ (Shift(chain) = 0 <=> IsGen(chain))  BY <1>1, ShiftFacts
<1>5. pos + Shift(chain) >= 2  BY <1>1, <1>3, <1>4
<1>6. Ahead(w, pos)
  <2>1. Reached(pos)  BY DEF Reached
  <2> QED  BY <1>1, <2>1 DEF Healthy
<1>7. Len(data) = pos - 1 + Shift(chain)  BY <1>6 DEF Ahead, Current
<1>8. data # <<>>
  <2>1. Len(data) # 0  BY <1>1, <1>4, <1>5, <1>7
  <2> QED  BY <2>1
<1>9. Dm \in active /\ (Dm \in Statefuls => Dm \in needSeed)
  <2>1. chain[pos] \in active /\ ~AtWork(pos)  BY <1>1, <1>2, <1>3 DEF Owner
  <2> QED  BY <2>1 DEF AtWork, Dm
<1>10. Dm \notin Generators
  <2>1. SUFFICES ASSUME Dm \in Generators  PROVE FALSE  OBVIOUS
  <2>2. pos = 1 /\ IsGen(chain)  BY <1>1, <2>1, ShiftFacts DEF Dm
  <2> QED  BY <1>3, <2>2
<1>11. MadeActive = active  BY <1>9 DEF MadeActive
<1>12. NeedNow = needSeed  BY <1>9 DEF NeedNow, Cleaned
<1> QED  BY <1>1, <1>2, <1>3, <1>5, <1>6, <1>7, <1>8, <1>9, <1>10, <1>11, <1>12
-----------------------------------------------------------------------------
(* The steps before the owner, and of the owner.                            *)

\* What is disabled lets the data through until it reaches the owner.
LEMMA SkipOrder ==
  ASSUME ChainTypeOK, Restorable, pos # 0, resetting = FALSE,
         NEW w \in 0..Len(chain), Healthy(w), Skip
  PROVE  Healthy(w)'
<1>1. /\ Pass(data) /\ Dm \notin MadeActive
      /\ UNCHANGED <<chain, woken, active, needSeed, init, made, src, case, hit, prev>>
  BY DEF Skip, attrs, walkers, history
<1>2. Waiting(w)
  <2>1. SUFFICES ASSUME ~Waiting(w)  PROVE FALSE  OBVIOUS
  <2> QED  BY <1>1, <2>1, AfterOwner
<1>3. /\ pos \in 1..Len(chain) /\ IsChain(chain) /\ Owner(w) /\ Seeds /\ NotYet(w) /\ ~woken
      /\ Len(chain) \in Nat
  BY <1>2, AtOwner, ChainFacts DEF Healthy
<1>4. pos < w
  <2>1. MadeActive = active /\ (pos = w => Dm \in active) /\ (pos > w => Dm \in active)
    BY <1>2, AtOwner
  <2> QED  BY <1>1, <1>3, <2>1
<1>5. pos' = pos + 1  BY <1>1, <1>3, <1>4 DEF Pass
<1>6. Waiting(w)'  BY <1>3, <1>4, <1>5 DEF Waiting
<1>7. Owner(w)' /\ Seeds' /\ NotYet(w)'
  <2>1. Owner(w)'  BY <1>1, <1>3 DEF Owner, AtWork
  <2>2. Seeds'  BY <1>1, <1>3, SeedsSame DEF AtWork
  <2>3. NotYet(w)'  BY <1>1, <1>3 DEF NotYet, GenMade, Mark
  <2> QED  BY <2>1, <2>2, <2>3
<1>8. ~woken' /\ pos' # 0  BY <1>1, <1>3, <1>5
<1> QED  BY <1>6, <1>7, <1>8 DEF Healthy

\* What a data maker that is set up leaves active.
LEMMA SetUpFacts ==
  ASSUME ChainTypeOK, pos # 0, active' = ActiveNow, MadeActive = active, chain' = chain
  PROVE  /\ \A k \in 1..Len(chain) : k >= pos => (chain[k] \in active' <=> chain[k] \in active)
         /\ \A k \in 1..Len(chain) : chain[k] \in active' => chain[k] \in active
         /\ Dm \notin Statefuls => active' = active
         /\ Dm \in Statefuls => \A k \in 1..Len(chain) : k < pos => chain[k] \notin active'
         /\ pos = 1 => active' = active
<1>1. /\ pos \in 1..Len(chain) /\ IsChain(chain) /\ Len(chain) \in Nat
      /\ \A j, k \in 1..Len(chain) : chain[j] = chain[k] => j = k
  BY DmFacts, ChainFacts
<1>2. active' = IF Dm \in Statefuls THEN active \ Left ELSE active
  BY DEF ActiveNow, DisableLeft
<1>3. \A k \in 1..Len(chain) : chain[k] \in Left <=> k < pos
  <2> TAKE k \in 1..Len(chain)
  <2>1. \A j \in 1..pos - 1 : j \in 1..Len(chain)  BY <1>1
  <2> QED  BY <1>1, <2>1 DEF Left
<1>4. pos = 1 => Left = {}  BY DEF Left
<1> QED  BY <1>1, <1>2, <1>3, <1>4

\* The owner goes on, or fails after it went on: it is still the owner.
LEMMA StillOwner ==
  ASSUME ChainTypeOK, pos # 0, NEW w \in 1..Len(chain), pos = w, Owner(w), chain' = chain,
         MadeActive = active, active' = ActiveNow, needSeed' = needSeed
  PROVE  Owner(w)'
<1>1. \A k \in 1..Len(chain) : k >= w => (chain[k] \in active' <=> chain[k] \in active)
  BY SetUpFacts
<1>2. \A k \in 1..Len(chain) : chain[k] \in active' => chain[k] \in active
  BY SetUpFacts
<1> QED  BY <1>1, <1>2 DEF Owner, AtWork

\* The data that follows prev, when the owner w makes its next case.
LEMMA FollowsOwner ==
  ASSUME ChainTypeOK, IsChain(chain), NEW w \in 1..Len(chain), NEW s \in Seq(Nat), NEW e \in Nat,
         Len(s) = w - 1 + Shift(chain), CanGoOn(e), chain[w] \in Statefuls,
         Complete(chain, prev), Begins(Append(s, e), prev), LastCases(chain, prev, w)
  PROVE  Follows(prev, Append(s, e + 1))
<1> DEFINE i == w + Shift(chain)
<1>1. /\ Len(chain) \in Nat /\ Shift(chain) \in {0, 1} /\ prev \in Seq(Nat)
      /\ Len(prev) = Len(chain) + Shift(chain)
  BY ChainFacts, ShiftFacts, ChainTypes DEF Complete
<1>2. i >= 2  BY ShiftFacts
<1>3. i \in 2..Len(prev) /\ i \in Nat /\ Len(s) = i - 1  BY <1>1, <1>2
<1>4. /\ Len(Append(s, e)) = i /\ Append(s, e)[i] = e
      /\ Len(Append(s, e + 1)) = i /\ Append(s, e + 1)[i] = e + 1
      /\ \A j \in 1..i - 1 : Append(s, e)[j] = s[j] /\ Append(s, e + 1)[j] = s[j]
  BY <1>3, AppendFacts
<1>5. prev[i] = e /\ \A j \in 1..i - 1 : prev[j] = s[j]
  <2>1. \A j \in 1..i : prev[j] = Append(s, e)[j]  BY <1>4 DEF Begins
  <2> HIDE DEF i
  <2>2. i \in 1..i /\ \A j \in 1..i - 1 : j \in 1..i  BY <1>3
  <2> QED  BY <1>4, <2>1, <2>2
<1>6. \A j \in i + 1..Len(prev) : ~CanGoOn(prev[j])
  <2>1. w \in Nat  BY <1>1
  <2>2. \A j \in 2..Len(prev) : j > i => ~CanGoOn(prev[j])  BY <1>1, <2>1, NoneCanGoOn
  <2> HIDE DEF i
  <2> QED  BY <1>1, <1>3, <2>2
<1> HIDE DEF i
<1>7. /\ \A j \in 1..i - 1 : Following(prev)[j] = prev[j]
      /\ Following(prev)[i] = prev[i] + 1
  BY <1>1, <1>3, <1>5, <1>6, FollowingMover
<1>8. ASSUME NEW j \in 1..i  PROVE Append(s, e + 1)[j] = Following(prev)[j]
  <2>1. CASE j = i  BY <1>4, <1>5, <1>7, <2>1
  <2>2. CASE j # i
    <3>1. j \in 1..i - 1  BY <1>3, <2>2
    <3> QED  BY <1>4, <1>5, <1>7, <3>1
  <2> QED  BY <2>1, <2>2
<1> QED  BY <1>4, <1>8 DEF Follows

\* The last data makers that went on.
LEMMA MarksNext ==
  ASSUME NEW p \in Nat \ {0}
  PROVE  /\ Marks(p + 1)' \subseteq Marks(p)' \cup {Mark(p)'}
         /\ ~AtWork(p)' => Marks(p + 1)' \subseteq Marks(p)'
<1>1. ASSUME NEW m \in Marks(p + 1)'  PROVE m \in Marks(p)' \/ (AtWork(p)' /\ m = Mark(p)')
  <2>1. PICK k \in {0} \cup {j \in 1..p : AtWork(j)'} : m = Mark(k)'  BY DEF Marks
  <2>2. CASE k = p /\ AtWork(p)'  BY <2>1, <2>2
  <2>3. CASE k \in {0} \cup {j \in 1..p - 1 : AtWork(j)'}  BY <2>1, <2>3 DEF Marks
  <2>4. k = 0 \/ (k \in 1..p - 1 /\ AtWork(k)') \/ (k = p /\ AtWork(p)')  BY <2>1
  <2> QED  BY <2>2, <2>3, <2>4
<1> QED  BY <1>1

\* The owner makes its next case.
LEMMA OwnerWalks ==
  ASSUME ChainTypeOK, Restorable, pos # 0, resetting = FALSE,
         NEW w \in 0..Len(chain), Healthy(w), Waiting(w), Walk
  PROVE  Healthy(w)'
<1> DEFINE s == src[Dm]
           e == case[Dm]
<1>1. /\ IsChain(chain) /\ Owner(w) /\ Seeds /\ NotYet(w) /\ Len(chain) \in Nat
      /\ MadeActive = active /\ NeedNow = needSeed
      /\ pos < w => Dm \notin active
      /\ pos = w => Dm \notin needSeed /\ AtWork(pos)
      /\ pos > w => Dm \notin Statefuls
  BY AtOwner, ChainFacts
<1>2. Dm \in active /\ Dm \in Statefuls  BY <1>1 DEF Walk, Working
<1>3. pos = w /\ w \in 1..Len(chain) /\ Dm = chain[w] /\ Dm \notin needSeed /\ AtWork(w)
  BY <1>1, <1>2, DmFacts DEF Dm
<1>4. /\ src \in [Statefuls -> Seq(Nat)] /\ case \in [Statefuls -> 0..Cases] /\ Cases \in Nat
      /\ prev \in Seq(Nat)
  BY ChainTypes, DmakerChainAssumption
<1>5. /\ e + 1 <= Cases /\ Pass(Append(s, e + 1)) /\ SetUp
      /\ needSeed' = needSeed \ {Dm}
      /\ src' = [src EXCEPT ![Dm] = s] /\ case' = [case EXCEPT ![Dm] = e + 1]
      /\ UNCHANGED <<chain, made, hit, prev>>
  BY <1>1, <1>3 DEF Walk, history
<1>6. /\ s \in Seq(Nat) /\ Len(s) = w - 1 + Shift(chain) /\ Mark(w) = Append(s, e)
      /\ Current(chain, Marks(w), w, s) /\ e \in 0..Cases /\ e \in Nat
  BY <1>1, <1>2, <1>3, <1>4, MarkFacts DEF Seeds
<1>7. /\ src' = src /\ needSeed' = needSeed /\ case'[chain[w]] = e + 1
      /\ \A k \in 1..Len(chain) : k # w /\ chain[k] \in Statefuls => case'[chain[k]] = case[chain[k]]
  <2>1. \A k \in 1..Len(chain) : k # w => chain[k] # Dm  BY <1>1, <1>3, ChainFacts
  <2> QED  BY <1>2, <1>3, <1>4, <1>5, <2>1
<1>8. \A k \in 1..Len(chain) : AtWork(k)' <=> AtWork(k)  BY <1>5, <1>7 DEF AtWork
<1>9. Owner(w)'
  <2>1. active' = ActiveNow  BY <1>5 DEF SetUp
  <2> QED  BY <1>1, <1>3, <1>5, <1>7, <2>1, StillOwner
<1> HIDE DEF s, e
<1>10. \A k \in 1..w - 1 : AtWork(k)' =>
          AtWork(k) /\ src'[chain[k]] = src[chain[k]] /\ case'[chain[k]] = case[chain[k]]
  <2>1. \A k \in 1..w - 1 : k \in 1..Len(chain) /\ k # w  BY <1>1, <1>3
  <2> QED  BY <1>7, <1>8, <2>1 DEF AtWork
<1>11. Seeds'
  <2>1. \A k \in 1..Len(chain) : k > w => ~AtWork(k)'  BY <1>1, <1>8 DEF Owner
  <2>2. Current(chain, Marks(w), w, src'[chain[w]])  BY <1>3, <1>6, <1>7 DEF s
  <2> QED  BY <1>1, <1>3, <1>5, <1>10, <2>1, <2>2, SeedsMoved
<1> DEFINE d == Append(s, e + 1)
           q == w + 1
<1>12. d \in Seq(Nat) /\ d # <<>> /\ data' = d
  <2>1. d \in Seq(Nat) /\ Len(d) # 0  BY <1>6, AppendFacts
  <2> QED  BY <1>5, <2>1 DEF Pass
<1>13. Current(chain, Marks(q)', q, d)
  <2>1. Marks(w)' \subseteq Marks(w)
    <3>1. w \in 1..Len(chain) + 1  BY <1>1, <1>3
    <3> QED  BY <1>1, <1>5, <1>10, <3>1, MarksSame
  <2>2. Mark(w)' = d  BY <1>3, <1>5, <1>7 DEF Mark, s
  <2>3. Marks(q)' \subseteq Marks(w)' \cup {Mark(w)'}  BY <1>3, MarksNext
  <2>4. Marks(q)' \subseteq Marks(w) \cup {d}  BY <2>1, <2>2, <2>3
  <2>5. \A m \in Marks(w) : m \in Seq(Nat)
    <3>1. w \in 1..Len(chain) + 1  BY <1>1, <1>3
    <3> QED  BY <1>1, <3>1, MarksAreData
  <2>6. Fitting(chain, w, e + 1)
    <3>1. e + 1 \in 1..Cases  BY <1>4, <1>5, <1>6 DEF e
    <3> QED  BY <1>1, <1>2, <1>3, <3>1, ShiftFacts DEF Fitting
  <2>7. e + 1 \in Nat  BY <1>6
  <2> QED  BY <1>1, <1>3, <1>6, <2>4, <2>5, <2>6, <2>7, CurrentMore
<1>14. ASSUME prev # <<>>
       PROVE  /\ Complete(chain, prev) /\ Precedes(prev, d)
              /\ ~hit => Follows(prev, d) /\ LastCases(chain, prev, w)
  <2>1. /\ Complete(chain, prev) /\ UpTo(prev, Append(s, e))
        /\ ~hit => Begins(Append(s, e), prev) /\ LastCases(chain, prev, w)
    BY <1>1, <1>3, <1>6, <1>14 DEF NotYet
  <2>2. Len(s) < Len(prev)
    <3>1. Shift(chain) \in {0, 1}  BY <1>1, ShiftFacts
    <3> QED  BY <1>1, <1>3, <1>6, <2>1, <3>1 DEF Complete
  <2>3. Precedes(prev, d)
    <3>1. e < e + 1 /\ e + 1 \in Nat  BY <1>6
    <3> QED  BY <1>4, <1>6, <2>1, <2>2, <3>1, GoesOn
  <2>4. ~hit => CanGoOn(e)
    <3> SUFFICES ASSUME ~hit  PROVE CanGoOn(e)  OBVIOUS
    <3> DEFINE j == w + Shift(chain)
    <3>1. /\ Shift(chain) \in {0, 1} /\ Len(prev) = Len(chain) + Shift(chain)
          /\ j = Len(s) + 1 /\ j \in 1..Len(Append(s, e)) /\ j \in 1..Len(prev)
          /\ j # Shift(chain) /\ j - Shift(chain) = w
      BY <1>1, <1>3, <1>6, <2>1, ShiftFacts DEF Complete
    <3>2. prev[j] = e
      <4>1. Append(s, e)[j] = e  BY <1>6, <3>1, AppendFacts
      <4> QED  BY <2>1, <3>1, <4>1 DEF Begins
    <3> HIDE DEF j
    <3>3. Fitting(chain, w, prev[j])  BY <2>1, <3>1 DEF Complete, Shaped
    <3>4. e \in 1..Cases  BY <1>1, <1>2, <1>3, <3>2, <3>3, ShiftFacts DEF Fitting
    <3> QED  BY <1>4, <1>5, <3>4 DEF CanGoOn, e
  <2>5. ~hit => Follows(prev, d)
    BY <1>1, <1>2, <1>3, <1>6, <2>1, <2>4, FollowsOwner
  <2> QED  BY <2>1, <2>3, <2>5
<1>15. Ahead(w, q)'
  <2>1. NoneIn(chain, w, q)  BY <1>1, <1>3 DEF NoneIn
  <2>2. Moved(q)'
    <3>1. q - 1 = w  BY <1>3
    <3> HIDE DEF q, d
    <3> QED  BY <1>5, <1>12, <1>14, <3>1 DEF Moved
  <2> HIDE DEF q, d
  <2> QED  BY <1>3, <1>5, <1>12, <1>13, <2>1, <2>2 DEF Ahead
<1> QED
  <2>1. q = pos + 1 /\ w \in 0..pos  BY <1>3
  <2> HIDE DEF q, d
  <2> QED  BY <1>5, <1>9, <1>11, <1>12, <1>15, <2>1, HealthyAfterPass DEF d

\* What a data goes through goes through less.
LEMMA BeginsAgain ==
  ASSUME NEW m \in Seq(Nat), NEW d \in Seq(Nat), NEW p \in Seq(Nat), Begins(m, d), Begins(d, p)
  PROVE  Begins(m, p)
BY DEF Begins

\* What is on the left of the data maker at work.
LEMMA LeftFacts ==
  ASSUME ChainTypeOK, pos # 0
  PROVE  \A k \in 1..Len(chain) : (chain[k] \in Left <=> k < pos) /\ (chain[k] = Dm <=> k = pos)
<1>1. /\ pos \in 1..Len(chain) /\ IsChain(chain) /\ Len(chain) \in Nat
      /\ \A j, k \in 1..Len(chain) : chain[j] = chain[k] => j = k
  BY DmFacts, ChainFacts
<1>2. \A j \in 1..pos - 1 : j \in 1..Len(chain)  BY <1>1
<1> QED  BY <1>1, <1>2 DEF Left, Dm

\* The owner has made its last case: the nearest one on its left, or the head, is the next.
LEMMA OwnerYields ==
  ASSUME ChainTypeOK, Restorable, pos # 0, resetting = FALSE,
         NEW w \in 0..Len(chain), Healthy(w), Waiting(w), Yield
  PROVE  \E v \in 0..Len(chain) : Healthy(v)'
<1> DEFINE head == ~\E k \in 1..pos - 1 : chain[k] \in Statefuls
           starts == head /\ chain[1] \notin Generators
           n == Nearest
           u == IF head THEN 0 ELSE n
<1>1. /\ IsChain(chain) /\ Owner(w) /\ Seeds /\ NotYet(w) /\ Len(chain) \in Nat
      /\ MadeActive = active /\ NeedNow = needSeed
      /\ pos < w => Dm \notin active
      /\ pos = w => Dm \notin needSeed /\ AtWork(pos)
      /\ pos > w => Dm \notin Statefuls
  BY AtOwner, ChainFacts
<1>2. Dm \in active /\ Dm \in Statefuls  BY <1>1 DEF Yield, Working
<1>3. pos = w /\ w \in 1..Len(chain) /\ Dm = chain[w] /\ Dm \notin needSeed /\ AtWork(w)
  BY <1>1, <1>2, DmFacts DEF Dm
<1>4. /\ Fail /\ active' = ActiveNow \cup HandedOver /\ needSeed' = needSeed \cup {Dm}
      /\ case[Dm] = Cases
      /\ prev' = (IF starts THEN <<>> ELSE prev) /\ hit' = (hit /\ ~starts)
      /\ UNCHANGED <<chain, made, src, case>>
  BY <1>1 DEF Yield, walkers
<1>5. /\ HandedOver = {chain[k] : k \in n..w} /\ n \in 1..w
      /\ head => n = 1
      /\ ~head => /\ n \in 1..w - 1 /\ chain[n] \in Statefuls
                  /\ \A j \in 1..w - 1 : chain[j] \in Statefuls => j <= n
  BY <1>3, NearestFacts DEF HandedOver
<1>6. head => \A k \in 1..Len(chain) : k < w => chain[k] \notin Statefuls
  BY <1>1, <1>3
<1> HIDE DEF head, starts, n, u
<1> SUFFICES ASSUME NEW v, v = u  PROVE v \in 0..Len(chain) /\ Healthy(v)'
  OBVIOUS
<1>7. /\ v \in 0..w - 1 /\ v \in 0..Len(chain) /\ (v = 0 => head) /\ (head => v = 0)
      /\ (v # 0 => v = n /\ v \in 1..Len(chain) /\ chain[v] \in Statefuls)
      /\ \A k \in 1..Len(chain) : v < k /\ k < w => chain[k] \notin Statefuls
  <2>1. CASE head  BY <1>1, <1>3, <1>6, <2>1 DEF u
  <2>2. CASE ~head
    <3>1. v = n /\ v \in 1..w - 1 /\ chain[v] \in Statefuls  BY <1>5, <2>2 DEF u
    <3>2. \A k \in 1..Len(chain) : v < k /\ k < w => chain[k] \notin Statefuls
      BY <1>1, <1>3, <1>5, <2>2, <3>1
    <3> QED  BY <1>1, <1>3, <2>2, <3>1, <3>2
  <2> QED  BY <2>1, <2>2
<1>8. \A k \in 1..Len(chain) : chain[k] \in HandedOver <=> k \in n..w
  <2>1. \A j, k \in 1..Len(chain) : chain[j] = chain[k] => j = k  BY <1>1, ChainFacts
  <2>2. \A k \in n..w : k \in 1..Len(chain)  BY <1>1, <1>3, <1>5
  <2> QED  BY <1>5, <2>1, <2>2
<1>9. \A k \in 1..Len(chain) :
         /\ chain[k] \in ActiveNow => chain[k] \in active
         /\ chain[k] \in active /\ k >= w => chain[k] \in ActiveNow
  BY <1>1, <1>3, LeftFacts DEF ActiveNow, DisableLeft
<1>10. \A k \in 1..Len(chain) :
         /\ k # w => (chain[k] \in needSeed' <=> chain[k] \in needSeed)
         /\ k = w => chain[k] \in needSeed'
  BY <1>3, <1>4, LeftFacts
<1>11. \A k \in 1..Len(chain) : k \in n..w <=> (k <= w /\ (v = 0 \/ k >= v))
  BY <1>1, <1>3, <1>5, <1>7
<1>15. v \in Nat /\ w \in Nat /\ v < w /\ w <= Len(chain)
  <2>1. Len(chain) \in Nat /\ w \in 1..Len(chain)  BY <1>1, <1>3
  <2>2. v \in 0..w - 1  BY <1>7
  <2> QED  BY <2>1, <2>2
<1>12. Owner(v)'
  <2>1. ASSUME NEW k \in 1..Len(chain)
        PROVE  /\ k < v => /\ chain[k] \notin active'
                           /\ chain[k] \in Statefuls => chain[k] \notin needSeed'
               /\ k = v => chain[k] \in active' /\ chain[k] \in Statefuls /\ chain[k] \notin needSeed'
               /\ k > v => /\ chain[k] \in active'
                           /\ ~(chain[k] \in Statefuls /\ chain[k] \notin needSeed')
    <3>1. /\ k < w => chain[k] \notin active /\ (chain[k] \in Statefuls => chain[k] \notin needSeed)
          /\ k >= w => chain[k] \in active
          /\ k > w => ~(chain[k] \in Statefuls /\ chain[k] \notin needSeed)
      BY <1>1, <1>3 DEF Owner, AtWork
    <3>2. chain[k] \in active' <=> chain[k] \in ActiveNow \/ chain[k] \in HandedOver  BY <1>4
    <3>3. CASE k < v
      <4>1. k < w /\ ~(k \in n..w)
        <5>1. k \in Nat /\ v # 0 /\ ~(k >= v)  BY <1>1, <1>15, <3>3
        <5> QED  BY <1>11, <1>15, <3>3, <5>1
      <4>2. k # w /\ k # v /\ ~(k > v)  BY <1>15, <3>3, <4>1
      <4>3. chain[k] \notin active'  BY <1>8, <1>9, <3>1, <3>2, <4>1
      <4>4. chain[k] \in Statefuls => chain[k] \notin needSeed'  BY <1>10, <3>1, <4>1, <4>2
      <4> QED  BY <4>2, <4>3, <4>4
    <3>4. CASE k = v
      <4>1. k < w /\ k # w /\ k <= w /\ k >= v /\ v # 0  BY <1>15, <3>4
      <4>2. k \in n..w  BY <1>11, <4>1
      <4>3. chain[k] \in Statefuls  BY <1>7, <3>4, <4>1
      <4> QED  BY <1>8, <1>10, <3>1, <3>2, <3>4, <4>1, <4>2, <4>3
    <3>5. CASE k > v
      <4>1. CASE k <= w
        <5>1. k \in n..w  BY <1>7, <1>11, <3>5, <4>1
        <5>2. k < w => chain[k] \notin Statefuls  BY <1>7, <3>5
        <5>3. k < w \/ k = w  BY <1>3, <4>1
        <5>4. ~(chain[k] \in Statefuls /\ chain[k] \notin needSeed')  BY <1>10, <5>2, <5>3
        <5>5. chain[k] \in active'  BY <1>8, <3>2, <5>1
        <5>6. ~(k < v) /\ k # v  BY <1>7, <3>5
        <5> QED  BY <5>4, <5>5, <5>6
      <4>2. CASE k > w
        <5>1. ~(k < v) /\ k # v /\ k # w /\ k >= w  BY <1>3, <1>7, <3>5, <4>2
        <5> QED  BY <1>9, <1>10, <3>1, <3>2, <4>2, <5>1
      <4> QED  BY <1>3, <4>1, <4>2
    <3> QED  BY <1>7, <3>3, <3>4, <3>5
  <2> QED  BY <1>4, <2>1 DEF Owner, AtWork
<1>13. Seeds'
  <2>1. \A k \in 1..Len(chain) : AtWork(k)' => AtWork(k)  BY <1>4 DEF AtWork
  <2> QED  BY <1>1, <1>4, <2>1, SeedsSame
<1>14. NotYet(v)'
  <2>1. SUFFICES ASSUME prev' # <<>>
                 PROVE  /\ Complete(chain, prev) /\ (v = 0 => IsGen(chain))
                        /\ UpTo(prev, Mark(v))
                        /\ ~hit' => Begins(Mark(v), prev) /\ LastCases(chain, prev, v)
    <3>1. prev' # <<>> => prev' = prev  BY <1>4
    <3>2. Mark(v)' = Mark(v)  BY <1>4 DEF Mark
    <3> QED  BY <1>4, <3>1, <3>2 DEF NotYet
  <2>2. ~starts /\ prev' = prev /\ hit' = hit /\ prev # <<>>
    <3>1. hit \in BOOLEAN  BY ChainTypes
    <3> QED  BY <1>4, <2>1, <3>1
  <2>3. /\ Complete(chain, prev) /\ UpTo(prev, Mark(w))
        /\ ~hit => Begins(Mark(w), prev) /\ LastCases(chain, prev, w)
    BY <1>1, <1>3, <2>2 DEF NotYet
  <2>4. v = 0 => IsGen(chain)  BY <1>1, <1>7, <2>2, ShiftFacts DEF starts
  <2>5. /\ Mark(w) = Append(src[chain[w]], case[chain[w]]) /\ Mark(w) \in Seq(Nat)
        /\ src[chain[w]] \in Seq(Nat) /\ case[chain[w]] \in Nat
        /\ Len(src[chain[w]]) = w - 1 + Shift(chain) /\ Len(Mark(w)) = w + Shift(chain)
    BY <1>1, <1>3, MarkFacts
  <2>6. Mark(v) \in Marks(w) /\ Mark(v) \in Seq(Nat)
        /\ Len(Mark(v)) = IF v = 0 THEN 1 - Shift(chain) ELSE v + Shift(chain)
    <3>1. v # 0 => AtWork(v) /\ v \in 1..w - 1
      <4>1. v # 0 => v \in 1..Len(chain) /\ chain[v] \in Statefuls  BY <1>7
      <4>2. v # 0 => chain[v] \notin needSeed  BY <1>1, <1>15, <4>1 DEF Owner
      <4>3. v # 0 => v \in 1..w - 1  BY <1>15
      <4> QED  BY <4>1, <4>2, <4>3 DEF AtWork
    <3>2. Mark(v) \in Marks(w)  BY <3>1 DEF Marks
    <3> QED  BY <1>1, <1>7, <3>1, <3>2, MarkFacts
  <2>7. Begins(Mark(v), Mark(w))
    <3>1. Begins(Mark(v), src[chain[w]])  BY <1>1, <1>3, <2>6 DEF Seeds, Current
    <3> QED  BY <2>5, <2>6, <3>1, BeginsMore
  <2>8. prev \in Seq(Nat) /\ Len(prev) = Len(chain) + Shift(chain) /\ Shift(chain) \in {0, 1}
    BY <1>1, <2>3, ChainTypes, ShiftFacts DEF Complete
  <2>9. UpTo(prev, Mark(v))
    <3>1. Len(Mark(v)) <= Len(prev)
      <4>1. Len(Mark(v)) = 1 - Shift(chain) \/ Len(Mark(v)) = v + Shift(chain)  BY <2>6
      <4> QED  BY <1>1, <1>3, <1>15, <2>8, <4>1
    <3> QED  BY <2>3, <2>5, <2>6, <2>7, <2>8, <3>1, UpToPart
  <2>10. ~hit => Begins(Mark(v), prev)
    BY <2>3, <2>5, <2>6, <2>7, <2>8, BeginsAgain
  <2>11. ASSUME ~hit  PROVE LastCases(chain, prev, v)
    <3>1. prev[w + Shift(chain)] = Cases
      <4>1. w + Shift(chain) = Len(src[chain[w]]) + 1  BY <1>1, <1>3, <2>5, <2>8
      <4>2. Mark(w)[w + Shift(chain)] = case[chain[w]]  BY <2>5, <4>1, AppendFacts
      <4>3. w + Shift(chain) \in 1..Len(Mark(w))  BY <1>1, <1>3, <2>5, <2>8
      <4>4. prev[w + Shift(chain)] = Mark(w)[w + Shift(chain)]
        BY <2>3, <2>11, <4>3 DEF Begins
      <4> QED  BY <1>3, <1>4, <4>2, <4>4
    <3>2. ASSUME NEW k \in 1..Len(chain), k > v, chain[k] \in Statefuls
          PROVE  prev[k + Shift(chain)] = Cases
      <4>1. k = w \/ k > w  BY <1>1, <1>3, <1>7, <3>2
      <4>2. LastCases(chain, prev, w)  BY <2>3, <2>11
      <4> QED  BY <3>1, <3>2, <4>1, <4>2 DEF LastCases
    <3> QED  BY <3>2 DEF LastCases
  <2> QED  BY <2>2, <2>3, <2>4, <2>9, <2>10, <2>11
<1> QED  BY <1>4, <1>7, <1>12, <1>13, <1>14, HealthyAfterFail

\* The owner may go to its next case before it crashes: it stays the owner.
LEMMA OwnerCrashes ==
  ASSUME ChainTypeOK, Restorable, pos # 0, resetting = FALSE,
         NEW w \in 0..Len(chain), Healthy(w), Waiting(w), pos = w, Crash
  PROVE  Healthy(w)'
<1> DEFINE s == src[Dm]
           e == case[Dm]
<1>1. /\ IsChain(chain) /\ Owner(w) /\ Seeds /\ NotYet(w) /\ Len(chain) \in Nat
      /\ MadeActive = active /\ NeedNow = needSeed
      /\ Dm \notin needSeed /\ AtWork(w) /\ Dm \in Statefuls /\ Dm \notin Generators
  BY AtOwner, ChainFacts
<1>2. w \in 1..Len(chain) /\ Dm = chain[w]  BY <1>1, DmFacts DEF Dm
<1>3. /\ src \in [Statefuls -> Seq(Nat)] /\ case \in [Statefuls -> 0..Cases] /\ Cases \in Nat
      /\ prev \in Seq(Nat)
  BY ChainTypes, DmakerChainAssumption
<1>4. /\ Fail /\ active' = ActiveNow /\ needSeed' = needSeed /\ hit' = TRUE
      /\ case' = case \/ (e < Cases /\ case' = [case EXCEPT ![Dm] = e + 1])
      /\ UNCHANGED <<chain, made, src, prev>>
  BY <1>1 DEF Crash, SetUp, Fault
<1>5. /\ s \in Seq(Nat) /\ Len(s) = w - 1 + Shift(chain) /\ Mark(w) = Append(s, e)
      /\ Current(chain, Marks(w), w, s) /\ e \in 0..Cases /\ e \in Nat
  BY <1>1, <1>2, <1>3, MarkFacts DEF Seeds
<1>6. /\ case'[chain[w]] = e \/ (e < Cases /\ case'[chain[w]] = e + 1)
      /\ \A k \in 1..Len(chain) : k # w /\ chain[k] \in Statefuls => case'[chain[k]] = case[chain[k]]
  <2>1. \A k \in 1..Len(chain) : k # w => chain[k] # Dm  BY <1>1, <1>2, ChainFacts
  <2> QED  BY <1>1, <1>2, <1>3, <1>4, <2>1
<1>7. \A k \in 1..Len(chain) : AtWork(k)' <=> AtWork(k)  BY <1>4 DEF AtWork
<1>8. Owner(w)'  BY <1>1, <1>2, <1>4, StillOwner
<1> HIDE DEF s, e
<1>9. Seeds'
  <2>1. \A k \in 1..Len(chain) : k > w => ~AtWork(k)'  BY <1>1, <1>7 DEF Owner
  <2>2. Current(chain, Marks(w), w, src'[chain[w]])  BY <1>2, <1>4, <1>5 DEF s
  <2>3. \A k \in 1..w - 1 : AtWork(k)' =>
          AtWork(k) /\ src'[chain[k]] = src[chain[k]] /\ case'[chain[k]] = case[chain[k]]
    <3>1. \A k \in 1..w - 1 : k \in 1..Len(chain) /\ k # w  BY <1>1, <1>2
    <3> QED  BY <1>4, <1>6, <1>7, <3>1 DEF AtWork
  <2> QED  BY <1>1, <1>2, <1>4, <2>1, <2>2, <2>3, SeedsMoved
<1>10. NotYet(w)'
  <2>1. SUFFICES ASSUME prev # <<>>
                 PROVE  Complete(chain, prev) /\ w # 0 /\ UpTo(prev, Mark(w)')
    BY <1>4 DEF NotYet
  <2>2. Complete(chain, prev) /\ w # 0 /\ UpTo(prev, Append(s, e))
    BY <1>1, <1>2, <1>5, <2>1 DEF NotYet
  <2>3. Mark(w)' = Append(s, case'[chain[w]])  BY <1>2, <1>4 DEF Mark, s
  <2>4. CASE case'[chain[w]] = e  BY <2>2, <2>3, <2>4
  <2>5. CASE case'[chain[w]] = e + 1
    <3>1. Shift(chain) \in {0, 1}  BY <1>1, ShiftFacts
    <3>2. Len(s) < Len(prev)  BY <1>1, <1>2, <1>5, <2>2, <3>1 DEF Complete
    <3>3. e < e + 1 /\ e + 1 \in Nat  BY <1>5
    <3>4. Precedes(prev, Append(s, e + 1))  BY <1>3, <1>5, <2>2, <3>2, <3>3, GoesOn
    <3> QED  BY <2>2, <2>3, <2>5, <3>4 DEF UpTo
  <2> QED  BY <1>6, <2>4, <2>5
<1> QED  BY <1>4, <1>8, <1>9, <1>10, HealthyAfterFail
-----------------------------------------------------------------------------
(* The generator, when it is its turn.                                      *)

\* When the head owns the chain, it is active and nothing is at work.
LEMMA HeadFacts ==
  ASSUME ChainTypeOK, Restorable, pos # 0, resetting = FALSE,
         NEW w \in 0..Len(chain), Healthy(w), Waiting(w), pos > w
  PROVE  /\ w = 0 /\ pos = 1 /\ pos \in 1..Len(chain) /\ Len(chain) \in Nat
         /\ IsChain(chain) /\ IsGen(chain) /\ Shift(chain) = 0
         /\ Dm = chain[1] /\ Dm \in Generators /\ Dm \notin Statefuls /\ Dm \in active
         /\ Owner(0) /\ NotYet(0) /\ MadeActive = active /\ NeedNow = needSeed /\ InitNow = init
         /\ ActiveNow = active /\ \A k \in 1..Len(chain) : ~AtWork(k)
<1>1. /\ IsChain(chain) /\ Owner(w) /\ Seeds /\ NotYet(w) /\ Len(chain) \in Nat
      /\ MadeActive = active /\ NeedNow = needSeed /\ InitNow = init
      /\ w = 0 /\ pos = 1 /\ IsGen(chain) /\ Dm = chain[1]
      /\ Dm \in Generators /\ Dm \notin Statefuls /\ Dm \in active
  BY AtOwner, ChainFacts
<1>2. pos \in 1..Len(chain)  BY DmFacts
<1>3. \A k \in 1..Len(chain) : ~AtWork(k)  BY <1>1 DEF Owner
<1>4. ActiveNow = active  BY <1>1 DEF ActiveNow, DisableLeft
<1> QED  BY <1>1, <1>2, <1>3, <1>4 DEF Shift

\* Whatever the generator does, what follows waits for its data.
LEMMA HeadStays ==
  ASSUME ChainTypeOK, IsChain(chain), Owner(0), \A k \in 1..Len(chain) : ~AtWork(k),
         UNCHANGED <<chain, needSeed>>,
         \A k \in 1..Len(chain) : chain[k] \in active' <=> chain[k] \in active
  PROVE  Owner(0)' /\ Seeds'
<1>1. \A k \in 1..Len(chain) : ~AtWork(k)'  BY DEF AtWork
<1>2. Owner(0)'  BY DEF Owner, AtWork
<1> QED  BY <1>1, <1>2 DEF Seeds

\* It fails: its data starts again, or goes on after those it made.
LEMMA HeadFails ==
  ASSUME ChainTypeOK, Restorable, pos # 0, resetting = FALSE,
         NEW w \in 0..Len(chain), Healthy(w), Waiting(w), pos > w,
         Exhausted \/ Crash \/ \E crash \in BOOLEAN : SetupFails(crash)
  PROVE  Healthy(0)'
<1>1. /\ IsChain(chain) /\ IsGen(chain) /\ Len(chain) \in Nat /\ pos \in 1..Len(chain)
      /\ Dm = chain[1] /\ Dm \in Generators /\ Dm \notin Statefuls /\ Dm \in active
      /\ Owner(0) /\ NotYet(0) /\ MadeActive = active /\ NeedNow = needSeed /\ InitNow = init
      /\ ActiveNow = active /\ \A k \in 1..Len(chain) : ~AtWork(k)
  BY HeadFacts
<1>2. Fail /\ UNCHANGED <<chain, needSeed, prev>> /\ active' = active
  <2>1. CASE Exhausted  BY <1>1, <2>1 DEF Exhausted, history
  <2>2. CASE Crash  BY <1>1, <2>2 DEF Crash, SetUp
  <2>3. CASE \E crash \in BOOLEAN : SetupFails(crash)
    <3>1. PICK crash \in BOOLEAN : SetupFails(crash)  BY <2>3
    <3>2. active \cup {Dm} = active /\ needSeed \cup ({Dm} \cap Statefuls) = needSeed  BY <1>1
    <3> QED  BY <1>1, <3>1, <3>2 DEF SetupFails
  <2> QED  BY <2>1, <2>2, <2>3
<1>3. \/ chain[1] \notin init'
      \/ /\ hit' = TRUE
         /\ chain[1] \in init => made'[chain[1]] = made[chain[1]]
         /\ chain[1] \notin init => made'[chain[1]] = 0
  <2>1. CASE Exhausted  BY <1>1, <2>1 DEF Exhausted
  <2>2. CASE Crash
    <3>1. hit' = TRUE /\ made' = [made EXCEPT ![Dm] = Made]  BY <1>1, <2>2 DEF Crash, Fault
    <3>2. Made = IF chain[1] \in init THEN made[chain[1]] ELSE 0  BY <1>1 DEF Made
    <3>3. made \in [Generators -> 0..Stock]  BY ChainTypes
    <3> QED  BY <1>1, <3>1, <3>2, <3>3
  <2>3. CASE \E crash \in BOOLEAN : SetupFails(crash)  BY <1>1, <2>3 DEF SetupFails
  <2> QED  BY <2>1, <2>2, <2>3
<1>4. Owner(0)' /\ Seeds'  BY <1>1, <1>2, HeadStays
<1>5. NotYet(0)'
  <2>1. SUFFICES ASSUME prev # <<>>, GenMade'
                 PROVE  UpTo(prev, Mark(0)') /\ hit' = TRUE
    BY <1>1, <1>2 DEF NotYet
  <2>2. /\ hit' = TRUE /\ chain[1] \in init /\ made'[chain[1]] = made[chain[1]]
        /\ made[chain[1]] # 0
    BY <1>2, <1>3, <2>1 DEF GenMade
  <2>3. UpTo(prev, Mark(0))  BY <1>1, <2>1, <2>2 DEF NotYet, GenMade
  <2>4. Mark(0)' = Mark(0)  BY <1>2, <2>2 DEF Mark
  <2> QED  BY <2>2, <2>3, <2>4
<1> QED  BY <1>2, <1>4, <1>5, HealthyAfterFail

\* The data of the generator.
LEMMA GeneratedData ==
  ASSUME IsChain(chain), IsGen(chain), chain' = chain, NEW m \in 1..Stock,
         made'[chain[1]] = m, ~AtWork(1)'
  PROVE  Current(chain, Marks(2)', 2, <<m>>)
<1>1. Stock \in Nat /\ m \in Nat  BY DmakerChainAssumption
<1>2. /\ chain[1] \in Generators /\ Shift(chain) = 0
      /\ <<m>> \in Seq(Nat) /\ Len(<<m>>) = 1 /\ <<m>>[1] = m
  BY <1>1 DEF IsGen, Shift
<1>3. Shaped(chain, <<m>>)
  <2>1. \A j \in 1..Len(<<m>>) : j = 1  BY <1>2
  <2>2. Fitting(chain, 1, m)  BY <1>2 DEF Fitting
  <2> QED  BY <1>2, <2>1, <2>2 DEF Shaped
<1>4. \A x \in Marks(2)' : Begins(x, <<m>>)
  <2>1. Mark(0)' = <<m>>  BY DEF Mark
  <2>2. \A x \in Marks(2)' : x = Mark(0)'  BY DEF Marks
  <2> QED  BY <1>2, <2>1, <2>2, BeginsItself
<1> QED  BY <1>2, <1>3, <1>4 DEF Current

\* It makes its next data, which follows the last one when nothing can go on after it.
LEMMA HeadGenerates ==
  ASSUME ChainTypeOK, Restorable, pos # 0, resetting = FALSE,
         NEW w \in 0..Len(chain), Healthy(w), Waiting(w), pos > w, Generate
  PROVE  Healthy(0)'
<1>1. /\ IsChain(chain) /\ IsGen(chain) /\ Len(chain) \in Nat /\ pos = 1 /\ Shift(chain) = 0
      /\ Dm = chain[1] /\ Dm \in Generators /\ Dm \notin Statefuls /\ Dm \in active
      /\ Owner(0) /\ NotYet(0) /\ MadeActive = active /\ NeedNow = needSeed /\ InitNow = init
      /\ ActiveNow = active /\ \A k \in 1..Len(chain) : ~AtWork(k) /\ pos \in 1..Len(chain)
  BY HeadFacts
<1> DEFINE m == Made + 1
           d == <<m>>
<1>2. /\ Pass(d) /\ UNCHANGED <<chain, needSeed>> /\ active' = active
      /\ made' = [made EXCEPT ![Dm] = m] /\ Made < Stock
      /\ prev' = (IF Made = 0 THEN <<>> ELSE prev) /\ hit' = (hit /\ Made # 0)
  BY <1>1 DEF Generate, SetUp
<1>3. /\ made \in [Generators -> 0..Stock] /\ Stock \in Nat /\ Made \in 0..Stock
      /\ prev \in Seq(Nat) /\ hit \in BOOLEAN
  BY <1>1, ChainTypes, MadeFacts, DmakerChainAssumption
<1>4. Made \in Nat /\ m \in 1..Stock /\ m \in Nat  BY <1>2, <1>3
<1>5. made'[chain[1]] = m /\ (Made # 0 => chain[1] \in init /\ made[chain[1]] = Made)
  BY <1>1, <1>2, <1>3 DEF Made
<1> HIDE DEF m
<1>6. d \in Seq(Nat) /\ Len(d) = 1 /\ d[1] = m /\ d # <<>> /\ d = Append(<<>>, m)  BY <1>4
<1>7. Owner(0)' /\ Seeds'  BY <1>1, <1>2, HeadStays
<1> HIDE DEF d
<1>8. data' = d  BY <1>2 DEF Pass
<1>9. Current(chain, Marks(2)', 2, d)
  <2>1. ~AtWork(1)'  BY <1>1, <1>2 DEF AtWork
  <2> QED  BY <1>1, <1>2, <1>4, <1>5, <2>1, GeneratedData DEF d
<1>10. ASSUME prev' # <<>>
       PROVE  /\ prev' = prev /\ hit' = hit /\ Complete(chain, prev) /\ Precedes(prev, d)
              /\ ~hit => Follows(prev, d) /\ LastCases(chain, prev, 0)
  <2>1. Made # 0 /\ prev' = prev /\ hit' = hit /\ GenMade /\ prev # <<>>
    BY <1>1, <1>2, <1>3, <1>5, <1>10 DEF GenMade
  <2>2. Mark(0) = <<Made>>  BY <1>1, <1>5, <2>1 DEF Mark
  <2>3. /\ Complete(chain, prev) /\ UpTo(prev, <<Made>>)
        /\ ~hit => Begins(<<Made>>, prev) /\ LastCases(chain, prev, 0)
    BY <1>1, <2>1, <2>2 DEF NotYet
  <2>4. Len(prev) = Len(chain) /\ Len(prev) >= 1
    <3>1. Len(prev) = Len(chain) + 0  BY <1>1, <2>3 DEF Complete
    <3> QED  BY <1>1, <3>1, ChainFacts
  <2>5. Precedes(prev, d)
    <3>1. <<>> \in Seq(Nat) /\ Len(<<>>) = 0 /\ <<Made>> = Append(<<>>, Made)  BY <1>4
    <3>2. UpTo(prev, Append(<<>>, Made)) /\ Len(<<>>) < Len(prev)  BY <2>3, <2>4, <3>1
    <3>3. Made < m  BY <1>4 DEF m
    <3>4. Precedes(prev, Append(<<>>, m))  BY <1>3, <1>4, <3>1, <3>2, <3>3, GoesOn
    <3> QED  BY <1>6, <3>4
  <2>6. ASSUME ~hit  PROVE Follows(prev, d)
    <3>1. prev[1] = Made
      <4>1. Len(<<Made>>) = 1 /\ <<Made>>[1] = Made  OBVIOUS
      <4> QED  BY <2>3, <2>6, <4>1 DEF Begins
    <3>2. \A j \in 2..Len(prev) : ~CanGoOn(prev[j])
      <4>1. \A j \in 2..Len(prev) : j > 0 + Shift(chain) => ~CanGoOn(prev[j])
        BY <1>1, <1>3, <2>3, <2>6, NoneCanGoOn
      <4>2. \A j \in 2..Len(prev) : j > 0 + Shift(chain)  BY <1>1, <2>4
      <4> QED  BY <4>1, <4>2
    <3>3. Following(prev)[1] = m  BY <1>3, <2>4, <3>1, <3>2, FollowingFirst DEF m
    <3>4. \A j \in 1..Len(d) : j = 1  BY <1>6
    <3> QED  BY <1>6, <3>3, <3>4 DEF Follows
  <2> QED  BY <2>1, <2>3, <2>5, <2>6
<1>11. Ahead(0, 2)'
  <2>1. NoneIn(chain, 0, 2)
    <3>1. \A k \in 1..Len(chain) : 0 < k /\ k < 2 => k = 1  OBVIOUS
    <3> QED  BY <1>1, <3>1 DEF NoneIn
  <2>2. Moved(2)'
    <3>1. SUFFICES ASSUME prev' # <<>>
                   PROVE  /\ Complete(chain, prev) /\ Precedes(prev, d)
                          /\ ~hit => Follows(prev, d) /\ LastCases(chain, prev, 2 - 1)
      BY <1>2, <1>8, <1>10 DEF Moved
    <3>2. LastCases(chain, prev, 0) => LastCases(chain, prev, 2 - 1)  BY DEF LastCases
    <3> QED  BY <1>10, <3>1, <3>2
  <2> QED  BY <1>1, <1>2, <1>8, <1>9, <2>1, <2>2 DEF Ahead
<1>12. 2 = pos + 1 /\ 0 \in 0..pos  BY <1>1
<1> QED  BY <1>1, <1>2, <1>6, <1>7, <1>11, <1>12, HealthyAfterPass
-----------------------------------------------------------------------------
(* The steps after the owner.                                               *)

\* Behind the owner, each data maker makes its first case.
LEMMA FollowsRest ==
  ASSUME ChainTypeOK, IsChain(chain), NEW p \in 1..Len(chain), chain[p] \notin Generators,
         p + Shift(chain) >= 2, Len(data) = p - 1 + Shift(chain),
         Complete(chain, prev), Follows(prev, data), LastCases(chain, prev, p - 1),
         NEW f, f = IF chain[p] \in Statefuls THEN 1 ELSE 0
  PROVE  Follows(prev, Append(data, f)) /\ LastCases(chain, prev, p)
<1> DEFINE i == p + Shift(chain)
<1>1. /\ Len(chain) \in Nat /\ Shift(chain) \in {0, 1} /\ prev \in Seq(Nat) /\ data \in Seq(Nat)
      /\ Len(prev) = Len(chain) + Shift(chain) /\ Cases \in Nat \ {0}
  BY ChainFacts, ShiftFacts, ChainTypes, DmakerChainAssumption DEF Complete
<1>2. i \in 2..Len(prev) /\ i \in Nat /\ Len(data) = i - 1 /\ i # Shift(chain) /\ i - Shift(chain) = p
  BY <1>1
<1>3. \A j \in i..Len(prev) : ~CanGoOn(prev[j])
  <2>1. p - 1 \in Nat  BY <1>1
  <2>2. \A j \in 2..Len(prev) : j > p - 1 + Shift(chain) => ~CanGoOn(prev[j])
    BY <1>1, <2>1, NoneCanGoOn
  <2>3. \A j \in i..Len(prev) : j \in 2..Len(prev) /\ j > p - 1 + Shift(chain)  BY <1>1, <1>2
  <2> QED  BY <2>2, <2>3
<1>4. Following(prev)[i] = IF prev[i] = 0 THEN 0 ELSE 1
  <2> HIDE DEF i
  <2> QED  BY <1>1, <1>2, <1>3, FollowingRest
<1>5. Fitting(chain, p, prev[i])
  <2>1. i \in 1..Len(prev)  BY <1>2
  <2>2. Fitting(chain, i - Shift(chain), prev[i])  BY <1>2, <2>1 DEF Complete, Shaped
  <2> HIDE DEF i
  <2> QED  BY <1>2, <2>2
<1>6. Following(prev)[i] = f
  <2>1. CASE chain[p] \in Statefuls
    <3>1. prev[i] \in 1..Cases  BY <1>5, <2>1 DEF Fitting
    <3>2. prev[i] # 0  BY <1>1, <3>1
    <3> QED  BY <1>4, <2>1, <3>2
  <2>2. CASE chain[p] \notin Statefuls  BY <1>4, <1>5, <2>2 DEF Fitting
  <2> QED  BY <2>1, <2>2
<1> HIDE DEF i
<1>7. /\ Len(Append(data, f)) = i /\ Append(data, f)[i] = f
      /\ \A j \in 1..i - 1 : Append(data, f)[j] = data[j]
  BY <1>1, <1>2, AppendFacts
<1>8. \A j \in 1..i : Append(data, f)[j] = Following(prev)[j]
  <2> TAKE j \in 1..i
  <2>1. CASE j = i  BY <1>6, <1>7, <2>1
  <2>2. CASE j # i
    <3>1. j \in 1..i - 1  BY <1>2, <2>2
    <3> QED  BY <1>2, <1>7, <3>1 DEF Follows
  <2> QED  BY <2>1, <2>2
<1>9. LastCases(chain, prev, p)  BY <1>1 DEF LastCases
<1> QED  BY <1>7, <1>8, <1>9 DEF Follows

\* The data goes through one data maker more.
LEMMA AheadMore ==
  ASSUME ChainTypeOK, IsChain(chain), NEW w \in 0..Len(chain), pos \in 1..Len(chain),
         chain[pos] \notin Generators, pos + Shift(chain) >= 2, Seeds, Ahead(w, pos),
         NEW f, f = (IF chain[pos] \in Statefuls THEN 1 ELSE 0), data' = Append(data, f),
         NEW v, v = (IF chain[pos] \in Statefuls THEN pos ELSE w), NEW q, q = pos + 1,
         UNCHANGED <<chain, prev, hit>>, Marks(q)' \subseteq Marks(pos) \cup {Append(data, f)}
  PROVE  Ahead(v, q)'
<1>1. /\ Len(chain) \in Nat /\ Shift(chain) \in {0, 1} /\ data \in Seq(Nat) /\ prev \in Seq(Nat)
      /\ Cases \in Nat \ {0} /\ pos \in Nat /\ f \in Nat
  BY ChainFacts, ShiftFacts, ChainTypes, DmakerChainAssumption
<1>2. Current(chain, Marks(pos), pos, data) /\ NoneIn(chain, w, pos) /\ Moved(pos)
  BY DEF Ahead
<1>3. Current(chain, Marks(q)', q, data')
  <2>1. \A m \in Marks(pos) : m \in Seq(Nat)
    <3>1. pos \in 1..Len(chain) + 1  BY <1>1
    <3> QED  BY <3>1, MarksAreData
  <2>2. Fitting(chain, pos, f)  BY <1>1 DEF Fitting
  <2>3. Current(chain, Marks(q)', pos + 1, Append(data, f))
    BY <1>1, <1>2, <2>1, <2>2, CurrentMore
  <2> QED  BY <2>3
<1>4. NoneIn(chain, v, q)
  <2>1. CASE chain[pos] \in Statefuls  BY <1>1, <2>1 DEF NoneIn
  <2>2. CASE chain[pos] \notin Statefuls
    <3>1. \A k \in 1..Len(chain) : w < k /\ k < q => k = pos \/ (w < k /\ k < pos)  BY <1>1
    <3> QED  BY <1>2, <2>2, <3>1 DEF NoneIn
  <2> QED  BY <2>1, <2>2
<1>5. Moved(q)'
  <2>1. SUFFICES ASSUME prev # <<>>
                 PROVE  /\ Complete(chain, prev) /\ Precedes(prev, Append(data, f))
                        /\ ~hit => Follows(prev, Append(data, f)) /\ LastCases(chain, prev, q - 1)
    BY DEF Moved
  <2>2. /\ Complete(chain, prev) /\ Precedes(prev, data)
        /\ ~hit => Follows(prev, data) /\ LastCases(chain, prev, pos - 1)
    BY <1>2, <2>1 DEF Moved
  <2>3. Precedes(prev, Append(data, f))  BY <1>1, <2>2, PrecedesMore
  <2>4. Len(data) = pos - 1 + Shift(chain)  BY <1>2 DEF Current
  <2>5. ASSUME ~hit  PROVE Follows(prev, Append(data, f)) /\ LastCases(chain, prev, pos)
    BY <1>1, <2>2, <2>4, <2>5, FollowsRest
  <2>6. q - 1 = pos  BY <1>1
  <2> QED  BY <2>2, <2>3, <2>5, <2>6
<1>6. prev # <<>> => v # 0 \/ IsGen(chain)  BY DEF Ahead
<1> QED  BY <1>3, <1>4, <1>5, <1>6 DEF Ahead

\* A stateless disruptor changes the data and nothing else.
LEMMA DisruptOrder ==
  ASSUME ChainTypeOK, pos # 0, resetting = FALSE,
         NEW w \in 0..Len(chain), Healthy(w), ~Waiting(w), Disrupt
  PROVE  Healthy(w)'
<1>1. /\ pos \in 1..Len(chain) /\ IsChain(chain) /\ Owner(w) /\ Seeds /\ w < pos
      /\ Ahead(w, pos) /\ data # <<>> /\ pos + Shift(chain) >= 2
      /\ MadeActive = active /\ Dm \notin Generators /\ Len(chain) \in Nat
  BY AfterOwner, ChainFacts
<1>2. /\ Pass(Append(data, 0)) /\ Dm \notin Statefuls /\ active' = ActiveNow
      /\ UNCHANGED <<chain, needSeed, made, src, case, hit, prev>>
  BY <1>1 DEF Disrupt, SetUp, walkers, history
<1>3. active' = active  BY <1>1, <1>2 DEF ActiveNow, DisableLeft
<1>4. w \in Nat /\ pos + 1 \in Nat /\ pos \in Nat \ {0}  BY <1>1
<1>5. Owner(w)'  BY <1>1, <1>2, <1>3, <1>4, OwnerSame
<1>6. \A k \in 1..Len(chain) : AtWork(k)' => AtWork(k)  BY <1>2 DEF AtWork
<1>7. Seeds'  BY <1>1, <1>2, <1>6, SeedsSame
<1>8. data' = Append(data, 0) /\ chain[pos] = Dm  BY <1>2 DEF Pass, Dm
<1>9. Append(data, 0) # <<>>
  <2>1. data \in Seq(Nat)  BY ChainTypes
  <2>2. ASSUME NEW d, d = Append(data, 0)  PROVE d # <<>>
    <3>1. d \in Seq(Nat) /\ Len(d) # 0  BY <2>1, <2>2, AppendFacts
    <3> QED  BY <3>1
  <2> QED  BY <2>2
<1> SUFFICES ASSUME NEW p, p = pos, NEW q, q = p + 1  PROVE Healthy(w)'  OBVIOUS
<1>10. Marks(q)' \subseteq Marks(pos) \cup {Append(data, 0)}
  <2>1. ~AtWork(p)'  BY <1>2, <1>8 DEF AtWork
  <2>2. Marks(q)' \subseteq Marks(p)'  BY <1>4, <2>1, MarksNext
  <2>3. p \in 1..Len(chain) + 1 /\ \A k \in 1..p - 1 : k \in 1..Len(chain)  BY <1>1
  <2>4. Marks(p)' \subseteq Marks(p)  BY <1>1, <1>2, <1>6, <2>3, MarksSame
  <2> QED  BY <2>2, <2>4
<1>11. Ahead(w, q)'
  <2>1. q = pos + 1  OBVIOUS
  <2> QED  BY <1>1, <1>2, <1>8, <1>10, <2>1, AheadMore
<1>12. w \in 0..pos /\ q = pos + 1  BY <1>1
<1> QED  BY <1>2, <1>5, <1>7, <1>9, <1>11, <1>12, HealthyAfterPass

\* A stateful disruptor that is fed takes over, whether it makes its first case or not.
LEMMA TakesOver ==
  ASSUME ChainTypeOK, pos # 0, resetting = FALSE,
         NEW w \in 0..Len(chain), Healthy(w), ~Waiting(w), NEW n \in 0..Cases,
         Dm \in Statefuls, active' = ActiveNow, needSeed' = needSeed \ {Dm},
         src' = [src EXCEPT ![Dm] = data], case' = [case EXCEPT ![Dm] = n],
         UNCHANGED <<chain, made>>, NEW p, p = pos
  PROVE  /\ Owner(p)' /\ Seeds' /\ Mark(p)' = Append(data, n)
         /\ \A k \in 1..p - 1 : AtWork(k)' =>
               AtWork(k) /\ src'[chain[k]] = src[chain[k]] /\ case'[chain[k]] = case[chain[k]]
<1>1. /\ pos \in 1..Len(chain) /\ IsChain(chain) /\ Owner(w) /\ Seeds /\ w < pos
      /\ Ahead(w, pos) /\ MadeActive = active /\ Dm \in active
      /\ Len(chain) \in Nat
  BY AfterOwner, ChainFacts
<1>2. /\ Dm \in Statefuls /\ active' = ActiveNow /\ needSeed' = needSeed \ {Dm}
      /\ src' = [src EXCEPT ![Dm] = data] /\ case' = [case EXCEPT ![Dm] = n]
      /\ UNCHANGED <<chain, made>>
  OBVIOUS
<1>3. /\ src \in [Statefuls -> Seq(Nat)] /\ case \in [Statefuls -> 0..Cases]
      /\ data \in Seq(Nat)
  BY ChainTypes
<1>4. /\ p \in 1..Len(chain) /\ chain[p] = Dm /\ p \in Nat \ {0} /\ w \in Nat
      /\ \A k \in 1..Len(chain) : k # p => chain[k] # Dm
  BY <1>1, ChainFacts DEF Dm
<1>5. /\ src'[chain[p]] = data /\ case'[chain[p]] = n
      /\ \A k \in 1..Len(chain) : k # p /\ chain[k] \in Statefuls
            => src'[chain[k]] = src[chain[k]] /\ case'[chain[k]] = case[chain[k]]
      /\ \A k \in 1..Len(chain) : AtWork(k)' <=> k = p \/ AtWork(k)
  BY <1>2, <1>3, <1>4 DEF AtWork
<1>6. \A k \in 1..Len(chain) : k < p /\ chain[k] \in Statefuls => chain[k] \notin needSeed
  <2>1. \A k \in 1..Len(chain) : k < p => k < w \/ k = w \/ (w < k /\ k < pos)  BY <1>1, <1>4
  <2> QED  BY <1>1, <1>4, <2>1 DEF Owner, AtWork, Ahead, NoneIn
<1>7. Owner(p)'
  <2>1. \A k \in 1..Len(chain) :
          /\ k >= pos => (chain[k] \in active' <=> chain[k] \in active)
          /\ k < pos => chain[k] \notin active'
    <3>1. \A k \in 1..Len(chain) : k >= pos => (chain[k] \in active' <=> chain[k] \in active)
      BY <1>1, <1>2, SetUpFacts
    <3>2. \A k \in 1..Len(chain) : k < pos => chain[k] \notin active'
      BY <1>1, <1>2, SetUpFacts
    <3> QED  BY <3>1, <3>2
  <2>2. \A k \in 1..Len(chain) : k > p => chain[k] \in active /\ ~AtWork(k)
    <3>1. \A k \in 1..Len(chain) : k > p => k > w  BY <1>1, <1>4
    <3> QED  BY <1>1, <3>1 DEF Owner
  <2>3. ASSUME NEW k \in 1..Len(chain)
        PROVE  /\ k < p => /\ chain[k] \notin active'
                           /\ chain[k] \in Statefuls => chain[k] \notin needSeed'
               /\ k = p => chain[k] \in active' /\ AtWork(k)'
               /\ k > p => chain[k] \in active' /\ ~AtWork(k)'
    <3>1. k < p => chain[k] \notin active' /\ (chain[k] \in Statefuls => chain[k] \notin needSeed')
      BY <1>2, <1>6, <2>1
    <3>2. k = p => chain[k] \in active' /\ AtWork(k)'  BY <1>1, <1>4, <1>5, <2>1
    <3>3. k > p => chain[k] \in active' /\ ~AtWork(k)'
      <4>1. k > p => k >= pos /\ k # p  BY <1>4
      <4> QED  BY <1>5, <2>1, <2>2, <4>1
    <3> QED  BY <3>1, <3>2, <3>3
  <2> QED  BY <1>2, <2>3 DEF Owner
<1>8. \A k \in 1..p - 1 : AtWork(k)' =>
         AtWork(k) /\ src'[chain[k]] = src[chain[k]] /\ case'[chain[k]] = case[chain[k]]
  <2>1. \A k \in 1..p - 1 : k \in 1..Len(chain) /\ k # p  BY <1>1, <1>4
  <2> QED  BY <1>5, <2>1 DEF AtWork
<1>9. Seeds'
  <2>1. \A k \in 1..Len(chain) : k > p => ~AtWork(k)'
    <3>1. \A k \in 1..Len(chain) : k > p => k > w /\ k # p  BY <1>1, <1>4
    <3> QED  BY <1>1, <1>5, <3>1 DEF Owner
  <2>2. Current(chain, Marks(p), p, src'[chain[p]])  BY <1>1, <1>5 DEF Ahead
  <2> QED  BY <1>1, <1>2, <1>4, <1>8, <2>1, <2>2, SeedsMoved
<1>10. Mark(p)' = Append(data, n)  BY <1>2, <1>4, <1>5 DEF Mark
<1> QED  BY <1>7, <1>8, <1>9, <1>10

\* It makes its first case.
LEMMA FedOrder ==
  ASSUME ChainTypeOK, pos # 0, resetting = FALSE,
         NEW w \in 0..Len(chain), Healthy(w), ~Waiting(w), Walk
  PROVE  \E v \in 0..Len(chain) : Healthy(v)'
<1>1. /\ pos \in 1..Len(chain) /\ IsChain(chain) /\ Owner(w) /\ Seeds /\ w < pos
      /\ Ahead(w, pos) /\ data # <<>> /\ pos + Shift(chain) >= 2
      /\ MadeActive = active /\ NeedNow = needSeed
      /\ Dm \in active /\ Dm \notin Generators /\ (Dm \in Statefuls => Dm \in needSeed)
      /\ Len(chain) \in Nat
  BY AfterOwner, ChainFacts
<1>2. /\ Dm \in Statefuls /\ Dm \in needSeed /\ Pass(Append(data, 1)) /\ active' = ActiveNow
      /\ needSeed' = needSeed \ {Dm}
      /\ src' = [src EXCEPT ![Dm] = data] /\ case' = [case EXCEPT ![Dm] = 1]
      /\ UNCHANGED <<chain, made, hit, prev>>
  BY <1>1 DEF Walk, SetUp, history
<1>3. /\ src \in [Statefuls -> Seq(Nat)] /\ case \in [Statefuls -> 0..Cases]
      /\ Cases \in Nat \ {0} /\ data \in Seq(Nat)
  BY ChainTypes, DmakerChainAssumption
<1> SUFFICES ASSUME NEW p, p = pos, NEW q, q = p + 1  PROVE Healthy(p)'
  BY <1>1
<1>4. /\ p \in 1..Len(chain) /\ chain[p] = Dm /\ p \in Nat \ {0} /\ w \in Nat
  BY <1>1 DEF Dm
<1>5. /\ Owner(p)' /\ Seeds' /\ Mark(p)' = Append(data, 1)
      /\ \A k \in 1..p - 1 : AtWork(k)' =>
            AtWork(k) /\ src'[chain[k]] = src[chain[k]] /\ case'[chain[k]] = case[chain[k]]
  <2>1. 1 \in 0..Cases  BY <1>3
  <2> QED  BY <1>2, <2>1, TakesOver
<1>6. data' = Append(data, 1) /\ Append(data, 1) # <<>>
  <2>1. ASSUME NEW d, d = Append(data, 1)  PROVE d # <<>>
    <3>1. d \in Seq(Nat) /\ Len(d) # 0  BY <1>3, <2>1, AppendFacts
    <3> QED  BY <3>1
  <2> QED  BY <1>2, <2>1 DEF Pass
<1>7. Marks(q)' \subseteq Marks(pos) \cup {Append(data, 1)}
  <2>1. Mark(p)' = Append(data, 1)  BY <1>5
  <2>2. Marks(q)' \subseteq Marks(p)' \cup {Mark(p)'}  BY <1>4, MarksNext
  <2>3. p \in 1..Len(chain) + 1  BY <1>1
  <2>4. Marks(p)' \subseteq Marks(p)  BY <1>1, <1>2, <1>5, <2>3, MarksSame
  <2> QED  BY <2>1, <2>2, <2>4
<1>8. Ahead(p, q)'
  <2>1. q = pos + 1 /\ chain[pos] \in Statefuls /\ chain[pos] \notin Generators
    BY <1>1, <1>2, <1>4
  <2> QED  BY <1>1, <1>2, <1>6, <1>7, <2>1, AheadMore
<1>9. p \in 0..pos /\ q = pos + 1  BY <1>1
<1> QED  BY <1>2, <1>5, <1>6, <1>8, <1>9, HealthyAfterPass

\* It crashes once it has its seed: it is the owner, of a data that comes after the last one
\* that was delivered.
LEMMA FedCrashes ==
  ASSUME ChainTypeOK, pos # 0, resetting = FALSE,
         NEW w \in 0..Len(chain), Healthy(w), ~Waiting(w), NEW n \in {0, 1}, CrashFed(n)
  PROVE  \E v \in 0..Len(chain) : Healthy(v)'
<1>1. /\ pos \in 1..Len(chain) /\ Ahead(w, pos) /\ NeedNow = needSeed
      /\ Dm \notin Generators /\ Len(chain) \in Nat
  BY AfterOwner, ChainFacts
<1>2. /\ Fail /\ hit' = TRUE /\ Dm \in Statefuls /\ active' = ActiveNow
      /\ needSeed' = needSeed \ {Dm}
      /\ src' = [src EXCEPT ![Dm] = data] /\ case' = [case EXCEPT ![Dm] = n]
      /\ UNCHANGED <<chain, made, prev>>
  BY <1>1, ChainTypes DEF CrashFed, SetUp, Fault
<1> SUFFICES ASSUME NEW p, p = pos  PROVE Healthy(p)'  BY <1>1
<1>3. Owner(p)' /\ Seeds' /\ Mark(p)' = Append(data, n)
  <2>1. n \in 0..Cases  BY DmakerChainAssumption
  <2> QED  BY <1>2, <2>1, TakesOver
<1>4. NotYet(p)'
  <2>1. SUFFICES ASSUME prev # <<>>
                 PROVE  Complete(chain, prev) /\ p # 0 /\ UpTo(prev, Append(data, n))
    BY <1>2, <1>3 DEF NotYet
  <2>2. Complete(chain, prev) /\ Precedes(prev, data)  BY <1>1, <2>1 DEF Ahead, Moved
  <2>3. Precedes(prev, Append(data, n))
    <3>1. prev \in Seq(Nat) /\ data \in Seq(Nat) /\ n \in Nat  BY ChainTypes
    <3> QED  BY <2>2, <3>1, PrecedesMore
  <2> QED  BY <1>1, <2>2, <2>3 DEF UpTo
<1> QED  BY <1>2, <1>3, <1>4, HealthyAfterFail

\* What fails without having taken over leaves the owner as it is.
LEMMA FailsOrder ==
  ASSUME ChainTypeOK, pos # 0, resetting = FALSE,
         NEW w \in 0..Len(chain), Healthy(w), ~Waiting(w),
         Crash \/ \E crash \in BOOLEAN : SetupFails(crash), ~hurt'
  PROVE  Healthy(w)'
<1>1. /\ pos \in 1..Len(chain) /\ IsChain(chain) /\ Owner(w) /\ Seeds /\ w < pos
      /\ Ahead(w, pos) /\ MadeActive = active /\ NeedNow = needSeed
      /\ Dm \in active /\ Dm \notin Generators /\ (Dm \in Statefuls => Dm \in needSeed)
      /\ Len(chain) \in Nat
  BY AfterOwner, ChainFacts
<1>2. /\ Fail /\ UNCHANGED <<chain, made, src, case, prev>> /\ hit' = TRUE /\ ~TookOver
      /\ active' = ActiveNow \/ active' = ActiveNow \cup {Dm}
      /\ needSeed' = needSeed
  <2>1. CASE Crash  BY <1>1, <2>1 DEF Crash, SetUp, Fault, TookOver
  <2>2. CASE \E crash \in BOOLEAN : SetupFails(crash)
    <3>1. PICK crash \in BOOLEAN : SetupFails(crash)  BY <2>2
    <3>2. needSeed \cup ({Dm} \cap Statefuls) = needSeed  BY <1>1
    <3> QED  BY <1>1, <3>1, <3>2 DEF SetupFails, Fault, walkers
  <2> QED  BY <2>1, <2>2
<1>3. active' = active
  <2>1. ActiveNow = active
    <3>1. CASE Dm \notin Statefuls  BY <1>1, <3>1 DEF ActiveNow, DisableLeft
    <3>2. CASE pos = 1
      <4>1. Left = {}  BY <3>2 DEF Left
      <4> QED  BY <1>1, <4>1 DEF ActiveNow, DisableLeft
    <3> QED  BY <1>2, <3>1, <3>2 DEF TookOver
  <2> QED  BY <1>1, <1>2, <2>1
<1>4. Owner(w)' /\ Seeds'
  <2>1. \A k \in 1..Len(chain) : AtWork(k)' => AtWork(k)  BY <1>2 DEF AtWork
  <2>2. w \in Nat  BY <1>1
  <2> QED  BY <1>1, <1>2, <1>3, <2>1, <2>2, OwnerSame, SeedsSame
<1>5. NotYet(w)'
  <2>1. SUFFICES ASSUME prev # <<>>
                 PROVE  /\ Complete(chain, prev) /\ (w = 0 => IsGen(chain))
                        /\ UpTo(prev, Mark(w))
    <3>1. Mark(w)' = Mark(w)  BY <1>2 DEF Mark
    <3> QED  BY <1>2, <3>1 DEF NotYet
  <2>2. /\ Complete(chain, prev) /\ Precedes(prev, data) /\ (w = 0 => IsGen(chain))
        /\ Len(prev) = Len(chain) + Shift(chain) /\ Shift(chain) \in {0, 1}
    BY <1>1, <2>1, ShiftFacts DEF Ahead, Moved, Complete
  <2>3. UpTo(prev, data)  BY <2>2 DEF UpTo
  <2>4. w # 0 => w \in 1..Len(chain) /\ AtWork(w)  BY <1>1 DEF Owner
  <2>5. Mark(w) \in Marks(pos)
    <3>1. w # 0 => w \in 1..pos - 1  BY <1>1
    <3> QED  BY <2>4, <3>1 DEF Marks
  <2>6. Begins(Mark(w), data)  BY <1>1, <2>5 DEF Ahead, Current
  <2>7. Mark(w) \in Seq(Nat) /\ Len(Mark(w)) <= Len(prev)
    <3>1. CASE w = 0  BY <1>1, <2>2, <3>1, MarkFacts
    <3>2. CASE w # 0
      <4>1. Mark(w) \in Seq(Nat) /\ Len(Mark(w)) = w + Shift(chain)
        BY <1>1, <2>4, <3>2, MarkFacts
      <4> QED  BY <1>1, <2>2, <4>1
    <3> QED  BY <3>1, <3>2
  <2>8. prev \in Seq(Nat) /\ data \in Seq(Nat)  BY ChainTypes
  <2> QED  BY <2>2, <2>3, <2>6, <2>7, <2>8, UpToPart
<1> QED  BY <1>2, <1>4, <1>5, HealthyAfterFail

\* A step of a chain that is not hurt leaves it healthy.
LEMMA HealthyStep ==
  ASSUME ChainTypeOK, Restorable, resetting = FALSE, ~hurt',
         NEW w \in 0..Len(chain), Healthy(w), ChainStep
  PROVE  \E v \in 0..Len(chain') : Healthy(v)'
<1>1. pos # 0 /\ chain' = chain
  BY DEF ChainStep, Skip, Generate, Exhausted, Disrupt, Crash, CrashFed, Starve, Decline, Walk,
         Yield, SetupFails, Working
<1>2. 0 \in 0..Len(chain)
  <2>1. IsChain(chain) /\ Len(chain) \in Nat  BY <1>1, DmFacts, ChainFacts
  <2> QED  BY <2>1
<1>3. CASE Skip  BY <1>1, <1>3, SkipOrder
<1>4. CASE Waiting(w) /\ ~Skip
  <2>1. /\ MadeActive = active /\ NeedNow = needSeed /\ pos \in 1..Len(chain)
        /\ pos < w => Dm \notin active
        /\ pos = w => Dm \in Statefuls /\ Dm \notin needSeed /\ Dm \in init /\ Dm \notin Generators
        /\ pos > w => Dm \in Generators /\ Dm \notin Statefuls
        /\ InitNow = init /\ needSeed \subseteq Statefuls
    BY <1>1, <1>4, AtOwner, ChainTypes
  <2>2. Working
    BY <1>4 DEF ChainStep, Generate, Exhausted, Disrupt, Crash, CrashFed, Starve, Decline, Walk,
                Yield, SetupFails
  <2>3. pos = w \/ pos > w
    <3>1. ~(pos < w)  BY <2>1, <2>2 DEF Working
    <3> QED  BY <2>1, <3>1
  <2>4. CASE Generate \/ Exhausted
    <3>1. pos > w  BY <2>1, <2>3, <2>4 DEF Generate, Exhausted
    <3> QED  BY <1>1, <1>2, <1>4, <2>4, <3>1, HeadGenerates, HeadFails
  <2>5. CASE Disrupt  BY <2>1, <2>3, <2>5 DEF Disrupt
  <2>6. CASE Crash  BY <1>1, <1>2, <1>4, <2>3, <2>6, OwnerCrashes, HeadFails
  <2>7. CASE Starve \/ Decline \/ \E n \in {0, 1} : CrashFed(n)
    BY <2>1, <2>3, <2>7 DEF Starve, Decline, CrashFed
  <2>8. CASE Walk  BY <1>1, <1>4, <2>8, OwnerWalks
  <2>9. CASE Yield  BY <1>1, <1>4, <2>9, OwnerYields
  <2>10. CASE \E crash \in BOOLEAN : SetupFails(crash)
    <3>1. pos > w  BY <2>1, <2>3, <2>10 DEF SetupFails
    <3> QED  BY <1>1, <1>2, <1>4, <2>10, <3>1, HeadFails
  <2> QED  BY <1>4, <2>4, <2>5, <2>6, <2>7, <2>8, <2>9, <2>10 DEF ChainStep
<1>5. CASE ~Waiting(w) /\ ~Skip
  <2>1. /\ NeedNow = needSeed /\ Dm \notin Generators /\ data # <<>>
        /\ Dm \in Statefuls => Dm \in needSeed
    BY <1>1, <1>5, AfterOwner
  <2>2. CASE Generate \/ Exhausted \/ Starve \/ Decline \/ Yield
    BY <2>1, <2>2 DEF Generate, Exhausted, Starve, Decline, Yield
  <2>3. CASE Disrupt  BY <1>1, <1>5, <2>3, DisruptOrder
  <2>4. CASE Crash \/ \E crash \in BOOLEAN : SetupFails(crash)
    BY <1>1, <1>5, <2>4, FailsOrder
  <2>5. CASE Walk  BY <1>1, <1>5, <2>5, FedOrder
  <2>6. CASE \E n \in {0, 1} : CrashFed(n)  BY <1>1, <1>5, <2>6, FedCrashes
  <2> QED  BY <1>5, <2>2, <2>3, <2>4, <2>5, <2>6 DEF ChainStep
<1> QED  BY <1>3, <1>4, <1>5
-----------------------------------------------------------------------------
(* What a reset of all the data makers restores.                            *)

\* A step of a chain keeps the setup of what it disables, or leaves waiting.
LEMMA RestorableNext ==
  ASSUME ChainTypeOK, Restorable, pos # 0, chain' = chain,
         ActiveNow \subseteq active', needSeed \ {Dm} \subseteq needSeed',
         \/ init \subseteq init' /\ Dm \in init'
         \/ /\ init \ {Dm} \subseteq init' /\ pos' = 0
            /\ Dm \in active' /\ (Dm \in Statefuls => Dm \in needSeed'),
         pos' = 0 \/ (pos' = pos + 1 /\ pos < Len(chain)), out' = "data" => pos' = 0,
         pos' # 0 /\ hurt' /\ prev' # <<>> => Dm \in Statefuls \/ (hurt /\ prev # <<>>)
  PROVE  Restorable'
<1>1. /\ pos \in 1..Len(chain) /\ chain # <<>> /\ Len(chain) \in Nat /\ Dm = chain[pos]
      /\ Dm \in Dmakers /\ Dm \notin Left
  BY DmFacts, ChainFacts DEF IsChain, Dm
<1>2. active \ Left \subseteq active'  BY DEF ActiveNow, DisableLeft, MadeActive
<1>3. Left \subseteq init
  <2>1. \A k \in 1..pos - 1 : k \in 1..Len(chain) /\ k < pos  BY <1>1
  <2> QED  BY <2>1 DEF Restorable, Left
<1>4. (Dmakers \ active') \subseteq init /\ (Statefuls \ needSeed') \subseteq init \cup {Dm}
  BY <1>2, <1>3 DEF Restorable
<1>5. (Dmakers \ active') \subseteq init' /\ (Statefuls \ needSeed') \subseteq init'
  BY <1>1, <1>4
<1>6. \A k \in 1..Len(chain) : k < pos' => chain[k] \in init'
  <2>1. CASE pos' = 0  BY <2>1
  <2>2. CASE pos' # 0
    <3>1. \A k \in 1..Len(chain) : k < pos' => k < pos \/ k = pos  BY <1>1, <2>2
    <3> QED  BY <1>1, <2>2, <3>1 DEF Restorable
  <2> QED  BY <2>1, <2>2
<1>7. ASSUME hurt', pos' # 0, prev' # <<>>
      PROVE  \E k \in 1..Len(chain) : k < pos' /\ chain[k] \in Statefuls
  <2>1. CASE Dm \in Statefuls  BY <1>1, <1>7, <2>1
  <2>2. CASE hurt /\ prev # <<>>
    <3>1. PICK k \in 1..Len(chain) : k < pos /\ chain[k] \in Statefuls
      BY <1>1, <2>2 DEF Restorable
    <3> QED  BY <1>1, <1>7, <3>1
  <2> QED  BY <1>7, <2>1, <2>2
<1> QED  BY <1>1, <1>5, <1>6, <1>7 DEF Restorable

\* The data goes on, or there is none.
LEMMA WhereTo ==
  ASSUME ChainTypeOK, pos # 0, NEW d, Pass(d) \/ Fail
  PROVE  /\ pos' = 0 \/ (pos' = pos + 1 /\ pos < Len(chain))
         /\ out' = "data" => pos' = 0
         /\ Fail => pos' = 0
<1>1. pos \in 1..Len(chain) /\ Len(chain) \in Nat  BY DmFacts, ChainFacts
<1> QED  BY <1>1 DEF Pass, Fail

\* No step of a chain loses what a reset restores.
LEMMA RestorableStep == ASSUME ChainTypeOK, Restorable, ChainStep  PROVE Restorable'
<1>1. pos # 0 /\ chain' = chain
  BY DEF ChainStep, Skip, Generate, Exhausted, Disrupt, Crash, CrashFed, Starve, Decline, Walk,
         Yield, SetupFails, Working
<1>2. /\ Dm \in Dmakers /\ Dm \notin Left /\ Cleaned \subseteq {Dm} /\ active \subseteq MadeActive
      /\ Dm \in MadeActive => Dm \in ActiveNow
      /\ needSeed \subseteq NeedNow /\ NeedNow \subseteq Statefuls /\ init \ {Dm} \subseteq InitNow
      /\ Generators \cap Statefuls = {} /\ ActiveNow \subseteq MadeActive
  BY <1>1, DmFacts, MadeFacts, DmakerChainAssumption DEF MadeActive, NeedNow, InitNow
<1>3. CASE Skip
  <2>1. Pass(data) /\ UNCHANGED <<active, needSeed, init, hurt, prev>> /\ Dm \notin active
    BY <1>2, <1>3 DEF Skip, attrs, history
  <2>2. Dm \in init  BY <1>2, <2>1 DEF Restorable
  <2>3. ActiveNow \subseteq active'
    BY <1>3, <2>1 DEF Skip, ActiveNow, DisableLeft, MadeActive
  <2> QED  BY <1>1, <2>1, <2>2, <2>3, WhereTo, RestorableNext
<1>4. CASE Generate \/ Disrupt \/ Crash \/ Starve \/ Decline \/ Walk
  <2>1. active' = ActiveNow /\ init' = InitNow \cup {Dm} /\ needSeed \ {Dm} \subseteq needSeed'
    BY <1>2, <1>4 DEF Generate, Disrupt, Crash, Starve, Decline, Walk, SetUp
  <2>2. (\E d : Pass(d)) \/ Fail
    BY <1>4 DEF Generate, Disrupt, Crash, Starve, Decline, Walk
  <2>3. PICK d : Pass(d) \/ Fail  BY <2>2
  <2>4. pos' # 0 /\ hurt' /\ prev' # <<>> => Dm \in Statefuls \/ (hurt /\ prev # <<>>)
    <3>1. CASE Generate  BY <3>1 DEF Generate
    <3>2. CASE Disrupt  BY <3>2 DEF Disrupt, history
    <3>3. CASE Crash \/ Starve  BY <3>3 DEF Crash, Starve, Fail
    <3>4. CASE Decline  BY <1>2, <3>4 DEF Decline
    <3>5. CASE Walk  BY <3>5 DEF Walk
    <3> QED  BY <1>4, <3>1, <3>2, <3>3, <3>4, <3>5
  <2>5. init \subseteq init' /\ Dm \in init'  BY <1>2, <2>1
  <2> QED  BY <1>1, <2>1, <2>3, <2>4, <2>5, WhereTo, RestorableNext
<1>5. CASE Exhausted \/ Yield \/ \E crash \in BOOLEAN : SetupFails(crash)
  <2>1. Fail  BY <1>5 DEF Exhausted, Yield, SetupFails
  <2>2. /\ ActiveNow \subseteq active' /\ needSeed \ {Dm} \subseteq needSeed'
        /\ init \ {Dm} \subseteq init' /\ Dm \in active' /\ (Dm \in Statefuls => Dm \in needSeed')
    <3>1. CASE Exhausted  BY <1>2, <3>1 DEF Exhausted, Working
    <3>2. CASE Yield
      <4>1. Dm \in ActiveNow  BY <1>2, <3>2 DEF Yield, Working
      <4> QED  BY <1>2, <3>2, <4>1 DEF Yield
    <3>3. CASE \E crash \in BOOLEAN : SetupFails(crash)
      <4>1. PICK crash \in BOOLEAN : SetupFails(crash)  BY <3>3
      <4>2. Dm \in ActiveNow  BY <1>2, <4>1 DEF SetupFails, Working
      <4>3. Dm \in Statefuls => Dm \in NeedNow
        <5>1. Dm \notin init \/ Dm \in Cleaned  BY <4>1 DEF SetupFails, InitNow, Cleaned
        <5>2. Dm \in Statefuls /\ Dm \notin init => Dm \in needSeed  BY DEF Restorable
        <5> QED  BY <1>2, <5>1, <5>2 DEF NeedNow
      <4>4. active' = (IF crash THEN ActiveNow ELSE ActiveNow \cup {Dm})  BY <4>1 DEF SetupFails
      <4>5. needSeed' = (IF crash THEN NeedNow ELSE needSeed \cup ({Dm} \cap Statefuls))
        BY <4>1 DEF SetupFails
      <4>6. init \ {Dm} \subseteq init'  BY <4>1 DEF SetupFails
      <4> QED  BY <1>2, <4>2, <4>3, <4>4, <4>5, <4>6
    <3> QED  BY <1>5, <3>1, <3>2, <3>3
  <2>3. pos' = 0 /\ out' # "data"  BY <2>1 DEF Fail
  <2> QED  BY <1>1, <2>2, <2>3, RestorableNext
<1>6. CASE \E n \in {0, 1} : CrashFed(n)
  <2>1. /\ active' = ActiveNow /\ init' = InitNow \cup {Dm}
        /\ needSeed \ {Dm} \subseteq needSeed' /\ Fail
    BY <1>2, <1>6 DEF CrashFed, SetUp
  <2>2. init \subseteq init' /\ Dm \in init'  BY <1>2, <2>1
  <2>3. pos' = 0 /\ out' # "data"  BY <2>1 DEF Fail
  <2> QED  BY <1>1, <2>1, <2>2, <2>3, RestorableNext
<1> QED  BY <1>3, <1>4, <1>5, <1>6 DEF ChainStep
-----------------------------------------------------------------------------
(* How a chain that was hurt, or that starts, is healthy.                   *)

\* Every data maker is active, and waits for a data.
LEMMA AllWait ==
  ASSUME NEW c, chain' = c,
         \A k \in 1..Len(c) : c[k] \in active' /\ (c[k] \in Statefuls => c[k] \in needSeed')
  PROVE  Owner(0)' /\ Seeds'
<1>1. \A k \in 1..Len(chain') : ~AtWork(k)' /\ chain'[k] \in active'  BY DEF AtWork
<1> QED  BY <1>1 DEF Owner, Seeds

\* A generator starts everything again, and gives the hand to what follows.
LEMMA GenerateRecovers ==
  ASSUME ChainTypeOK, Restorable, hurt, ~hurt', Generate
  PROVE  Healthy(0)'
<1>1. /\ pos # 0 /\ Dm \in Generators /\ Made < Stock /\ chain' = chain /\ Settled
      /\ Pass(<<Made + 1>>) /\ made' = [made EXCEPT ![Dm] = Made + 1]
      /\ active' = ActiveNow /\ needSeed' = needSeed
      /\ prev' = prev \/ prev' = <<>>
      /\ Dm \in MadeActive
  BY DEF Generate, Working, SetUp
<1>2. /\ IsChain(chain) /\ pos \in 1..Len(chain) /\ Len(chain) \in Nat /\ pos = 1
      /\ Made \in 0..Stock /\ Dm \in ActiveNow
  BY <1>1, DmFacts, ChainFacts, MadeFacts
<1>3. /\ made \in [Generators -> 0..Stock] /\ Stock \in Nat /\ Dm \notin Statefuls
      /\ Dm = chain[1] /\ IsGen(chain)
  BY <1>1, <1>2, ChainTypes, DmakerChainAssumption, ShiftFacts DEF Dm
<1>4. prev' = <<>>
  <2>1. ~\E k \in 1..Len(chain) : k < pos  BY <1>2
  <2>2. prev = <<>>  BY <1>1, <2>1 DEF Restorable
  <2> QED  BY <1>1, <2>2
<1>5. Owner(0)' /\ Seeds'
  <2>1. active \subseteq active'
    BY <1>1, <1>3 DEF ActiveNow, DisableLeft, MadeActive
  <2>2. \A k \in 1..Len(chain) : k = 1 \/ k \in pos + 1..Len(chain)  BY <1>2
  <2>3. \A k \in pos + 1..Len(chain) :
           chain[k] \in active /\ (chain[k] \in Statefuls => chain[k] \in needSeed)
    BY <1>1 DEF Settled, Idle
  <2>4. \A k \in 1..Len(chain) :
           chain[k] \in active' /\ (chain[k] \in Statefuls => chain[k] \in needSeed')
    BY <1>1, <1>2, <1>3, <2>1, <2>2, <2>3
  <2> QED  BY <1>1, <2>4, AllWait
<1> DEFINE m == Made + 1
           d == <<m>>
<1>6. m \in 1..Stock /\ m \in Nat /\ made'[chain[1]] = m  BY <1>1, <1>2, <1>3
<1> HIDE DEF m
<1>7. d # <<>> /\ Pass(d)  BY <1>1 DEF m
<1>8. Ahead(0, 2)'
  <2>1. ~AtWork(1)'  BY <1>1, <1>3 DEF AtWork
  <2>2. Current(chain, Marks(2)', 2, d)
    BY <1>1, <1>2, <1>3, <1>6, <2>1, GeneratedData
  <2>3. NoneIn(chain, 0, 2)
    <3>1. \A k \in 1..Len(chain) : 0 < k /\ k < 2 => k = 1  OBVIOUS
    <3> QED  BY <1>3, <3>1 DEF NoneIn
  <2>4. data' = d  BY <1>7 DEF Pass
  <2> HIDE DEF d
  <2> QED  BY <1>1, <1>4, <2>2, <2>3, <2>4 DEF Ahead, Moved
<1> HIDE DEF d
<1>9. 0 \in 0..pos /\ 2 = pos + 1  BY <1>2
<1> QED  BY <1>1, <1>5, <1>7, <1>8, <1>9, HealthyAfterPass

\* The first disruptor of the chain has no case left: everything starts again.
LEMMA YieldRecovers ==
  ASSUME ChainTypeOK, Restorable, hurt, ~hurt', Yield
  PROVE  Healthy(0)'
<1>1. /\ pos # 0 /\ Dm \in Statefuls /\ Dm \in MadeActive /\ Fail /\ chain' = chain /\ Settled
      /\ \A k \in 1..pos - 1 : chain[k] \notin Statefuls
      /\ active' = ActiveNow \cup HandedOver /\ needSeed' = NeedNow \cup {Dm}
      /\ prev' = prev \/ prev' = <<>>
  BY DEF Yield, Working
<1>2. /\ IsChain(chain) /\ pos \in 1..Len(chain) /\ Len(chain) \in Nat /\ Dm = chain[pos]
      /\ Nearest = 1
  BY <1>1, DmFacts, ChainFacts, NearestFacts DEF Dm
<1>3. prev' = <<>>
  <2>1. \A k \in 1..Len(chain) : k < pos => chain[k] \notin Statefuls
    <3>1. \A k \in 1..Len(chain) : k < pos => k \in 1..pos - 1  BY <1>2
    <3> QED  BY <1>1, <3>1
  <2>2. prev = <<>>  BY <1>1, <2>1 DEF Restorable
  <2> QED  BY <1>1, <2>2
<1>4. Owner(0)' /\ Seeds'
  <2>1. HandedOver = {chain[k] : k \in 1..pos}  BY <1>2 DEF HandedOver
  <2>2. \A k \in pos + 1..Len(chain) :
           /\ chain[k] \in active /\ (chain[k] \in Statefuls => chain[k] \in needSeed)
           /\ k \in 1..Len(chain) /\ ~(k < pos)
    BY <1>1, <1>2 DEF Settled, Idle
  <2>3. \A k \in pos + 1..Len(chain) : chain[k] \in ActiveNow
    BY <1>1, <2>2, LeftFacts DEF ActiveNow, DisableLeft, MadeActive
  <2>4. \A k \in 1..Len(chain) :
           k \in pos + 1..Len(chain) \/ (k \in 1..pos /\ (k = pos \/ k \in 1..pos - 1))
    BY <1>2
  <2>5. \A k \in 1..Len(chain) :
           chain[k] \in active' /\ (chain[k] \in Statefuls => chain[k] \in needSeed')
    BY <1>1, <1>2, <2>1, <2>2, <2>3, <2>4 DEF NeedNow
  <2> QED  BY <1>1, <2>5, AllWait
<1>5. NotYet(0)'  BY <1>3 DEF NotYet
<1> QED  BY <1>1, <1>4, <1>5, HealthyAfterFail

\* A step that ends the harm starts everything again.
LEMMA Recovers ==
  ASSUME ChainTypeOK, Restorable, hurt, ~hurt', ChainStep
  PROVE  \E v \in 0..Len(chain') : Healthy(v)'
<1>1. Generate \/ Yield
  BY DEF ChainStep, Skip, Exhausted, Disrupt, Crash, CrashFed, Starve, Decline, Walk, SetupFails,
         history
<1>2. Healthy(0)'  BY <1>1, GenerateRecovers, YieldRecovers
<1>3. 0 \in 0..Len(chain')
  <2>1. pos # 0 /\ chain' = chain  BY <1>1 DEF Generate, Yield, Working
  <2>2. Len(chain) \in Nat  BY <2>1, DmFacts, ChainFacts
  <2> QED  BY <2>1, <2>2
<1> QED  BY <1>2, <1>3

\* The start of a chain: the owner has not gone on, or there is no data to compare with.
LEMMA HealthyStart ==
  ASSUME NEW c, IsChain(c), chain' = c, pos' = 1, woken' = FALSE, out' = "none",
         data' = (IF c[1] \in Generators THEN <<>> ELSE << 0 >>),
         NEW v \in 0..Len(c), Owner(v)', Seeds',
         Waiting(v)' => NotYet(v)', v = 0 /\ ~IsGen(c) => prev' = <<>>
  PROVE  Healthy(v)'
<1>1. Len(c) \in Nat /\ Len(c) >= 1 /\ (IsGen(c) <=> c[1] \in Generators)
  BY ChainFacts, ShiftFacts
<1>2. Waiting(v)' <=> v # 0 \/ IsGen(c)  BY <1>1 DEF Waiting
<1>3. ASSUME ~Waiting(v)'  PROVE Ahead(v, 1)'
  <2>1. v = 0 /\ ~IsGen(c) /\ prev' = <<>> /\ data' = <<0>> /\ Shift(c) = 1
    BY <1>1, <1>2, <1>3 DEF Shift
  <2>2. Current(c, Marks(1)', 1, <<0>>)
    <3>1. Len(<<0>>) = 1 /\ <<0>>[1] = 0 /\ \A j \in 1..Len(<<0>>) : j = 1  OBVIOUS
    <3>2. Shaped(c, <<0>>)  BY <2>1, <3>1 DEF Shaped
    <3>3. \A m \in Marks(1)' : m = <<>>  BY <2>1 DEF Marks, Mark
    <3>4. \A m \in Marks(1)' : Begins(m, <<0>>)  BY <3>1, <3>3 DEF Begins
    <3> QED  BY <2>1, <3>1, <3>2, <3>4 DEF Current
  <2>3. NoneIn(c, 0, 1)  BY DEF NoneIn
  <2> QED  BY <2>1, <2>2, <2>3 DEF Ahead, Moved
<1>4. \A p : Reached(p)' => p = 1  BY DEF Reached
<1> QED  BY <1>3, <1>4 DEF Healthy
-----------------------------------------------------------------------------
(* The start of a chain.                                                    *)

\* The data that was delivered last is the one its owner has made last.
LEMMA DeliveredLast ==
  ASSUME ChainTypeOK, IsChain(chain), pos = 0, out = "data",
         NEW w \in 0..Len(chain), Healthy(w)
  PROVE  /\ Complete(chain, data) /\ UpTo(data, Mark(w)) /\ Begins(Mark(w), data)
         /\ LastCases(chain, data, w)
         /\ w = 0 /\ ~IsGen(chain) => ToSet(chain) \cap (Generators \cup Statefuls) = {}
<1>1. Len(chain) \in Nat /\ Shift(chain) \in {0, 1}  BY ChainFacts, ShiftFacts
<1>2. Ahead(w, Len(chain) + 1)
  <2>1. Reached(Len(chain) + 1) /\ ~Waiting(w)  BY DEF Reached, Waiting
  <2>2. Len(chain) + 1 \in 1..Len(chain) + 1  BY <1>1
  <2> QED  BY <2>1, <2>2 DEF Healthy
<1>3. Current(chain, Marks(Len(chain) + 1), Len(chain) + 1, data) /\ NoneIn(chain, w, Len(chain) + 1)
  BY <1>2 DEF Ahead
<1>4. Complete(chain, data)  BY <1>1, <1>3 DEF Current, Complete
<1>5. \A k \in 1..Len(chain) : k > w => chain[k] \notin Statefuls  BY <1>1, <1>3 DEF NoneIn
<1>6. LastCases(chain, data, w)  BY <1>5 DEF LastCases
<1>7. Begins(Mark(w), data)
  <2>1. w # 0 => w \in 1..Len(chain) + 1 - 1 /\ AtWork(w)
    <3>1. w # 0 => w \in 1..Len(chain)  BY <1>1
    <3>2. w # 0 => AtWork(w)  BY <3>1 DEF Healthy, Owner
    <3> QED  BY <1>1, <3>1, <3>2
  <2>2. Mark(w) \in Marks(Len(chain) + 1)  BY <2>1 DEF Marks
  <2> QED  BY <1>3, <2>2 DEF Current
<1>8. ASSUME w = 0, ~IsGen(chain)  PROVE ToSet(chain) \cap (Generators \cup Statefuls) = {}
  <2>1. \A k \in 1..Len(chain) : chain[k] \notin Generators  BY <1>8, ShiftFacts
  <2>2. \A k \in 1..Len(chain) : chain[k] \notin Statefuls  BY <1>1, <1>5, <1>8
  <2>3. ToSet(chain) = {chain[k] : k \in 1..Len(chain)}  BY ChainFacts DEF ToSet
  <2> QED  BY <2>1, <2>2, <2>3
<1> QED  BY <1>4, <1>6, <1>7, <1>8 DEF UpTo

\* The same chain again: it goes on where it was.
LEMMA CallSame ==
  ASSUME ChainTypeOK, Restorable, NEW c, IsChain(c), Call(c, FALSE), ~hurt', c = chain,
         NEW w \in 0..Len(chain), Healthy(w)
  PROVE  Healthy(w)'
<1>1. /\ pos = 0 /\ ~hurt /\ chain' = c /\ pos' = 1 /\ woken' = FALSE /\ out' = "none"
      /\ data' = (IF c[1] \in Generators THEN <<>> ELSE <<0>>)
      /\ prev' = LastData
      /\ UNCHANGED <<active, needSeed, init, made, src, case, hit>>
      /\ out \in {"none", "data"}
  BY ChainTypes DEF Call, attrs, walkers
<1>2. Owner(w) /\ Seeds  BY DEF Healthy
<1>3. Owner(w)' /\ Seeds'
  <2>1. w \in Nat  BY ChainFacts
  <2>2. \A k \in 1..Len(chain) : AtWork(k)' => AtWork(k)  BY <1>1 DEF AtWork
  <2> QED  BY <1>1, <1>2, <2>1, <2>2, OwnerSame, SeedsSame
<1>4. Mark(w)' = Mark(w) /\ (GenMade' <=> GenMade)  BY <1>1 DEF Mark, GenMade
<1>5. \/ NotYet(w)' /\ (w = 0 /\ ~IsGen(c) => prev' = <<>>)
      \/ w = 0 /\ ~IsGen(c) /\ prev' = <<>>
  <2>1. CASE prev' = <<>>  BY <2>1 DEF NotYet
  <2>2. CASE prev' # <<>> /\ out = "data"
    <3>1. prev' = data  BY <1>1, <2>2 DEF LastData
    <3>2. /\ Complete(chain, data) /\ UpTo(data, Mark(w)) /\ Begins(Mark(w), data)
          /\ LastCases(chain, data, w)
          /\ w = 0 /\ ~IsGen(chain) => ToSet(chain) \cap (Generators \cup Statefuls) = {}
      BY <1>1, <2>2, DeliveredLast
    <3>3. ~(w = 0 /\ ~IsGen(chain))  BY <1>1, <2>2, <3>2 DEF LastData
    <3> QED  BY <1>1, <1>4, <3>1, <3>2, <3>3 DEF NotYet
  <2>3. CASE prev' # <<>> /\ out = "none"
    <3>1. prev' = prev /\ prev # <<>>  BY <1>1, <2>3 DEF LastData
    <3>2. NotYet(w)  BY <1>1, <2>3 DEF Healthy
    <3>3. ~(w = 0 /\ ~IsGen(chain))  BY <3>1, <3>2 DEF NotYet
    <3> QED  BY <1>1, <1>4, <3>1, <3>2, <3>3 DEF NotYet
  <2> QED  BY <1>1, <2>1, <2>2, <2>3
<1>6. (Waiting(w)' => NotYet(w)') /\ (w = 0 /\ ~IsGen(c) => prev' = <<>>)
  BY <1>5 DEF NotYet
<1> QED  BY <1>1, <1>3, <1>6, HealthyStart

\* Another chain has nothing to go on with, and finds its data makers idle.
LEMMA CallOrder ==
  ASSUME ChainTypeOK, Restorable, NEW c, IsChain(c), Call(c, FALSE), ~hurt',
         NEW w \in 0..Len(chain), Healthy(w)
  PROVE  \E v \in 0..Len(chain') : Healthy(v)'
<1>1. CASE c = chain
  <2>1. chain' = chain  BY <1>1 DEF Call
  <2>2. Healthy(w)'  BY <1>1, CallSame
  <2> QED  BY <2>1, <2>2
<1>2. CASE c # chain
  <2>1. /\ Idle(ToSet(c)) /\ chain' = c /\ pos' = 1 /\ woken' = FALSE /\ out' = "none"
        /\ data' = (IF c[1] \in Generators THEN <<>> ELSE <<0>>) /\ prev' = <<>>
        /\ active' = active /\ needSeed' = needSeed
    BY <1>2 DEF Call, attrs
  <2>2. \A k \in 1..Len(c) : c[k] \in active' /\ (c[k] \in Statefuls => c[k] \in needSeed')
    <3>1. \A k \in 1..Len(c) : c[k] \in ToSet(c)  BY ChainFacts DEF ToSet
    <3> QED  BY <2>1, <3>1 DEF Idle
  <2>3. Owner(0)' /\ Seeds'  BY <2>1, <2>2, AllWait
  <2>4. NotYet(0)'  BY <2>1 DEF NotYet
  <2>5. 0 \in 0..Len(c)  BY ChainFacts
  <2>6. Healthy(0)'  BY <2>1, <2>3, <2>4, <2>5, HealthyStart
  <2> QED  BY <2>1, <2>5, <2>6
<1> QED  BY <1>1, <1>2

\* Starting a chain loses nothing of what a reset restores.
LEMMA CallRestorable ==
  ASSUME ChainTypeOK, Restorable, NEW c, IsChain(c), NEW reset \in BOOLEAN, Call(c, reset)
  PROVE  Restorable'
<1>1. /\ chain' = c /\ pos' = 1 /\ out' = "none" /\ UNCHANGED <<active, needSeed, init>>
      /\ hurt' = (hurt \/ (c # chain /\ ~Idle(ToSet(c))))
      /\ prev' = IF c = chain /\ ~reset THEN LastData ELSE <<>>
  BY DEF Call, attrs
<1>2. hurt' => prev' = <<>>  BY <1>1 DEF LastData
<1>3. \A k \in 1..Len(c) : ~(k < 1)  BY ChainFacts
<1> QED  BY <1>1, <1>2, <1>3 DEF Restorable

\* With Reset_DMakers a chain starts from the beginning.
LEMMA CallRestarted ==
  ASSUME NEW c, IsChain(c), Call(c, TRUE)
  PROVE  Restarted'
<1>1. /\ chain' = c /\ pos' = 1 /\ out' = "none" /\ prev' = <<>>
      /\ data' = IF c[1] \in Generators THEN <<>> ELSE <<0>>
  BY DEF Call
<1>2. Len(<<>>) = 0 /\ Len(<<0>>) = 1  OBVIOUS
<1>3. Len(data') = Shift(c)  BY <1>1, <1>2, ShiftFacts DEF Shift
<1>4. Len(data') = pos' - 1 + Shift(chain')  BY <1>1, <1>3, ShiftFacts
<1> QED  BY <1>1, <1>4 DEF Restarted
-----------------------------------------------------------------------------
(* Chains that always start from the beginning.                             *)

\* A data that goes on from the beginning has a choice of each data maker.
LEMMA PassRestarted ==
  ASSUME ChainTypeOK, pos # 0, chain' = chain, prev' = <<>>, NEW d, Pass(d),
         Len(d) = pos + Shift(chain)
  PROVE  Restarted'
<1>1. pos \in 1..Len(chain) /\ Len(chain) \in Nat  BY DmFacts, ChainFacts
<1>2. Shift(chain) \in {0, 1}  BY DmFacts, ShiftFacts
<1> QED  BY <1>1, <1>2 DEF Pass, Restarted

\* Nothing is skipped, and every stateful disruptor is fed again.
LEMMA RestartedStep ==
  ASSUME ChainTypeOK, Restarted, resetting = TRUE, ChainStep
  PROVE  Restarted'
<1>1. /\ pos # 0 /\ chain' = chain /\ prev' = <<>>
  <2>1. pos # 0 /\ chain' = chain /\ prev = <<>> /\ (prev' = prev \/ prev' = <<>>)
    BY DEF ChainStep, Skip, Generate, Exhausted, Disrupt, Crash, CrashFed, Starve, Decline, Walk,
           Yield, SetupFails, Working, Restarted, history
  <2> QED  BY <2>1
<1>2. CASE Fail  BY <1>1, <1>2 DEF Fail, Restarted
<1>3. CASE hurt'  BY <1>1, <1>3 DEF Restarted
<1>4. /\ pos \in 1..Len(chain) /\ Len(chain) \in Nat /\ Shift(chain) \in {0, 1} /\ data \in Seq(Nat)
      /\ IsChain(chain)
  BY <1>1, DmFacts, ChainFacts, ShiftFacts, ChainTypes
<1>5. CASE Skip  BY <1>5 DEF Skip, MadeActive, WokenUp
<1>6. CASE Generate
  <2>1. Pass(<<Made + 1>>) /\ Dm \in Generators  BY <1>6 DEF Generate
  <2>2. pos = 1 /\ IsGen(chain)  BY <1>4, <2>1, ShiftFacts DEF Dm
  <2>3. Len(<<Made + 1>>) = pos + Shift(chain)  BY <2>2 DEF Shift
  <2> QED  BY <1>1, <2>1, <2>3, PassRestarted
<1>7. CASE (Disrupt \/ Walk) /\ ~Fail /\ ~hurt'
  <2>1. ~hurt  BY <1>7 DEF Disrupt, Walk, history
  <2>2. Len(data) = pos - 1 + Shift(chain)  BY <1>1, <2>1 DEF Restarted
  <2>3. PICK e \in Nat : Pass(Append(data, e))
    <3>1. CASE Disrupt  BY <1>7, <3>1 DEF Disrupt
    <3>2. CASE Walk
      <4>1. Dm \in NeedNow  BY <3>2 DEF Walk, NeedNow, Cleaned
      <4> QED  BY <3>2, <4>1 DEF Walk
    <3> QED  BY <1>7, <3>1, <3>2
  <2>4. Len(Append(data, e)) = pos + Shift(chain)  BY <1>4, <2>2, AppendFacts
  <2> QED  BY <1>1, <2>3, <2>4, PassRestarted
<1> QED
  BY <1>2, <1>3, <1>5, <1>6, <1>7
  DEF ChainStep, Exhausted, Crash, CrashFed, Starve, Decline, Yield, SetupFails
-----------------------------------------------------------------------------
(* The user.                                                                *)

\* Cleaning up all the data makers makes the chain healthy, whatever hurt it.
LEMMA ResetOrder ==
  ASSUME ChainTypeOK, Restorable, Reset
  PROVE  /\ Restorable' /\ Restarted'
         /\ ~hurt' => \E v \in 0..Len(chain') : Healthy(v)'
<1>1. PICK ds \in SUBSET Dmakers : Clean(ds) /\ (~hurt' => ds = init)
  <2>1. ResetAll => Clean(init)  BY DEF ResetAll
  <2>2. \A d \in Dmakers : ResetOne(d) => Clean({d}) /\ hurt'  BY DEF ResetOne
  <2> QED  BY <2>1, <2>2, ChainTypes DEF Reset
<1>2. /\ pos = 0 /\ pos' = 0 /\ chain' = chain
      /\ active' = active \cup ds /\ needSeed' = needSeed \cup (ds \cap Statefuls)
      /\ init' = init \ ds /\ prev' = <<>> /\ out' = "none"
  BY <1>1 DEF Reset, ResetAll, ResetOne, Clean
<1>3. chain = <<>> \/ IsChain(chain)  BY ChainTypes
<1>4. Len(chain) \in Nat
  <2>1. CASE chain = <<>>  BY <2>1
  <2>2. CASE IsChain(chain)  BY <2>2, ChainFacts
  <2> QED  BY <1>3, <2>1, <2>2
<1>5. Restorable'
  <2>1. (Dmakers \ active') \subseteq init' /\ (Statefuls \ needSeed') \subseteq init'
    BY <1>2 DEF Restorable
  <2>2. \A k \in 1..Len(chain) : ~(k < 0)  BY <1>4
  <2> QED  BY <1>2, <2>1, <2>2 DEF Restorable
<1>6. Restarted'  BY <1>2 DEF Restarted
<1>7. ASSUME ~hurt'  PROVE Healthy(0)'
  <2>1. Dmakers \subseteq active' /\ Statefuls \subseteq needSeed'
    BY <1>1, <1>2, <1>7 DEF Restorable
  <2>2. \A k \in 1..Len(chain) :
           chain[k] \in active' /\ (chain[k] \in Statefuls => chain[k] \in needSeed')
    <3>1. CASE chain = <<>>  BY <3>1
    <3>2. CASE IsChain(chain)  BY <2>1, <3>2, ChainFacts
    <3> QED  BY <1>3, <3>1, <3>2
  <2>3. Owner(0)' /\ Seeds'  BY <1>2, <2>2, AllWait
  <2>4. NotYet(0)'  BY <1>2 DEF NotYet
  <2> QED  BY <1>2, <2>3, <2>4 DEF Healthy, Waiting, Reached
<1> QED  BY <1>2, <1>4, <1>5, <1>6, <1>7
-----------------------------------------------------------------------------
(* Data are delivered in order.                                             *)

\* Steps that do not touch the chain.
LEMMA SameChain ==
  ASSUME OrderInv, UNCHANGED <<chainVars, play>>
  PROVE  OrderInv'
<1>1. UNCHANGED <<chain, pos, data, out, woken, active, needSeed, init, made, src, case, hurt, hit,
                  prev, play>>
  BY DEF chainVars, attrs, walkers, history
<1>2. (Restorable' <=> Restorable) /\ (Restarted' <=> Restarted)
  BY <1>1 DEF Restorable, Restarted
<1>3. /\ \A k : (AtWork(k)' <=> AtWork(k)) /\ Mark(k)' = Mark(k)
      /\ GenMade' <=> GenMade
  BY <1>1 DEF AtWork, Mark, GenMade
<1>4. \A p : Marks(p)' = Marks(p)  BY <1>3 DEF Marks
<1>5. \A w : (Owner(w)' <=> Owner(w)) /\ (NotYet(w)' <=> NotYet(w)) /\ (Waiting(w)' <=> Waiting(w))
  BY <1>1, <1>3 DEF Owner, NotYet, Waiting
<1>6. Seeds' <=> Seeds  BY <1>1, <1>3, <1>4 DEF Seeds
<1>7. \A w, p : (Ahead(w, p)' <=> Ahead(w, p)) /\ (Reached(p)' <=> Reached(p))
  BY <1>1, <1>4 DEF Ahead, Moved, Reached
<1>8. \A w : Healthy(w)' <=> Healthy(w)
  BY <1>1, <1>5, <1>6, <1>7 DEF Healthy
<1> QED  BY <1>1, <1>2, <1>8 DEF OrderInv

\* The steps that resolve a DataProcess start a chain, or leave it alone.
LEMMA StartsAChain ==
  ASSUME TypeInv, StepOne \/ Replace \/ ChainReturns
  PROVE  /\ play' = play
         /\ UNCHANGED chainVars \/ \E c : IsChain(c) /\ Call(c, play.reset)
<1>1. /\ play' = play /\ IsPlay(play) /\ \A k \in DOMAIN play.processes : IsChain(play.processes[k])
  BY WalkTypesOf, ScenarioAssumption DEF StepOne, Replace, ChainReturns, IsPlay
<1>2. ASSUME NEW k \in DOMAIN play.processes, NEW b, Run(k, b)
      PROVE  \E c : IsChain(c) /\ Call(c, play.reset)
  BY <1>1, <1>2 DEF Run
<1>3. cur \in play.hosts => idx \in DOMAIN play.processes
  <2>1. cur \in play.hosts => 1 \in DOMAIN play.processes  BY <1>1 DEF IsPlay
  <2> QED  BY <2>1, WalkTypesOf DEF TypeOK
<1>4. CASE StepOne
  <2>1. CASE UNCHANGED chainVars  BY <1>1, <2>1
  <2>2. CASE cur \in play.hosts /\ Run(idx, "step1")  BY <1>1, <1>2, <1>3, <2>2
  <2> QED  BY <1>4, <2>1, <2>2 DEF StepOne, Completed
<1>5. CASE Replace
  <2>1. CASE UNCHANGED chainVars  BY <1>1, <2>1
  <2>2. CASE cur \in play.hosts /\ Run(idx, "replace")  BY <1>1, <1>2, <1>3, <2>2
  <2>3. cur \in play.hosts  BY <1>5, WalkTypesOf DEF Replace, InPlay
  <2> QED  BY <1>5, <2>1, <2>2, <2>3 DEF Replace, Completed
<1>6. CASE ChainReturns
  <2> DEFINE n == Len(play.processes)
  <2>1. CASE UNCHANGED chainVars  BY <1>1, <2>1
  <2>2. CASE Run((idx % n) + 1, back)
    <3>1. idx \in DOMAIN play.processes  BY <1>6, WalkTypesOf DEF ChainReturns, InPlay
    <3>2. n \in Nat /\ DOMAIN play.processes = 1..n  BY <1>1 DEF IsPlay
    <3>3. (idx % n) + 1 \in 1..n  BY <3>1, <3>2, NextChain
    <3> HIDE DEF n
    <3> QED  BY <1>1, <1>2, <2>2, <3>2, <3>3
  <2> QED  BY <1>6, <2>1, <2>2 DEF ChainReturns
<1> QED  BY <1>4, <1>5, <1>6

\* The chain stays healthy, or is hurt, whatever the data makers, the scenario and the user do.
LEMMA OrderStep == TypeInv /\ OrderInv /\ [Next]_vars => OrderInv'
<1> SUFFICES ASSUME TypeInv, OrderInv, [Next]_vars  PROVE OrderInv'
  OBVIOUS
<1>1. /\ ChainTypeOK /\ InPlay /\ Restorable /\ (play.reset => Restarted)
      /\ ~play.reset /\ ~hurt => \E w \in 0..Len(chain) : Healthy(w)
      /\ play.reset \in BOOLEAN
  BY WalkTypesOf, ScenarioAssumption DEF OrderInv, IsPlay
<1>2. CASE UNCHANGED <<chainVars, play>>  BY <1>2, SameChain
<1>3. CASE InChain
  <2>1. ChainStep /\ play' = play  BY <1>3 DEF InChain, scenarioVars
  <2>2. pos # 0
    BY <2>1 DEF ChainStep, Skip, Generate, Exhausted, Disrupt, Crash, CrashFed, Starve, Decline,
                Walk, Yield, SetupFails, Working
  <2>3. resetting = play.reset  BY <1>1, <2>2 DEF InPlay
  <2>4. Restorable'  BY <1>1, <2>1, RestorableStep
  <2>5. play.reset => Restarted'  BY <1>1, <2>1, <2>3, RestartedStep
  <2>6. ASSUME ~play.reset, ~hurt'  PROVE \E v \in 0..Len(chain') : Healthy(v)'
    <3>1. CASE hurt  BY <1>1, <2>1, <2>6, <3>1, Recovers
    <3>2. CASE ~hurt
      <4>1. PICK w \in 0..Len(chain) : Healthy(w)  BY <1>1, <2>6, <3>2
      <4>2. resetting = FALSE  BY <1>1, <2>3, <2>6
      <4> QED  BY <1>1, <2>1, <2>6, <4>1, <4>2, HealthyStep
    <3> QED  BY <3>1, <3>2
  <2> QED  BY <2>1, <2>4, <2>5, <2>6 DEF OrderInv
<1>4. CASE (StepOne \/ Replace \/ ChainReturns) /\ ~UNCHANGED <<chainVars, play>>
  <2>1. play' = play /\ \E c : IsChain(c) /\ Call(c, play.reset)  BY <1>4, StartsAChain
  <2>2. PICK c : IsChain(c) /\ Call(c, play.reset)  BY <2>1
  <2>3. Restorable'  BY <1>1, <2>2, CallRestorable
  <2>4. play.reset => Restarted'  BY <1>1, <2>2, CallRestarted
  <2>5. ASSUME ~play.reset, ~hurt'  PROVE \E v \in 0..Len(chain') : Healthy(v)'
    <3>1. ~hurt /\ Call(c, FALSE)  BY <1>1, <2>2, <2>5 DEF Call
    <3>2. PICK w \in 0..Len(chain) : Healthy(w)  BY <1>1, <2>5, <3>1
    <3> QED  BY <1>1, <2>2, <2>5, <3>1, <3>2, CallOrder
  <2> QED  BY <2>1, <2>3, <2>4, <2>5 DEF OrderInv
<1>5. CASE UserResets
  <2>1. Reset /\ play' = play  BY <1>5 DEF UserResets, scenarioVars
  <2> QED  BY <1>1, <2>1, ResetOrder DEF OrderInv
<1> QED
  BY <1>2, <1>3, <1>4, <1>5
  DEF Next, vars, scenarioVars, NewData, EndScenario, StepTwo, StepTwoBlocks, Unusable, NotSent, Send,
      SendFails, Feedback, Final

\* No chain has run yet.
LEMMA InitOrder == Init => OrderInv
<1> SUFFICES ASSUME Init  PROVE OrderInv
  OBVIOUS
<1>1. /\ chain = <<>> /\ pos = 0 /\ data = <<>> /\ prev = <<>> /\ out = "none"
      /\ active = Dmakers /\ needSeed = Statefuls
  BY DEF Init, ChainInit
<1>2. 1..Len(chain) = {} /\ 0..Len(chain) = {0}
  <2>1. Len(<<>>) = 0  OBVIOUS
  <2> QED  BY <1>1, <2>1
<1>3. Restorable /\ Restarted  BY <1>1 DEF Restorable, Restarted
<1>4. Healthy(0)
  BY <1>1, <1>2 DEF Healthy, Owner, Seeds, NotYet, Waiting, Reached
<1> QED  BY <1>2, <1>3, <1>4 DEF OrderInv

\* What a healthy chain delivers is whole, after the data before it, and the next one.
LEMMA OrderedData == TypeInv /\ OrderInv => InOrder
<1> SUFFICES ASSUME TypeInv, OrderInv, Delivered, ~hurt
             PROVE  /\ Len(data) = Whole
                    /\ prev # <<>> /\ Len(prev) = Len(data)
                       => Before(prev, data) /\ (~hit => data = Following(prev))
  BY DEF InOrder
<1>1. /\ pos = 0 /\ out = "data" /\ chain # <<>> /\ ChainTypeOK
      /\ play.reset => Restarted
      /\ ~play.reset => \E w \in 0..Len(chain) : Healthy(w)
  BY WalkTypesOf DEF Delivered, OrderInv, Restorable
<1>2. /\ IsChain(chain) /\ Len(chain) \in Nat /\ Shift(chain) \in {0, 1}
      /\ data \in Seq(Nat) /\ prev \in Seq(Nat)
  BY <1>1, ChainTypes, ChainFacts, ShiftFacts
<1>3. Whole = Len(chain) + Shift(chain)  BY <1>1 DEF Whole, Shift, IsGen
<1>4. CASE play.reset  BY <1>1, <1>3, <1>4 DEF Restarted
<1>5. CASE ~play.reset
  <2>1. PICK w \in 0..Len(chain) : Healthy(w)  BY <1>1, <1>5
  <2>2. Ahead(w, Len(chain) + 1)
    <3>1. Reached(Len(chain) + 1) /\ ~Waiting(w)  BY <1>1 DEF Reached, Waiting
    <3>2. Len(chain) + 1 \in 1..Len(chain) + 1  BY <1>2
    <3> QED  BY <2>1, <3>1, <3>2 DEF Healthy
  <2>3. Len(data) = Whole  BY <1>2, <1>3, <2>2 DEF Ahead, Current
  <2>4. ASSUME prev # <<>>, Len(prev) = Len(data)
        PROVE  Before(prev, data) /\ (~hit => data = Following(prev))
    <3>1. Precedes(prev, data) /\ (~hit => Follows(prev, data))
      BY <2>2, <2>4 DEF Ahead, Moved
    <3>2. Before(prev, data)  BY <2>4, <3>1 DEF Before, Precedes
    <3>3. ASSUME ~hit  PROVE data = Following(prev)
      <4>1. \A j \in 1..Len(data) : data[j] = Following(prev)[j]  BY <3>1, <3>3 DEF Follows
      <4>2. DOMAIN Following(prev) = 1..Len(data)  BY <2>4 DEF Following
      <4>3. Following(prev) = [j \in DOMAIN Following(prev) |-> Following(prev)[j]]  BY DEF Following
      <4>4. data = [j \in 1..Len(data) |-> data[j]]  BY <1>2
      <4> QED  BY <4>1, <4>2, <4>3, <4>4
    <3> QED  BY <3>2, <3>3
  <2> QED  BY <2>3, <2>4
<1> QED  BY <1>1, <1>4, <1>5

\* tutorial.rst: whatever the chains of a DataProcess and the scenarios that run them, for any
\* stocks of the generators and any number of cases of the disruptors, a data that is
\* delivered went through the whole chain and comes after the one before it in the order of
\* the nested loops; it is the next one when nothing failed since; unless a stateful
\* disruptor that had disabled its left was not fed, or was reset alone.
THEOREM DataInOrder == Spec => []InOrder
BY InitTypes, TypeStep, InitOrder, OrderStep, OrderedData, PTL DEF Spec
=============================================================================
