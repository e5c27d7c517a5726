---------------------------- MODULE DmakerChain ----------------------------
(***************************************************************************)
(* plumbing.py, process_data, with the attributes of tactics_helpers.py:   *)
(* a chain of data makers (a generator or a seed, then disruptors). A      *)
(* stateful disruptor makes several cases out of one data: once fed, it    *)
(* disables everything on its left, and when it has no case left it yields *)
(* and gives the hand over to the nearest stateful disruptor on its left.  *)
(* A data is the sequence of the choices that made it: the number of the   *)
(* generated data (0 for a seed), then the number of the case of each      *)
(* disruptor (0 for a stateless one).                                      *)
(***************************************************************************)
EXTENDS Naturals, Sequences, SequencesExt

CONSTANTS
    Dmakers,       \* the data makers
    Generators,    \* the generators among them
    Statefuls,     \* the stateful disruptors, which have the Controller attribute
    Stock,         \* how many data a generator has before it needs a reset
    Cases,         \* how many cases a stateful disruptor makes out of one data
    MaxFaults      \* bound on failures of data makers and on resets by the user

ASSUME DmakerChainAssumption ==
    /\ Generators \cup Statefuls \subseteq Dmakers /\ Generators \cap Statefuls = {}
    /\ Stock \in Nat \ {0} /\ Cases \in Nat \ {0} /\ MaxFaults \in Nat

VARIABLES
    chain,      \* action_list
    pos,        \* index of the data maker process_data is at; 0: it has returned
    data,       \* the data that goes through the chain; <<>>: Data()
    out,        \* what process_data returned
    resetting,  \* reset_dmakers
    woken,      \* activate_all
    active, needSeed,   \* the data makers with these attributes
    init,       \* __initialized_dmakers
    made,       \* of each generator, how many data it has made
    src, case,  \* of each stateful disruptor: its seed, the number of its last case
    faults, hurt, hit, prev  \* history, see below

attrs == <<active, needSeed, init>>
walkers == <<made, src, case>>
history == <<faults, hurt, hit, prev>>
chainVars == <<chain, pos, data, out, resetting, woken, attrs, walkers, history>>

IsChain(c) ==
    /\ c \in Seq(Dmakers) \ {<<>>} /\ IsInjective(c)
    /\ \A k \in 2..Len(c) : c[k] \notin Generators

ChainTypeOK ==
    /\ (chain = <<>> \/ IsChain(chain)) /\ pos \in 0..Len(chain)
    /\ {data, prev} \subseteq Seq(Nat) /\ src \in [Statefuls -> Seq(Nat)]
    /\ out \in {"none", "data"} /\ {resetting, woken, hurt, hit} \subseteq BOOLEAN
    /\ active \cup init \subseteq Dmakers /\ needSeed \subseteq Statefuls
    /\ made \in [Generators -> 0..Stock] /\ case \in [Statefuls -> 0..Cases]
    /\ faults \in 0..MaxFaults

ChainInit ==
    /\ chain = <<>> /\ pos = 0 /\ data = <<>> /\ out = "none"
    /\ resetting = FALSE /\ woken = FALSE
    /\ active = Dmakers /\ needSeed = Statefuls /\ init = {}
    /\ made = [d \in Generators |-> 0]
    /\ src = [d \in Statefuls |-> <<>>] /\ case = [d \in Statefuls |-> 0]
    /\ faults = 0 /\ hurt = FALSE /\ hit = FALSE /\ prev = <<>>

\* The data the history compares the next one with: none when the chain starts from the
\* beginning of what it has to make, which it always does when nothing in it remembers, or
\* is hurt.
LastData ==
    IF hurt \/ ToSet(chain) \cap (Generators \cup Statefuls) = {} THEN <<>>
    ELSE IF out = "data" THEN data ELSE prev

\* Nothing in these data makers was left by another chain: disabled, or at work on a data.
Idle(ds) == ds \subseteq active /\ ds \cap Statefuls \subseteq needSeed

\* A chain that shares data makers with an earlier one may find them in the middle of it.
Call(c, reset) ==
    /\ pos = 0
    /\ hurt' = (hurt \/ (c # chain /\ ~Idle(ToSet(c))))
    /\ chain' = c /\ pos' = 1 /\ resetting' = reset /\ woken' = FALSE /\ out' = "none"
    /\ data' = IF c[1] \in Generators THEN <<>> ELSE <<0>>
    /\ prev' = IF c = chain /\ ~reset THEN LastData ELSE <<>>
    /\ UNCHANGED <<attrs, walkers, faults, hit>>
-----------------------------------------------------------------------------
(* What is common to the data makers of a chain.                            *)

Dm == chain[pos]
Left == {chain[k] : k \in 1..pos - 1}

\* An active generator has new data: everything that follows is active again, and the
\* stateful disruptors are cleaned up.
WokenUp == resetting \/ woken
Cleaned == IF resetting \/ (woken /\ Dm \in Statefuls) THEN {Dm} ELSE {}
MadeActive == active \cup (IF WokenUp THEN {Dm} ELSE {})
NeedNow == needSeed \cup (Cleaned \cap Statefuls)
InitNow == init \ Cleaned

\* Taking over disables what is on the left; the variant forgets it.
KeepLeft(on) == on
DisableLeft(on) == IF Dm \in Statefuls THEN on \ Left ELSE on
ActiveNow == DisableLeft(MadeActive)

Working == pos # 0 /\ Dm \in MadeActive
Fault == faults < MaxFaults /\ faults' = faults + 1 /\ hit' = TRUE

\* A data maker that fails after it took over leaves its left disabled.
TookOver == Dm \in Statefuls /\ pos # 1

\* No data maker that follows is disabled, or works on an older data.
Settled == Idle({chain[k] : k \in pos + 1..Len(chain)})

Fail == pos' = 0 /\ out' = "none" /\ data' = <<>>

\* The data goes to the next data maker, or out of the chain unless it is empty.
Pass(d) ==
    /\ data' = d
    /\ pos' = IF pos = Len(chain) THEN 0 ELSE pos + 1
    /\ out' = IF pos = Len(chain) /\ d # <<>> THEN "data" ELSE "none"

\* Set up unless it is already.
SetUp == init' = InitNow \cup {Dm} /\ active' = ActiveNow

Skip ==
    /\ pos # 0 /\ Dm \notin MadeActive /\ Pass(data)
    /\ UNCHANGED <<chain, resetting, woken, attrs, walkers, history>>

\* _setup() returns False (and the data maker is cleaned up) or crashes.
SetupFails(crash) ==
    /\ Working /\ (Dm \notin InitNow \/ resetting)
    /\ Fault /\ Fail
    /\ active' = IF crash THEN ActiveNow ELSE ActiveNow \cup {Dm}
    /\ needSeed' = IF crash THEN NeedNow ELSE needSeed \cup ({Dm} \cap Statefuls)
    /\ init' = IF crash /\ resetting /\ ~(woken /\ Dm \in Statefuls) THEN init ELSE init \ {Dm}
    /\ hurt' = (hurt \/ TookOver)
    /\ UNCHANGED <<chain, resetting, woken, walkers, prev>>
-----------------------------------------------------------------------------
(* Generators and stateless disruptors.                                     *)

\* A setup of the generator starts its data again.
Made == IF Dm \in InitNow THEN made[Dm] ELSE 0

Generate ==
    /\ Working /\ Dm \in Generators
    /\ Made < Stock /\ Pass(<<Made + 1>>)
    /\ made' = [made EXCEPT ![Dm] = Made + 1]
    /\ SetUp /\ woken' = TRUE /\ hurt' = (hurt /\ ~Settled)
    /\ prev' = IF Made = 0 THEN <<>> ELSE prev
    /\ hit' = (hit /\ Made # 0)
    /\ UNCHANGED <<chain, resetting, needSeed, src, case, faults>>

\* It returns an unusable data and calls need_reset.
Exhausted ==
    /\ Working /\ Dm \in Generators
    /\ Made = Stock /\ Fail
    /\ init' = init \ {Dm} /\ active' = MadeActive /\ woken' = TRUE
    /\ UNCHANGED <<chain, resetting, needSeed, walkers, history>>

Disrupt ==
    /\ Working /\ Dm \notin Generators \cup Statefuls
    /\ IF data = <<>> THEN Fail ELSE Pass(Append(data, 0))
    /\ SetUp
    /\ UNCHANGED <<chain, resetting, woken, needSeed, walkers, history>>

\* Its generate_data, disrupt_data or set_seed raises an exception; a walker may have
\* gone to its next case.
Crash ==
    /\ Working /\ (data # <<>> \/ Dm \in Generators \cup (Statefuls \ NeedNow))
    /\ Fault /\ Fail
    /\ SetUp /\ needSeed' = NeedNow
    /\ \/ UNCHANGED case
       \/ /\ Dm \in Statefuls \ NeedNow /\ case[Dm] < Cases
          /\ case' = [case EXCEPT ![Dm] = @ + 1]
    /\ made' = IF Dm \in Generators THEN [made EXCEPT ![Dm] = Made] ELSE made
    /\ hurt' = (hurt \/ (TookOver /\ Dm \in NeedNow))
    /\ UNCHANGED <<chain, resetting, woken, src, prev>>
-----------------------------------------------------------------------------
(* Stateful disruptors.                                                     *)

\* Its disrupt_data raises an exception once set_seed has succeeded: it keeps its seed, and
\* may have lost the first case.
CrashFed(n) ==
    /\ Working /\ Dm \in NeedNow /\ data # <<>>
    /\ Fault /\ Fail
    /\ SetUp /\ needSeed' = NeedNow \ {Dm}
    /\ src' = [src EXCEPT ![Dm] = data] /\ case' = [case EXCEPT ![Dm] = n]
    /\ UNCHANGED <<chain, resetting, woken, made, hurt, prev>>

\* Empty data: "the left-side data maker is disabled and need to be reset".
Starve ==
    /\ Working /\ Dm \in NeedNow /\ data = <<>>
    /\ Fail /\ SetUp /\ needSeed' = NeedNow
    /\ UNCHANGED <<chain, resetting, woken, walkers, history>>

\* set_seed returns the data: it is not of a kind the disruptor can process.
Decline ==
    /\ Working /\ Dm \in NeedNow /\ data # <<>>
    /\ Fault /\ Pass(data) /\ SetUp /\ needSeed' = NeedNow
    /\ hurt' = TRUE
    /\ UNCHANGED <<chain, resetting, woken, walkers, prev>>

Walk ==
    LET fed == Dm \in NeedNow
        seed == IF fed THEN data ELSE src[Dm]
        n == IF fed THEN 1 ELSE case[Dm] + 1 IN
    /\ Working /\ Dm \in Statefuls /\ seed # <<>> /\ n <= Cases
    /\ Pass(Append(seed, n)) /\ SetUp
    /\ needSeed' = NeedNow \ {Dm}
    /\ src' = [src EXCEPT ![Dm] = seed] /\ case' = [case EXCEPT ![Dm] = n]
    /\ UNCHANGED <<chain, resetting, woken, made, history>>

\* Position of the nearest stateful disruptor on the left, or of the head of the chain.
Nearest == LET S == {k \in 1..pos - 1 : chain[k] \in Statefuls} IN
           IF S = {} THEN 1 ELSE CHOOSE k \in S : \A j \in S : j <= k

\* What the handover makes active again; the variant forgets everything.
Nothing == {}
HandedOver == {chain[k] : k \in Nearest..pos}

Yield ==
    LET head == ~\E k \in 1..pos - 1 : chain[k] \in Statefuls
        starts == head /\ chain[1] \notin Generators IN
    /\ Working /\ Dm \in Statefuls \ NeedNow /\ case[Dm] = Cases
    /\ Fail
    /\ active' = ActiveNow \cup HandedOver
    /\ needSeed' = NeedNow \cup {Dm} /\ init' = init \ {Dm}
    /\ hurt' = (hurt /\ ~(head /\ Settled))
    /\ prev' = IF starts THEN <<>> ELSE prev
    /\ hit' = (hit /\ ~starts)
    /\ UNCHANGED <<chain, resetting, woken, walkers, faults>>

ChainStep ==
    \/ Skip \/ Generate \/ Exhausted \/ Disrupt \/ Crash \/ Starve \/ Decline \/ Walk \/ Yield
    \/ \E n \in {0, 1} : CrashFed(n)
    \/ \E crash \in BOOLEAN : SetupFails(crash)
-----------------------------------------------------------------------------
(* The user: cleanup_dmaker of one type, cleanup_all_dmakers.               *)

Clean(ds) ==
    /\ active' = active \cup ds /\ needSeed' = needSeed \cup (ds \cap Statefuls)
    /\ init' = init \ ds
    /\ prev' = <<>> /\ out' = "none" /\ data' = <<>>

ResetOne(d) ==
    /\ pos = 0 /\ d \in init /\ faults < MaxFaults
    /\ Clean({d}) /\ hurt' = TRUE /\ faults' = faults + 1
    /\ UNCHANGED <<chain, pos, resetting, woken, walkers, hit>>

\* Only those that were set up are cleaned up.
ResetAll ==
    /\ pos = 0 /\ init # {} /\ faults < MaxFaults
    /\ Clean(init) /\ hurt' = FALSE /\ hit' = FALSE /\ faults' = faults + 1
    /\ UNCHANGED <<chain, pos, resetting, woken, walkers>>

Reset == ResetAll \/ \E d \in Dmakers : ResetOne(d)
-----------------------------------------------------------------------------
(* Properties.                                                              *)

Delivered == pos = 0 /\ out = "data"

\* a is made before b: the leftmost choice that differs decides.
Before(a, b) == \E k \in 1..Len(a) : a[k] < b[k] /\ \A j \in 1..k - 1 : a[j] = b[j]

\* What a chain has to make after d: the rightmost data maker that can goes on.
Following(d) ==
    LET more(k) == k > 1 /\ d[k] \in 1..Cases - 1
        k0 == IF \E k \in 1..Len(d) : more(k)
              THEN CHOOSE k \in 1..Len(d) : more(k) /\ \A j \in k + 1..Len(d) : ~more(j)
              ELSE 1
    IN  [k \in 1..Len(d) |-> IF k < k0 THEN d[k] ELSE IF k = k0 THEN d[k] + 1
                             ELSE IF d[k] = 0 THEN 0 ELSE 1]

\* The length of a data that went through the whole chain.
Whole == Len(chain) + (IF chain[1] \in Generators THEN 0 ELSE 1)

\* The disruptors are nested loops: for each data of the generator every case of the
\* first one, for each of these every case of the next one; a failure may lose a case
\* and never plays one again. tutorial.rst: the execution begins with the rightmost
\* data maker that still has cases, so a data that is delivered went through the whole
\* chain, although most of its data makers are disabled most of the time; except after
\* a stateful disruptor that had disabled its left could not be fed, or was reset alone.
InOrder ==
    Delivered /\ ~hurt
    => /\ Len(data) = Whole
       /\ prev # <<>> /\ Len(prev) = Len(data)
          => Before(prev, data) /\ (~hit => data = Following(prev))
=============================================================================
