------------------------- MODULE ShmemTargetProofs -------------------------
(***************************************************************************)
(* Proofs about ShmemTarget, for any targets, connected in any way, any    *)
(* number of data and any moment at which the threads look at the blocks:  *)
(* the protocol that the flags of a block stand for.                       *)
(*                                                                         *)
(* A flag is lowered by the sender only, when all of them are up, and put  *)
(* up again by the one thread that was given it (Distinct); so that, once  *)
(* a consumer has seen its flag down, the block changes at most from the   *)
(* previous data to the last one until that consumer acknowledges; and it  *)
(* does not change at all if the status the consumer saw was that of the   *)
(* last data, for that one is only set when the data is written.           *)
(***************************************************************************)
EXTENDS ShmemTarget, TLAPS

(* The indices given by get_consumer_idx.                                  *)

Known(t, i) == i \in DOMAIN fbk_sources[t]
Of(t, i) == fbk_sources[t][i].of
Idx(t, i) == fbk_sources[t][i].idx

Indexed == \A t \in Targets : \A i \in DOMAIN fbk_sources[t] : Idx(t, i) < consumers[Of(t, i)]
Distinct ==
    \A t, u \in Targets : \A i \in DOMAIN fbk_sources[t], j \in DOMAIN fbk_sources[u] :
        fbk_sources[t][i] = fbk_sources[u][j] => t = u /\ i = j
Configured ==
    /\ calls <= Len(Links) => \A t \in Targets : up[t] = "new"
    /\ \A t \in Targets : DOMAIN got[t] = DOMAIN fbk_sources[t]
    /\ \A t \in Targets : at[t] \in {"none", "begin"} => input_shmem_list[t] = <<>>
    /\ \A t \in Targets : \A n \in DOMAIN input_shmem_list[t] :
        /\ \E i \in DOMAIN fbk_sources[t] : input_shmem_list[t][n] = fbk_sources[t][i]
        /\ up[input_shmem_list[t][n].of] # "new"

(* stop() and send_data() tell each other what they do.                    *)

Stopping ==
    /\ \A t \in Targets : block[t] = "closed" => up[t] = "stopped"
    /\ \A t \in Targets : stopAsked[t] <=> up[t] \in {"stopping", "exited", "stopped"}
    /\ \A t \in Targets : block[t] = "absent" <=> up[t] = "new"
    /\ \A t \in Targets : up[t] = "new" => at[t] = "none"
    /\ \A t \in Targets : ready[t] => up[t] # "new"
Announced ==
    /\ pc # "free" => to \in Targets /\ up[to] # "new"
    /\ pc \notin {"free", "clear"} => ~finished[to]
    /\ pc \in {"wait", "flags", "len", "body", "publish"} => block[to] = "mapped"
    /\ pc = "free" <=> sender = None

(* What is in a block.                                                     *)

Writing(p) == to = p /\ pc \in {"len", "body", "publish"}
Busy(p) == to = p /\ pc \in {"flags", "len", "body", "publish"}
Published(p) == Len(sent[p]) >= 1 /\ (Len(sent[p]) = 1 => ~Writing(p))
Last(p) == sent[p][Len(sent[p])]
Recent(p) == ReadAs(sent[p], Len(sent[p]))
AllRead(p) == \A x \in Indices(p) : Flag(p, x) = 1

Status(p) ==
    /\ status[p] = 1 => Published(p) /\ ~Busy(p)
    /\ up[p] = "new" => Len(sent[p]) = 0
    /\ Writing(p) => Len(sent[p]) >= 1 /\ made = Last(p)
Lowered(p) ==
    /\ up[p] # "new" /\ Len(sent[p]) = 0 => AllRead(p)
    /\ to = p /\ pc = "flags" => AllRead(p)
Content(p) ==
    /\ Len(sent[p]) >= 1 /\ ~Writing(p) => dlen[p] = Last(p) /\ data[p] = Last(p)
    /\ Writing(p) /\ pc \in {"body", "publish"} => dlen[p] = Last(p)
    /\ Writing(p) /\ pc = "publish" => data[p] = Last(p)
    /\ Published(p) => {dlen[p], data[p]} \subseteq Recent(p)
Blocks == \A p \in Targets : Status(p) /\ (Fits(p) => Lowered(p) /\ Content(p))

(* The consumers.                                                          *)

AtBlock(t) ==
    /\ at[t] \in {"flag", "len", "body", "collect", "ack"}
    /\ tg_idx[t] <= Len(input_shmem_list[t])
SeenBy(t) ==
    /\ Published(Here(t).of)
    /\ at[t] # "flag" => Flag(Here(t).of, Here(t).idx) = 0
    /\ at[t] \in {"body", "collect"} => read[t].len \in Recent(Here(t).of)
    /\ at[t] = "collect" => read[t].body \in Recent(Here(t).of)
Seen == \A t \in Targets : AtBlock(t) /\ Fits(Here(t).of) => SeenBy(t)

\* The status it saw was that of the last data, which stays as it is, or of the one
\* before, when the last one is not read yet.
NoticedBy(t, p) ==
    /\ noticed[t] = Len(sent[p]) \/ noticed[t] + 1 = Len(sent[p])
    /\ noticed[t] # Len(sent[p]) => Flag(p, Here(t).idx) = 0
    /\ noticed[t] = Len(sent[p]) =>
        /\ ~Writing(p)
        /\ at[t] \in {"body", "collect"} => read[t].len = Last(p)
        /\ at[t] = "collect" => read[t].body = Last(p)
Noticed == \A t \in Targets : AtBlock(t) /\ Fits(Here(t).of) => NoticedBy(t, Here(t).of)

(* What was collected from source i of t.                                  *)

Missing(t, i) == IF Unread(t, i) /\ ~Acknowledging(t, i) THEN 1 ELSE 0
CountIs(t, i) == Len(got[t][i]) = Len(sent[Of(t, i)]) - Missing(t, i)
MadeOf(t, i) ==
    \A n \in DOMAIN got[t][i] : ReadAsNoticed(got[t][i][n], sent[Of(t, i)], n)
Agreed ==
    \A t \in Targets : \A i \in DOMAIN fbk_sources[t] :
        MappedOnce(t) /\ Fits(Of(t, i)) => CountIs(t, i) /\ MadeOf(t, i)

IInv ==
    /\ TypeOK /\ Indexed /\ Distinct /\ Configured /\ Stopping /\ Announced
    /\ Blocks /\ Seen /\ Noticed /\ Agreed
-----------------------------------------------------------------------------
(* Types.                                                                  *)

\* What a step leaves alone keeps its type.
LEMMA Frames ==
  ASSUME TypeOK
  PROVE  /\ UNCHANGED config => ConfigTypes'
         /\ UNCHANGED <<block, content>> => BlockTypes'
         /\ UNCHANGED <<up, events, ready>> => FrameworkTypes'
         /\ UNCHANGED collector => CollectorTypes'
         /\ UNCHANGED forwarder => ForwarderTypes'
         /\ UNCHANGED <<sending, made>> => SendingTypes'
         /\ UNCHANGED history => HistoryTypes'
<1> USE DEF TypeOK
<1>1. UNCHANGED config => ConfigTypes'  BY DEF config, ConfigTypes
<1>2. UNCHANGED <<block, content>> => BlockTypes'  BY DEF content, BlockTypes
<1>3. UNCHANGED <<up, events, ready>> => FrameworkTypes'  BY DEF events, FrameworkTypes
<1>4. UNCHANGED collector => CollectorTypes'  BY DEF collector, CollectorTypes
<1>5. UNCHANGED forwarder => ForwarderTypes'  BY DEF forwarder, ForwarderTypes
<1>6. UNCHANGED <<sending, made>> => SendingTypes'  BY DEF sending, SendingTypes
<1>7. UNCHANGED history => HistoryTypes'  BY DEF history, HistoryTypes
<1> QED BY <1>1, <1>2, <1>3, <1>4, <1>5, <1>6, <1>7

LEMMA HereIsSource ==
  ASSUME TypeOK, NEW t \in Targets, tg_idx[t] <= Len(input_shmem_list[t])
  PROVE  Here(t) \in Source /\ tg_idx[t] \in DOMAIN input_shmem_list[t]
<1>1. input_shmem_list[t] \in Seq(Source) /\ tg_idx[t] \in Nat \ {0}  BY DEF TypeOK, CollectorTypes
<1>2. tg_idx[t] \in 1..Len(input_shmem_list[t])  BY <1>1
<1> QED BY <1>1, <1>2 DEF Here

LEMMA SetFlagsTypes ==
  ASSUME TypeOK, NEW p \in Targets, NEW I, NEW v \in {0, 1}, SetFlags(p, I, v)
  PROVE  /\ flags' \in [Targets -> [0..MaxConsumer - 1 -> {0, 1}]]
         /\ data' \in [Targets -> Nat]
<1>1. /\ flags \in [Targets -> [0..MaxConsumer - 1 -> {0, 1}]] /\ data \in [Targets -> Nat]
  BY DEF TypeOK, BlockTypes
<1>2. [x \in 0..MaxConsumer - 1 |-> IF x \in I THEN v ELSE flags[p][x]] \in [0..MaxConsumer - 1 -> {0, 1}]
  BY <1>1
<1>3. flags' = [flags EXCEPT ![p] = [x \in 0..MaxConsumer - 1 |-> IF x \in I THEN v ELSE flags[p][x]]]
  BY DEF SetFlags
<1>4. data' = [data EXCEPT ![p] = IF MaxConsumer \in I THEN v ELSE data[p]]  BY DEF SetFlags
<1> QED BY <1>1, <1>2, <1>3, <1>4

LEMMA InitTypes == Init => TypeOK
<1> SUFFICES ASSUME Init PROVE TypeOK  OBVIOUS
<1> USE DEF Init
<1>1. ConfigTypes /\ HistoryTypes  BY DEF ConfigTypes, HistoryTypes
<1>2. BlockTypes
  <2>1. [x \in 0..MaxConsumer - 1 |-> 0] \in [0..MaxConsumer - 1 -> {0, 1}]  OBVIOUS
  <2> QED BY <2>1 DEF BlockTypes
<1>3. FrameworkTypes  BY DEF FrameworkTypes
<1>4. CollectorTypes  BY DEF CollectorTypes, Nothing, Data
<1>5. ForwarderTypes
  <2>1. NoTask \in Task  BY DEF NoTask, Task
  <2> QED BY <2>1 DEF ForwarderTypes
<1>6. SendingTypes  BY DEF SendingTypes
<1> QED BY <1>1, <1>2, <1>3, <1>4, <1>5, <1>6 DEF TypeOK

LEMMA SetupTypes ==
  ASSUME TypeOK
  PROVE  /\ Links \in Seq(Targets \X Targets) /\ setup.control \in [Targets -> Seq(Targets)]
         /\ setup.tooLong \in BOOLEAN /\ setup.data \in Nat
BY ShmemAssumption DEF TypeOK, ConfigTypes, Links

LEMMA AddTypes ==
  ASSUME TypeOK, AddFeedbackSource
  PROVE  TypeOK'
<1>1. calls \in 1..Len(Links)
  <2>1. Links \in Seq(Targets \X Targets) /\ calls \in Nat \ {0} /\ calls <= Len(Links)
    BY SetupTypes DEF AddFeedbackSource, TypeOK, ConfigTypes
  <2> QED BY <2>1
<1>2. PICK c, p \in Targets : Links[calls] = <<c, p>>  BY <1>1, SetupTypes
<1>3. [of |-> p, idx |-> consumers[p]] \in Source  BY <1>2 DEF TypeOK, ConfigTypes, Source
<1>4. /\ consumers' = [consumers EXCEPT ![p] = consumers[p] + 1]
      /\ fbk_sources' = [fbk_sources EXCEPT ![c] = Append(fbk_sources[c], [of |-> p, idx |-> consumers[p]])]
      /\ got' = [got EXCEPT ![c] = Append(got[c], <<>>)]
      /\ calls' = calls + 1
  BY <1>2 DEF AddFeedbackSource
<1>5. ConfigTypes'  BY <1>2, <1>3, <1>4 DEF AddFeedbackSource, TypeOK, ConfigTypes
<1>6. HistoryTypes'
  <2>1. Append(got[c], <<>>) \in Seq(Seq(Readings))  BY DEF TypeOK, HistoryTypes
  <2> QED BY <1>4, <2>1 DEF AddFeedbackSource, TypeOK, HistoryTypes
<1> QED BY <1>5, <1>6, Frames DEF AddFeedbackSource, TypeOK

LEMMA FmkTypes ==
  ASSUME TypeOK, NEW t \in Targets,
         Start(t) \/ AskStop(t) \/ SeeExit(t) \/ Close(t) \/ FmkSends(t)
  PROVE  TypeOK'
<1>1. CASE Start(t)
  <2>1. BlockTypes'  BY <1>1, SetFlagsTypes DEF Start, TypeOK, BlockTypes
  <2>2. FrameworkTypes'  BY <1>1 DEF Start, TypeOK, FrameworkTypes, events
  <2>3. CollectorTypes'  BY <1>1 DEF Start, TypeOK, CollectorTypes
  <2> QED BY <1>1, <2>1, <2>2, <2>3, Frames DEF Start, TypeOK
<1>2. CASE AskStop(t) \/ SeeExit(t) \/ Close(t)
  <2>1. FrameworkTypes'
    BY <1>2 DEF AskStop, SeeExit, Close, TypeOK, FrameworkTypes, events
  <2>2. BlockTypes'
    BY <1>2 DEF AskStop, SeeExit, Close, TypeOK, BlockTypes, content
  <2> QED BY <1>2, <2>1, <2>2, Frames DEF AskStop, SeeExit, Close, TypeOK
<1>3. CASE FmkSends(t)
  <2>1. SendingTypes'  BY <1>3, SetupTypes DEF FmkSends, Enter, TypeOK, SendingTypes
  <2> QED BY <1>3, <2>1, Frames DEF FmkSends, TypeOK
<1> QED BY <1>1, <1>2, <1>3

\* A target is being sent something.
LEMMA SendingTo == Announced /\ Sending => to \in Targets
BY DEF Announced, Sending, ClearFinished, SeeStop, RejectData, Accept, SeeReady, IgnoreData, ResetFlags,
       WriteLength, WriteData, Publish

LEMMA SendingStepTypes ==
  ASSUME TypeOK, Announced, Sending
  PROVE  TypeOK'
<1>1. to \in Targets  BY SendingTo
<1>2. CASE ClearFinished \/ SeeStop \/ IgnoreData \/ RejectData \/ Accept
  <2> USE DEF ClearFinished, SeeStop, IgnoreData, RejectData, Accept
  <2>1. FrameworkTypes'  BY <1>1, <1>2 DEF Done, TypeOK, FrameworkTypes, events
  <2>2. SendingTypes'  BY <1>1, <1>2 DEF Done, Leave, Goto, TypeOK, SendingTypes
  <2> QED BY <1>2, <2>1, <2>2, Frames DEF TypeOK
<1>3. CASE SeeReady \/ WriteLength \/ WriteData
  <2> USE DEF SeeReady, WriteLength, WriteData
  <2>1. BlockTypes'  BY <1>1, <1>3 DEF TypeOK, BlockTypes, SendingTypes
  <2>2. SendingTypes'  BY <1>3 DEF Goto, TypeOK, SendingTypes
  <2> QED BY <1>3, <2>1, <2>2, Frames DEF TypeOK
<1>4. CASE ResetFlags
  <2>1. BlockTypes'  BY <1>1, <1>4, SetFlagsTypes DEF ResetFlags, TypeOK, BlockTypes
  <2>2. SendingTypes'  BY <1>4 DEF ResetFlags, Goto, TypeOK, SendingTypes
  <2>3. HistoryTypes'  BY <1>1, <1>4 DEF ResetFlags, TypeOK, HistoryTypes, SendingTypes
  <2> QED BY <1>4, <2>1, <2>2, <2>3, Frames DEF ResetFlags, TypeOK
<1>5. CASE Publish
  <2>1. BlockTypes'  BY <1>1, <1>5 DEF Publish, TypeOK, BlockTypes
  <2>2. SendingTypes' /\ FrameworkTypes'
    BY <1>1, <1>5 DEF Publish, Done, Leave, TypeOK, SendingTypes, FrameworkTypes
  <2> QED BY <1>5, <2>1, <2>2, Frames DEF Publish, TypeOK
<1> QED BY <1>2, <1>3, <1>4, <1>5 DEF Sending

LEMMA CollectingTypes ==
  ASSUME TypeOK, NEW t \in Targets, Collecting(t) \/ GiveUp(t)
  PROVE  TypeOK'
<1> USE DEF GotoC, NextSource
<1>1. CASE Begin(t) \/ GiveUp(t) \/ LeaveLoop(t) \/ Mapped(t)
  <2> USE DEF Begin, GiveUp, LeaveLoop, Mapped
  <2>1. CollectorTypes'  BY <1>1 DEF TypeOK, CollectorTypes
  <2>2. FrameworkTypes'  BY <1>1 DEF TypeOK, FrameworkTypes, events
  <2> QED BY <1>1, <2>1, <2>2, Frames DEF TypeOK
<1>2. CASE MapSource(t)
  <2>1. fbk_sources[t][tg_idx[t]] \in Source
    BY <1>2 DEF MapSource, TypeOK, ConfigTypes, CollectorTypes
  <2>2. CASE block[fbk_sources[t][tg_idx[t]].of] = "mapped"
    <3>1. /\ input_shmem_list' = [input_shmem_list EXCEPT ![t] = Append(@, fbk_sources[t][tg_idx[t]])]
          /\ tg_idx' = [tg_idx EXCEPT ![t] = @ + 1] /\ UNCHANGED <<at, read, items>>
      BY <1>2, <2>2 DEF MapSource
    <3>2. CollectorTypes'  BY <2>1, <3>1 DEF TypeOK, CollectorTypes
    <3> QED BY <1>2, <3>2, Frames DEF MapSource, TypeOK
  <2>3. CASE block[fbk_sources[t][tg_idx[t]].of] # "mapped"
    <3>1. tg_idx' = [tg_idx EXCEPT ![t] = 1] /\ UNCHANGED <<input_shmem_list, at, read, items>>
      BY <1>2, <2>3 DEF MapSource
    <3>2. CollectorTypes'  BY <3>1 DEF TypeOK, CollectorTypes
    <3> QED BY <1>2, <3>2, Frames DEF MapSource, TypeOK
  <2> QED BY <2>2, <2>3
<1>3. CASE Wake(t) \/ ReadStatus(t) \/ ReadFlag(t) \/ Fail(t)
  <2>1. PICK l \in {"status", "flag", "len", "dead"} : at' = [at EXCEPT ![t] = l]
    BY <1>3 DEF Wake, ReadStatus, ReadFlag, Fail
  <2>2. PICK i \in {1, tg_idx[t], tg_idx[t] + 1} : tg_idx' = [tg_idx EXCEPT ![t] = i]
    <3>1. \/ tg_idx' = [tg_idx EXCEPT ![t] = 1]
          \/ tg_idx' = [tg_idx EXCEPT ![t] = @ + 1]
          \/ tg_idx' = tg_idx
      BY <1>3 DEF Wake, ReadStatus, ReadFlag, Fail
    <3>2. tg_idx = [tg_idx EXCEPT ![t] = tg_idx[t]]  BY DEF TypeOK, CollectorTypes
    <3> QED BY <3>1, <3>2
  <2>3. items' = [items EXCEPT ![t] = 0] \/ items' = items
    BY <1>3 DEF Wake, ReadStatus, ReadFlag, Fail
  <2>4. UNCHANGED <<input_shmem_list, read>>  BY <1>3 DEF Wake, ReadStatus, ReadFlag, Fail
  <2>5. items' \in [Targets -> Nat]  BY <2>3 DEF TypeOK, CollectorTypes
  <2>6. at' \in [Targets -> {"none", "begin", "map", "loop", "status", "flag", "len", "body",
                            "collect", "ack", "ended", "dead"}]
    BY <2>1 DEF TypeOK, CollectorTypes
  <2>7. tg_idx' \in [Targets -> Nat \ {0}]
    <3>1. i \in Nat \ {0}  BY <2>2 DEF TypeOK, CollectorTypes
    <3> QED BY <2>2, <3>1 DEF TypeOK, CollectorTypes
  <2>8. CollectorTypes'  BY <2>4, <2>5, <2>6, <2>7 DEF TypeOK, CollectorTypes
  <2>9. HistoryTypes'
    <3>1. CASE ReadStatus(t)
      <4>1. Here(t) \in Source  BY <3>1, HereIsSource DEF ReadStatus, InLoop
      <4>2. Len(sent[Here(t).of]) \in Nat  BY <4>1 DEF TypeOK, HistoryTypes, Source
      <4> QED BY <3>1, <4>2 DEF ReadStatus, TypeOK, HistoryTypes
    <3>2. CASE ~ReadStatus(t)  BY <1>3, <3>2, Frames DEF Wake, ReadFlag, Fail
    <3> QED BY <3>1, <3>2
  <2> QED BY <1>3, <2>8, <2>9, Frames DEF Wake, ReadStatus, ReadFlag, Fail, TypeOK
<1>4. CASE ReadLength(t) \/ ReadData(t)
  <2>1. Here(t) \in Source  BY <1>4, HereIsSource DEF ReadLength, ReadData, InLoop
  <2>2. dlen[Here(t).of] \in Nat /\ data[Here(t).of] \in Nat
    BY <2>1 DEF TypeOK, BlockTypes, Source
  <2>3. PICK d \in Data : read' = [read EXCEPT ![t] = d]
    <3>1. read[t].len \in Nat /\ read[t].body \in Nat  BY DEF TypeOK, CollectorTypes, Data
    <3>2. /\ [len |-> dlen[Here(t).of], body |-> read[t].body] \in Data
          /\ [len |-> read[t].len, body |-> data[Here(t).of]] \in Data
      BY <2>2, <3>1 DEF Data
    <3> QED BY <1>4, <3>2 DEF ReadLength, ReadData
  <2>4. CollectorTypes'  BY <1>4, <2>3 DEF ReadLength, ReadData, TypeOK, CollectorTypes
  <2> QED BY <1>4, <2>4, Frames DEF ReadLength, ReadData, TypeOK
<1>5. CASE Collect(t)
  <2>1. tg_idx[t] \in 1..Len(fbk_sources[t]) /\ Reading(t) \in Readings
    BY <1>5 DEF Collect, TypeOK, ConfigTypes, CollectorTypes, HistoryTypes, Reading, Readings, Data
  <2>2. got[t] \in Seq(Seq(Readings))  BY DEF TypeOK, HistoryTypes
  <2>3. [got[t] EXCEPT ![tg_idx[t]] = Append(got[t][tg_idx[t]], Reading(t))] \in Seq(Seq(Readings))
    <3>1. \A q \in Seq(Seq(Readings)), n \in Nat, d \in Readings :
            [q EXCEPT ![n] = Append(q[n], d)] \in Seq(Seq(Readings))
      <4> TAKE q \in Seq(Seq(Readings)), n \in Nat, d \in Readings
      <4>1. CASE n \in DOMAIN q
        <5>1. Append(q[n], d) \in Seq(Readings)  BY <4>1
        <5> QED BY <4>1, <5>1
      <4>2. CASE n \notin DOMAIN q
        <5>1. [q EXCEPT ![n] = Append(q[n], d)] = q  BY <4>2
        <5> QED BY <5>1
      <4> QED BY <4>1, <4>2
    <3> QED BY <2>1, <2>2, <3>1
  <2>4. HistoryTypes'
    <3>1. /\ got' = [got EXCEPT ![t] = [got[t] EXCEPT ![tg_idx[t]] = Append(got[t][tg_idx[t]], Reading(t))]]
          /\ UNCHANGED <<sent, noticed>>
      BY <1>5 DEF Collect
    <3> QED BY <2>3, <3>1 DEF TypeOK, HistoryTypes
  <2>5. CollectorTypes'  BY <1>5 DEF Collect, TypeOK, CollectorTypes
  <2> QED BY <1>5, <2>4, <2>5, Frames DEF Collect, TypeOK
<1>6. CASE Acknowledge(t)
  <2>1. Here(t).of \in Targets  BY <1>6, HereIsSource DEF Acknowledge, InLoop, Source
  <2>2. BlockTypes'  BY <1>6, <2>1, SetFlagsTypes DEF Acknowledge, TypeOK, BlockTypes
  <2>3. CollectorTypes'  BY <1>6 DEF Acknowledge, TypeOK, CollectorTypes
  <2> QED BY <1>6, <2>2, <2>3, Frames DEF Acknowledge, TypeOK
<1>7. CASE EndPass(t)
  <2>1. queue' \in [Targets -> Nat]
    <3>1. queue[t] + items[t] \in Nat  BY DEF TypeOK, ForwarderTypes, CollectorTypes
    <3> QED BY <1>7, <3>1 DEF EndPass, TypeOK, ForwarderTypes
  <2>2. ForwarderTypes' /\ CollectorTypes'
    BY <1>7, <2>1 DEF EndPass, TypeOK, ForwarderTypes, CollectorTypes
  <2> QED BY <1>7, <2>2, Frames DEF EndPass, TypeOK
<1> QED BY <1>1, <1>2, <1>3, <1>4, <1>5, <1>6, <1>7 DEF Collecting

LEMMA ForwardingTypes ==
  ASSUME TypeOK, NEW t \in Targets, TakeQueue(t) \/ Forward(t)
  PROVE  TypeOK'
<1>1. fwd \in [Targets -> Task]  BY DEF TypeOK, ForwarderTypes
<1>2. CASE TakeQueue(t)
  <2>1. [tgs |-> setup.control[t], left |-> queue[t], size |-> queue[t]] \in Task
    BY SetupTypes DEF TypeOK, ForwarderTypes, Task
  <2>2. ForwarderTypes'  BY <1>1, <1>2, <2>1 DEF TakeQueue, TypeOK, ForwarderTypes
  <2> QED BY <1>2, <2>2, Frames DEF TakeQueue, TypeOK
<1>3. CASE Forward(t)
  <2>1. fwd[t] \in Task /\ fwd[t].tgs # <<>>  BY <1>1, <1>3 DEF Forward
  <2>2. Head(fwd[t].tgs) \in Targets /\ Tail(fwd[t].tgs) \in Seq(Targets)  BY <2>1 DEF Task
  <2>3. PICK d \in Task : fwd' = [fwd EXCEPT ![t] = d]
    <3>1. CASE fwd[t].left > 1
      <4>1. [fwd[t] EXCEPT !.left = fwd[t].left - 1] \in Task  BY <2>1, <3>1 DEF Task
      <4>2. fwd' = [fwd EXCEPT ![t] = [fwd[t] EXCEPT !.left = fwd[t].left - 1]]  BY <1>3, <3>1 DEF Forward
      <4> QED BY <4>1, <4>2
    <3>2. CASE ~(fwd[t].left > 1)
      <4>1. [fwd[t] EXCEPT !.tgs = Tail(fwd[t].tgs), !.left = fwd[t].size] \in Task
        BY <2>1, <2>2 DEF Task
      <4>2. fwd' = [fwd EXCEPT ![t] = [fwd[t] EXCEPT !.tgs = Tail(fwd[t].tgs), !.left = fwd[t].size]]
        BY <1>3, <3>2 DEF Forward
      <4> QED BY <4>1, <4>2
    <3> QED BY <3>1, <3>2
  <2>4. ForwarderTypes'  BY <1>1, <1>3, <2>3 DEF Forward, TypeOK, ForwarderTypes
  <2>5. SendingTypes'  BY <1>3, <2>2 DEF Forward, Enter, TypeOK, SendingTypes, sending
  <2> QED BY <1>3, <2>4, <2>5, Frames DEF Forward, TypeOK
<1> QED BY <1>2, <1>3
-----------------------------------------------------------------------------
(* stop() and send_data(): NoUseAfterClose.                                *)

LifeInv == TypeOK /\ Stopping /\ Announced

LEMMA LifeInit == Init => LifeInv
<1> SUFFICES ASSUME Init PROVE LifeInv  OBVIOUS
<1>1. Stopping  BY DEF Init, Stopping
<1>2. Announced  BY DEF Init, Announced
<1> QED BY <1>1, <1>2, InitTypes DEF LifeInv

LEMMA LifeStep ==
  ASSUME LifeInv, [Next]_vars
  PROVE  LifeInv'
<1> USE DEF LifeInv
<1>1. CASE UNCHANGED vars
  <2>1. TypeOK'
    BY <1>1, Frames DEF vars, TypeOK
  <2>2. Stopping' /\ Announced'
    BY <1>1 DEF vars, events, collector, sending, Stopping, Announced
  <2> QED BY <2>1, <2>2
<1>2. CASE AddFeedbackSource
  <2>1. Stopping' /\ Announced'
    BY <1>2 DEF AddFeedbackSource, events, collector, sending, Stopping, Announced
  <2> QED BY <1>2, <2>1, AddTypes
<1>3. CASE Sending
  <2>1. to \in Targets  BY <1>3, SendingTo
  <2>2. Stopping'
    BY <1>3, <2>1 DEF Stopping, Sending, ClearFinished, SeeStop, RejectData, Accept, SeeReady,
                IgnoreData, ResetFlags, WriteLength, WriteData, Publish, events, collector
  <2>3. Announced'
    <3>1. CASE ClearFinished
      BY <1>3, <2>1, <3>1 DEF ClearFinished, Goto, Announced, TypeOK, FrameworkTypes
    <3>2. CASE SeeStop \/ RejectData \/ IgnoreData \/ Publish
      BY <3>2 DEF SeeStop, RejectData, IgnoreData, Publish, Done, Leave, Announced
    <3>3. CASE Accept
      <4>1. block[to] = "mapped"
        BY <2>1, <3>3 DEF Accept, Stopping, Announced, TypeOK, BlockTypes, FrameworkTypes
      <4> QED BY <2>1, <3>3, <4>1 DEF Accept, Goto, Announced, events
    <3>4. CASE SeeReady \/ ResetFlags \/ WriteLength \/ WriteData
      BY <2>1, <3>4 DEF SeeReady, ResetFlags, WriteLength, WriteData, Goto, Announced, events
    <3> QED BY <1>3, <3>1, <3>2, <3>3, <3>4 DEF Sending
  <2> QED BY <1>3, <2>2, <2>3, SendingStepTypes
<1>4. ASSUME NEW t \in Targets, Start(t) \/ AskStop(t) \/ SeeExit(t) \/ Close(t)
      PROVE  LifeInv'
  <2>1. Stopping'
    <3> USE DEF Stopping, events, collector, TypeOK, FrameworkTypes, BlockTypes, CollectorTypes
    <3>1. CASE Start(t)  BY <3>1 DEF Start
    <3>2. CASE AskStop(t)  BY <3>2 DEF AskStop
    <3>3. CASE SeeExit(t)  BY <3>3 DEF SeeExit
    <3>4. CASE Close(t)  BY <3>4 DEF Close
    <3> QED BY <1>4, <3>1, <3>2, <3>3, <3>4
  <2>2. Announced'
    BY <1>4 DEF Start, AskStop, SeeExit, Close, Announced, Stopping, events, sending,
                TypeOK, FrameworkTypes, BlockTypes
  <2> QED BY <1>4, <2>1, <2>2, FmkTypes
<1>5. ASSUME NEW t \in Targets, FmkSends(t)
      PROVE  LifeInv'
  <2>1. Stopping'  BY <1>5 DEF FmkSends, Stopping, events, collector
  <2>2. Announced'
    BY <1>5, ShmemAssumption DEF FmkSends, Enter, Announced, Stopping, events
  <2> QED BY <1>5, <2>1, <2>2, FmkTypes
<1>6. ASSUME NEW t \in Targets, Collecting(t) \/ GiveUp(t)
      PROVE  LifeInv'
  <2>1. Announced'
    BY <1>6 DEF Collecting, Begin, MapSource, Mapped, LeaveLoop, Wake, ReadStatus, ReadFlag, ReadLength,
                ReadData, Collect, Fail, Acknowledge, EndPass, GiveUp, Announced, sending, events
  <2>2. at[t] # "none" /\ at'[t] # "none" /\ (ready' = ready \/ ready' = [ready EXCEPT ![t] = TRUE])
    BY <1>6 DEF Collecting, Begin, MapSource, Mapped, LeaveLoop, Wake, ReadStatus, ReadFlag, ReadLength,
                ReadData, Collect, Fail, Acknowledge, EndPass, GiveUp, GotoC, NextSource, events, InLoop,
                TypeOK, CollectorTypes
  <2>3. \A u \in Targets : u # t => at'[u] = at[u]
    BY <1>6 DEF Collecting, Begin, MapSource, Mapped, LeaveLoop, Wake, ReadStatus, ReadFlag, ReadLength,
                ReadData, Collect, Fail, Acknowledge, EndPass, GiveUp, GotoC, NextSource, InLoop,
                TypeOK, CollectorTypes
  <2>4. UNCHANGED <<block, up, stopAsked>>
    BY <1>6 DEF Collecting, Begin, MapSource, Mapped, LeaveLoop, Wake, ReadStatus, ReadFlag, ReadLength,
                ReadData, Collect, Fail, Acknowledge, EndPass, GiveUp, events
  <2>5. Stopping'  BY <2>2, <2>3, <2>4 DEF Stopping, TypeOK, FrameworkTypes
  <2> QED BY <1>6, <2>1, <2>5, CollectingTypes
<1>7. ASSUME NEW t \in Targets, TakeQueue(t) \/ Forward(t)
      PROVE  LifeInv'
  <2>1. Stopping'  BY <1>7 DEF TakeQueue, Forward, Stopping, events, collector
  <2>2. CASE UNCHANGED sending
    <3>1. Announced'  BY <1>7, <2>2 DEF TakeQueue, Forward, Announced, events, sending
    <3> QED BY <1>7, <2>1, <3>1, ForwardingTypes
  <2>3. CASE Forward(t) /\ ready[Head(fwd[t].tgs)] /\ Enter(t, Head(fwd[t].tgs), FALSE)
    <3>1. Head(fwd[t].tgs) \in Targets  BY <2>3 DEF Forward, TypeOK, ForwarderTypes, Task
    <3>2. Announced'
      BY <2>3, <3>1, ShmemAssumption DEF Forward, Enter, Announced, Stopping, events
    <3> QED BY <1>7, <2>1, <3>2, ForwardingTypes
  <2> QED BY <1>7, <2>2, <2>3 DEF TakeQueue, Forward
<1> QED BY <1>1, <1>2, <1>3, <1>4, <1>5, <1>6, <1>7 DEF Next

LEMMA LifeHolds == Spec => []LifeInv
BY LifeInit, LifeStep, PTL DEF Spec

\* Every variable keeps its type, whatever the threads do.
THEOREM TypeCorrect == Spec => []TypeOK
<1>1. LifeInv => TypeOK  BY DEF LifeInv
<1> QED BY <1>1, LifeHolds, PTL

\* A block that was closed is not written any more (debug.py:124-140,
\* 276-280): send_data() clears _send_data_finished_event before it looks at
\* _stop_event, and stop() sets the second before it waits for the first.
THEOREM NoWriteToClosed == Spec => []NoUseAfterClose
<1>1. LifeInv => NoUseAfterClose  BY DEF LifeInv, Announced, NoUseAfterClose
<1> QED BY <1>1, LifeHolds, PTL
-----------------------------------------------------------------------------
(* The indices: each consumer has a flag of its own.                       *)

ConfigInv == LifeInv /\ Indexed /\ Distinct /\ Configured

LEMMA ConfigInit == Init => ConfigInv
BY LifeInit DEF Init, ConfigInv, Indexed, Distinct, Configured

\* While sources are added, no target is started and no data sent.
LEMMA AddsAtFirst ==
  ASSUME ConfigInv, AddFeedbackSource
  PROVE  /\ \A t \in Targets : up[t] = "new" /\ at[t] = "none" /\ input_shmem_list[t] = <<>>
         /\ pc = "free" /\ calls \in 1..Len(Links)
         /\ \E c, p \in Targets :
             /\ consumers' = [consumers EXCEPT ![p] = consumers[p] + 1]
             /\ fbk_sources' = [fbk_sources EXCEPT ![c] =
                                 Append(fbk_sources[c], [of |-> p, idx |-> consumers[p]])]
             /\ got' = [got EXCEPT ![c] = Append(got[c], <<>>)]
<1>1. /\ Links \in Seq(Targets \X Targets) /\ calls \in Nat \ {0} /\ calls <= Len(Links)
  BY SetupTypes DEF AddFeedbackSource, ConfigInv, LifeInv, TypeOK, ConfigTypes
<1>2. calls \in 1..Len(Links)  BY <1>1
<1>3. PICK c, p \in Targets : Links[calls] = <<c, p>>  BY <1>1, <1>2
<1>4. /\ consumers' = [consumers EXCEPT ![p] = consumers[p] + 1]
      /\ fbk_sources' = [fbk_sources EXCEPT ![c] =
                          Append(fbk_sources[c], [of |-> p, idx |-> consumers[p]])]
      /\ got' = [got EXCEPT ![c] = Append(got[c], <<>>)]
  BY <1>3 DEF AddFeedbackSource
<1>5. \A t \in Targets : up[t] = "new" /\ at[t] = "none" /\ input_shmem_list[t] = <<>>
  BY <1>1 DEF ConfigInv, LifeInv, Configured, Stopping
<1>6. pc = "free"  BY <1>5 DEF ConfigInv, LifeInv, Announced
<1> QED BY <1>2, <1>4, <1>5, <1>6

\* Once a target is started no source is added.
LEMMA ConfigFrame ==
  ASSUME ConfigInv, [Next]_vars, ~AddFeedbackSource
  PROVE  /\ UNCHANGED config
         /\ \A t \in Targets : up'[t] = "new" => up[t] = "new"
         /\ (\A t \in Targets : up[t] = "new") /\ ~(calls > Len(Links)) => UNCHANGED up
<1>1. UNCHANGED config
  BY DEF Next, vars, Sending, ClearFinished, SeeStop, RejectData, Accept, SeeReady, IgnoreData, ResetFlags,
         WriteLength, WriteData, Publish, Start, AskStop, SeeExit, Close, FmkSends, Collecting, Begin,
         MapSource, Mapped, LeaveLoop, Wake, ReadStatus, ReadFlag, ReadLength, ReadData, Collect, Fail,
         Acknowledge, EndPass, GiveUp, TakeQueue, Forward
<1>2. \/ up' = up
      \/ \E t \in Targets : \E l \in {"up", "stopping", "exited", "stopped"} :
            (calls > Len(Links) \/ up[t] # "new") /\ up' = [up EXCEPT ![t] = l]
  BY DEF Next, vars, Sending, ClearFinished, SeeStop, RejectData, Accept, SeeReady, IgnoreData, ResetFlags,
         WriteLength, WriteData, Publish, Start, AskStop, SeeExit, Close, FmkSends, Collecting, Begin,
         MapSource, Mapped, LeaveLoop, Wake, ReadStatus, ReadFlag, ReadLength, ReadData, Collect, Fail,
         Acknowledge, EndPass, GiveUp, TakeQueue, Forward
<1> QED BY <1>1, <1>2 DEF ConfigInv, LifeInv, TypeOK, FrameworkTypes

\* What is mapped, and where a collecting thread is.
LEMMA ListFrame ==
  ASSUME [Next]_vars, ~\E t \in Targets : MapSource(t)
  PROVE  input_shmem_list' = input_shmem_list
BY DEF Next, vars, Sending, ClearFinished, SeeStop, RejectData, Accept, SeeReady, IgnoreData,
    ResetFlags, WriteLength, WriteData, Publish, Start, AskStop, SeeExit, Close, FmkSends, AddFeedbackSource, collector, Collecting,
    Begin, MapSource, Mapped, LeaveLoop, Wake, ReadStatus, ReadFlag, ReadLength, ReadData, Collect,
    Fail, Acknowledge, EndPass, GiveUp, TakeQueue, Forward

LEMMA AtFrame ==
  ASSUME [Next]_vars, \A t \in Targets : ~Start(t)
  PROVE  at' = at \/ \E t \in Targets : \E l \in {"map", "loop", "status", "flag", "len", "body", "collect",
                                            "ack", "ended", "dead"} : at' = [at EXCEPT ![t] = l]
BY DEF Next, vars, Sending, ClearFinished, SeeStop, RejectData, Accept, SeeReady, IgnoreData,
    ResetFlags, WriteLength, WriteData, Publish, Start, AskStop, SeeExit, Close, FmkSends, AddFeedbackSource, collector, GotoC, NextSource, Collecting,
    Begin, MapSource, Mapped, LeaveLoop, Wake, ReadStatus, ReadFlag, ReadLength, ReadData, Collect,
    Fail, Acknowledge, EndPass, GiveUp, TakeQueue, Forward

LEMMA ConfigStep ==
  ASSUME ConfigInv, [Next]_vars
  PROVE  ConfigInv'
<1>1. LifeInv'  BY LifeStep DEF ConfigInv
<1>2. CASE AddFeedbackSource
  <2>1. PICK c, p \in Targets :
          /\ consumers' = [consumers EXCEPT ![p] = consumers[p] + 1]
          /\ fbk_sources' = [fbk_sources EXCEPT ![c] =
                              Append(fbk_sources[c], [of |-> p, idx |-> consumers[p]])]
          /\ got' = [got EXCEPT ![c] = Append(got[c], <<>>)]
    BY <1>2, AddsAtFirst
  <2> DEFINE new == [of |-> p, idx |-> consumers[p]]
  <2>2. new \in Source /\ consumers[p] \in Nat /\ fbk_sources[c] \in Seq(Source)
    BY DEF ConfigInv, LifeInv, TypeOK, ConfigTypes, Source
  <2>3. /\ \A t \in Targets : \A i \in DOMAIN fbk_sources[t] :
            fbk_sources[t][i] \in Source /\ fbk_sources[t][i] # new
        /\ \A t \in Targets : fbk_sources[t] \in Seq(Source)
    <3>1. \A t \in Targets : fbk_sources[t] \in Seq(Source)
      BY DEF ConfigInv, LifeInv, TypeOK, ConfigTypes
    <3>2. ASSUME NEW t \in Targets, NEW i \in DOMAIN fbk_sources[t]
          PROVE  fbk_sources[t][i] \in Source /\ fbk_sources[t][i] # new
      <4>1. fbk_sources[t][i] \in Source  BY <3>1
      <4>2. fbk_sources[t][i].idx < consumers[fbk_sources[t][i].of]
        BY DEF ConfigInv, Indexed, Idx, Of
      <4> QED BY <2>2, <4>1, <4>2
    <3> QED BY <3>1, <3>2
  <2>4. \A t \in Targets : \A i \in DOMAIN fbk_sources'[t] :
          \/ i \in DOMAIN fbk_sources[t] /\ fbk_sources'[t][i] = fbk_sources[t][i]
          \/ t = c /\ i = Len(fbk_sources[c]) + 1 /\ fbk_sources'[t][i] = new
    BY <2>1, <2>2, <2>3 DEF ConfigInv, LifeInv, TypeOK, ConfigTypes
  <2>5. Indexed'
    <3>1. \A s \in Source : s.idx < consumers[s.of] => s.idx < consumers'[s.of]
      BY <2>1 DEF ConfigInv, LifeInv, TypeOK, ConfigTypes, Source
    <3>2. new.idx < consumers'[new.of]  BY <2>1, <2>2 DEF ConfigInv, LifeInv, TypeOK, ConfigTypes
    <3> QED BY <2>3, <2>4, <3>1, <3>2 DEF ConfigInv, Indexed, Idx, Of
  <2>6. Distinct'
    <3> SUFFICES ASSUME NEW t \in Targets, NEW u \in Targets, NEW i \in DOMAIN fbk_sources'[t],
                        NEW j \in DOMAIN fbk_sources'[u], fbk_sources'[t][i] = fbk_sources'[u][j]
                 PROVE  t = u /\ i = j
      BY DEF Distinct
    <3> QED BY <2>3, <2>4 DEF ConfigInv, Distinct
  <2>7. Configured'
    <3>1. DOMAIN got'[c] = DOMAIN fbk_sources'[c]
      <4>1. got[c] \in Seq(Seq(Readings)) /\ DOMAIN got[c] = DOMAIN fbk_sources[c]
        BY DEF ConfigInv, LifeInv, TypeOK, HistoryTypes, Configured
      <4> QED BY <2>1, <2>2, <4>1 DEF ConfigInv, LifeInv, TypeOK, ConfigTypes, HistoryTypes
    <3>2. \A t \in Targets : DOMAIN got'[t] = DOMAIN fbk_sources'[t]
      BY <2>1, <3>1 DEF ConfigInv, LifeInv, TypeOK, ConfigTypes, HistoryTypes, Configured
    <3>3. UNCHANGED <<up, at, input_shmem_list>>  BY <1>2 DEF AddFeedbackSource, collector
    <3> QED BY <1>2, <3>2, <3>3, AddsAtFirst DEF Configured
  <2> QED BY <1>1, <2>5, <2>6, <2>7 DEF ConfigInv
<1>3. CASE ~AddFeedbackSource
  <2>1. UNCHANGED config  BY <1>3, ConfigFrame
  <2>2. Indexed' /\ Distinct'  BY <2>1 DEF ConfigInv, config, Indexed, Distinct, Idx, Of
  <2>3. Configured'
    <3>1. calls' <= Len(Links') => \A t \in Targets : up'[t] = "new"
      <4> SUFFICES ASSUME calls <= Len(Links) PROVE \A t \in Targets : up'[t] = "new"
        BY <2>1 DEF config, Links
      <4>1. \A t \in Targets : up[t] = "new"  BY DEF ConfigInv, Configured
      <4>2. UNCHANGED up
        <5>1. calls \in Nat /\ Len(Links) \in Nat
          BY SetupTypes DEF ConfigInv, LifeInv, TypeOK, ConfigTypes
        <5> QED BY <1>3, <4>1, <5>1, ConfigFrame
      <4> QED BY <4>1, <4>2
    <3>2. \A t \in Targets : DOMAIN got'[t] = DOMAIN fbk_sources'[t]
      <4>1. CASE \E t \in Targets : Collect(t)
        BY <2>1, <4>1 DEF Collect, config, ConfigInv, LifeInv, TypeOK, HistoryTypes, Configured
      <4>2. CASE ~\E t \in Targets : Collect(t)
        <5>1. got' = got
          BY <1>3, <4>2 DEF Next, vars, Sending, ClearFinished, SeeStop, RejectData, Accept, SeeReady, IgnoreData,
                   ResetFlags, WriteLength, WriteData, Publish, history, Start, AskStop, SeeExit, Close, FmkSends, Collecting,
                   Begin, MapSource, Mapped, LeaveLoop, Wake, ReadStatus, ReadFlag, ReadLength, ReadData, Collect,
                   Fail, Acknowledge, EndPass, GiveUp, TakeQueue, Forward
        <5> QED BY <2>1, <5>1 DEF config, ConfigInv, Configured
      <4> QED BY <4>1, <4>2
    <3>3. \A t \in Targets : at'[t] \in {"none", "begin"} => input_shmem_list'[t] = <<>>
      <4>1. CASE \E t \in Targets : MapSource(t)
        BY <4>1 DEF MapSource, ConfigInv, LifeInv, TypeOK, CollectorTypes, Configured
      <4>2. CASE ~\E t \in Targets : MapSource(t)
        <5>1. input_shmem_list' = input_shmem_list  BY <1>3, <4>2, ListFrame
        <5>2. CASE \E t \in Targets : Start(t)
          BY <5>1, <5>2 DEF Start, ConfigInv, LifeInv, Stopping, TypeOK, CollectorTypes, Configured
        <5>3. CASE \A t \in Targets : ~Start(t)
          <6>1. \A t \in Targets : at'[t] \in {"none", "begin"} => at'[t] = at[t]
            BY <1>3, <5>3, AtFrame DEF ConfigInv, LifeInv, TypeOK, CollectorTypes
          <6> QED BY <5>1, <6>1 DEF ConfigInv, Configured
        <5> QED BY <5>2, <5>3
      <4> QED BY <4>1, <4>2
    <3>4. \A t \in Targets : \A n \in DOMAIN input_shmem_list'[t] :
            /\ \E i \in DOMAIN fbk_sources'[t] : input_shmem_list'[t][n] = fbk_sources'[t][i]
            /\ up'[input_shmem_list'[t][n].of] # "new"
      <4>1. \A t \in Targets : \A n \in DOMAIN input_shmem_list[t] :
              /\ input_shmem_list[t][n].of \in Targets
              /\ \E i \in DOMAIN fbk_sources'[t] : input_shmem_list[t][n] = fbk_sources'[t][i]
              /\ up'[input_shmem_list[t][n].of] # "new"
        <5> SUFFICES ASSUME NEW t \in Targets, NEW n \in DOMAIN input_shmem_list[t]
                     PROVE  /\ input_shmem_list[t][n].of \in Targets
                            /\ \E i \in DOMAIN fbk_sources'[t] : input_shmem_list[t][n] = fbk_sources'[t][i]
                            /\ up'[input_shmem_list[t][n].of] # "new"
          OBVIOUS
        <5>1. /\ \E i \in DOMAIN fbk_sources[t] : input_shmem_list[t][n] = fbk_sources[t][i]
              /\ up[input_shmem_list[t][n].of] # "new"
          BY DEF ConfigInv, Configured
        <5>2. input_shmem_list[t][n] \in Source  BY DEF ConfigInv, LifeInv, TypeOK, CollectorTypes
        <5> QED BY <1>3, <2>1, <5>1, <5>2, ConfigFrame DEF config, Source
      <4>2. CASE \E t \in Targets : MapSource(t)
        <5>1. PICK t \in Targets : MapSource(t)  BY <4>2
        <5>2. CASE input_shmem_list' = input_shmem_list  BY <4>1, <5>2
        <5>3. CASE input_shmem_list' # input_shmem_list
          <6> DEFINE s == fbk_sources[t][tg_idx[t]]
          <6>1. /\ block[s.of] = "mapped" /\ UNCHANGED <<fbk_sources, up>>
                /\ input_shmem_list' = [input_shmem_list EXCEPT ![t] = Append(input_shmem_list[t], s)]
            BY <5>1, <5>3, <2>1 DEF MapSource, config
          <6>2. tg_idx[t] \in DOMAIN fbk_sources[t] /\ s \in Source
            BY <5>1 DEF MapSource, ConfigInv, LifeInv, TypeOK, ConfigTypes, CollectorTypes
          <6>3. s.of \in Targets /\ up[s.of] # "new"
            BY <6>1, <6>2 DEF ConfigInv, LifeInv, Stopping, Source
          <6>4. input_shmem_list[t] \in Seq(Source)  BY DEF ConfigInv, LifeInv, TypeOK, CollectorTypes
          <6>5. \A u \in Targets : \A n \in DOMAIN input_shmem_list'[u] :
                  \/ n \in DOMAIN input_shmem_list[u] /\ input_shmem_list'[u][n] = input_shmem_list[u][n]
                  \/ u = t /\ input_shmem_list'[u][n] = s
            BY <6>1, <6>2, <6>4 DEF ConfigInv, LifeInv, TypeOK, CollectorTypes
          <6> QED BY <4>1, <6>1, <6>2, <6>3, <6>5
        <5> QED BY <5>2, <5>3
      <4>3. CASE ~\E t \in Targets : MapSource(t)
        <5>1. input_shmem_list' = input_shmem_list  BY <1>3, <4>3, ListFrame
        <5> QED BY <4>1, <5>1
      <4> QED BY <4>2, <4>3
    <3> QED BY <3>1, <3>2, <3>3, <3>4 DEF Configured
  <2> QED BY <1>1, <2>2, <2>3 DEF ConfigInv
<1> QED BY <1>2, <1>3
-----------------------------------------------------------------------------
(* What is in the blocks.                                                  *)

BlockInv == ConfigInv /\ Blocks

LEMMA BlockInit == Init => BlockInv
BY ConfigInit DEF Init, BlockInv, Blocks, Status, Lowered, Content, Published, Writing, Busy, Last, Recent,
                  ReadAs

LEMMA FlagBit ==
  ASSUME TypeOK, NEW p \in Targets, Fits(p), NEW x \in Indices(p)
  PROVE  x \in 0..MaxConsumer - 1 /\ Flag(p, x) = flags[p][x] /\ Flag(p, x) \in {0, 1}
<1>1. consumers[p] \in Nat /\ consumers[p] <= MaxConsumer /\ MaxConsumer \in Nat
  BY ShmemAssumption DEF TypeOK, ConfigTypes, Fits
<1>2. x \in 0..MaxConsumer - 1  BY <1>1 DEF Indices
<1>3. flags[p][x] \in {0, 1}  BY <1>2 DEF TypeOK, BlockTypes
<1> QED BY <1>1, <1>2, <1>3 DEF Flag

\* Flags that are not in the data are changed as SetFlags says.
LEMMA FlagsSet ==
  ASSUME TypeOK, NEW q \in Targets, NEW I, NEW v \in {0, 1}, SetFlags(q, I, v), UNCHANGED consumers,
         I \subseteq Indices(q), NEW p \in Targets, Fits(p)
  PROVE  /\ data'[p] = data[p]
         /\ \A x \in Indices(p) : Flag(p, x)' = IF p = q /\ x \in I THEN v ELSE Flag(p, x)
<1>1. data' = [data EXCEPT ![q] = IF MaxConsumer \in I THEN v ELSE data[q]]  BY DEF SetFlags
<1>2. flags' = [flags EXCEPT ![q] = [x \in 0..MaxConsumer - 1 |-> IF x \in I THEN v ELSE flags[q][x]]]
  BY DEF SetFlags
<1>3. MaxConsumer \notin Indices(p)
  BY ShmemAssumption DEF TypeOK, ConfigTypes, Fits, Indices
<1>4. data'[p] = data[p]  BY <1>1, <1>3 DEF TypeOK, BlockTypes
<1>5. ASSUME NEW x \in Indices(p)
      PROVE  Flag(p, x)' = IF p = q /\ x \in I THEN v ELSE Flag(p, x)
  <2>1. x \in 0..MaxConsumer - 1 /\ Flag(p, x) = flags[p][x]  BY FlagBit
  <2>2. Flag(p, x)' = flags'[p][x]  BY <2>1, ShmemAssumption DEF Flag
  <2> QED BY <1>2, <2>1, <2>2 DEF TypeOK, BlockTypes
<1> QED BY <1>4, <1>5

\* The flag a thread is at is one of the flags of that block.
LEMMA HereIsIndexed ==
  ASSUME ConfigInv, NEW t \in Targets, tg_idx[t] <= Len(input_shmem_list[t])
  PROVE  /\ Here(t).of \in Targets /\ up[Here(t).of] # "new" /\ Here(t).idx \in Nat
         /\ Here(t).idx \in Indices(Here(t).of)
         /\ \E i \in DOMAIN fbk_sources[t] : Here(t) = fbk_sources[t][i]
<1>1. Here(t) \in Source /\ tg_idx[t] \in DOMAIN input_shmem_list[t]
  BY HereIsSource DEF ConfigInv, LifeInv
<1>2. PICK i \in DOMAIN fbk_sources[t] : Here(t) = fbk_sources[t][i]
  BY <1>1 DEF ConfigInv, Configured, Here
<1>3. up[Here(t).of] # "new"  BY <1>1 DEF ConfigInv, Configured, Here
<1>4. Here(t).idx < consumers[Here(t).of]  BY <1>2 DEF ConfigInv, Indexed, Idx, Of
<1> QED BY <1>1, <1>2, <1>3, <1>4 DEF Indices, Source, ConfigInv, LifeInv, TypeOK, ConfigTypes

\* What may be read as the n-th data.
LEMMA ReadAsFacts ==
  ASSUME NEW s \in Seq(Nat), NEW e \in Nat
  PROVE  /\ Append(s, e) \in Seq(Nat) /\ Len(Append(s, e)) = Len(s) + 1 /\ Append(s, e)[Len(s) + 1] = e
         /\ Len(s) >= 1 => s[Len(s)] \in ReadAs(s, Len(s)) /\ s[Len(s)] \in ReadAs(Append(s, e), Len(s) + 1)
         /\ \A n \in 1..Len(s) : ReadAs(Append(s, e), n) = ReadAs(s, n)
<1>1. \A n \in 1..Len(s) : Append(s, e)[n] = s[n]  OBVIOUS
<1>2. Len(s) >= 1 => s[Len(s)] \in ReadAs(s, Len(s)) /\ s[Len(s)] \in ReadAs(Append(s, e), Len(s) + 1)
  <2> SUFFICES ASSUME Len(s) >= 1
               PROVE  s[Len(s)] \in ReadAs(s, Len(s)) /\ s[Len(s)] \in ReadAs(Append(s, e), Len(s) + 1)
    OBVIOUS
  <2>1. Append(s, e)[Len(s)] = s[Len(s)]  BY <1>1
  <2>2. Len(s) \in {Len(s) - 1, Len(s)} \ {0} /\ Len(s) \in {Len(s) + 1 - 1, Len(s) + 1} \ {0}  OBVIOUS
  <2> QED BY <2>1, <2>2 DEF ReadAs
<1>3. ASSUME NEW n \in 1..Len(s)
      PROVE  ReadAs(Append(s, e), n) = ReadAs(s, n)
  <2>1. \A m \in {n - 1, n} \ {0} : Append(s, e)[m] = s[m]  BY <1>1
  <2> QED BY <2>1 DEF ReadAs
<1> QED BY <1>2, <1>3

\* A step that neither writes a block nor starts a target.
Quiet ==
    /\ UNCHANGED <<config, content, sent, made>>
    /\ \A t \in Targets : up'[t] = "new" <=> up[t] = "new"
    /\ UNCHANGED sending \/ {pc, pc'} \subseteq {"free", "clear", "check", "wait"}

LEMMA BlockCases ==
  ASSUME ConfigInv, [Next]_vars
  PROVE  \/ Quiet \/ AddFeedbackSource \/ \E t \in Targets : Start(t) \/ Acknowledge(t)
         \/ SeeReady \/ ResetFlags \/ WriteLength \/ WriteData \/ Publish
<1> USE DEF Quiet, config, content, sending, history
<1>1. CASE UNCHANGED vars  BY <1>1 DEF vars
<1>2. ASSUME NEW t \in Targets, AskStop(t) \/ SeeExit(t) \/ Close(t)
      PROVE  Quiet
  BY <1>2 DEF AskStop, SeeExit, Close, ConfigInv, LifeInv, TypeOK, FrameworkTypes
<1>3. ASSUME NEW t \in Targets, FmkSends(t) \/ TakeQueue(t) \/ Forward(t)
      PROVE  Quiet
  BY <1>3 DEF FmkSends, TakeQueue, Forward, Enter, ConfigInv, LifeInv, Announced
<1>4. ASSUME NEW t \in Targets, Collecting(t) \/ GiveUp(t), ~Acknowledge(t)
      PROVE  Quiet
  BY <1>4 DEF Collecting, Begin, MapSource, Mapped, LeaveLoop, Wake, ReadStatus, ReadFlag, ReadLength,
              ReadData, Collect, Fail, EndPass, GiveUp
<1>5. CASE ClearFinished \/ SeeStop \/ RejectData \/ Accept \/ IgnoreData
  BY <1>5 DEF ClearFinished, SeeStop, RejectData, Accept, IgnoreData, Done, Leave, Goto
<1> QED BY <1>1, <1>2, <1>3, <1>4, <1>5 DEF Next, Sending

LEMMA BlockQuiet == BlockInv /\ Quiet => Blocks'
<1> SUFFICES ASSUME BlockInv, Quiet, NEW p \in Targets
             PROVE  (Status(p) /\ (Fits(p) => Lowered(p) /\ Content(p)))'
  BY DEF Blocks
<1>1. (Writing(p))' <=> Writing(p)  BY DEF Quiet, sending, Writing
<1>2. pc' = "flags" => pc = "flags" /\ to' = to  BY DEF Quiet, sending
<1>3. (pc' = pc) \/ ~Writing(p)  BY DEF Quiet, sending, Writing
<1>4. /\ (Published(p))' <=> Published(p)
      /\ (Fits(p))' <=> Fits(p)
      /\ (AllRead(p))' <=> AllRead(p)
  BY <1>1 DEF Quiet, config, content, Published, Fits, AllRead, Indices, Flag
<1>5. Status(p) /\ (Fits(p) => Lowered(p) /\ Content(p))  BY DEF BlockInv, Blocks
<1>6. (Status(p))'
  <2>1. (Busy(p))' <=> Busy(p)  BY DEF Quiet, sending, Busy
  <2> QED BY <1>1, <1>4, <1>5, <2>1 DEF Quiet, config, content, Status, Last
<1>7. Fits(p) => (Lowered(p))'  BY <1>2, <1>4, <1>5 DEF Quiet, Lowered
<1>8. Fits(p) => (Content(p))'
  BY <1>1, <1>3, <1>4, <1>5 DEF Quiet, content, Content, Last, Recent
<1> QED BY <1>4, <1>6, <1>7, <1>8

LEMMA BlockAdd == BlockInv /\ AddFeedbackSource => Blocks'
<1> SUFFICES ASSUME BlockInv, AddFeedbackSource, NEW p \in Targets
             PROVE  (Status(p) /\ (Fits(p) => Lowered(p) /\ Content(p)))'
  BY DEF Blocks
<1>1. /\ up[p] = "new" /\ pc = "free"  BY AddsAtFirst DEF BlockInv
<1>2. UNCHANGED <<content, sending, up, made, sent>>  BY DEF AddFeedbackSource
<1>3. Status(p) /\ Len(sent[p]) = 0  BY <1>1 DEF BlockInv, Blocks, Status
<1>4. (Status(p))'  BY <1>2, <1>3 DEF content, sending, Status, Published, Writing, Busy, Last
<1>5. (Lowered(p))'  BY <1>1, <1>2 DEF sending, Lowered
<1>6. (Content(p))'  BY <1>1, <1>2, <1>3 DEF sending, Content, Writing, Published
<1> QED BY <1>4, <1>5, <1>6

LEMMA BlockStart == \A t \in Targets : BlockInv /\ Start(t) => Blocks'
<1> SUFFICES ASSUME NEW t \in Targets, BlockInv, Start(t), NEW p \in Targets
             PROVE  (Status(p) /\ (Fits(p) => Lowered(p) /\ Content(p)))'
  BY DEF Blocks
<1>1. TypeOK  BY DEF BlockInv, ConfigInv, LifeInv
<1>2. Status(p) /\ (Fits(p) => Lowered(p) /\ Content(p))  BY DEF BlockInv, Blocks
<1>3. /\ UNCHANGED <<config, dlen, sending, made, sent>> /\ up[t] = "new"
      /\ up' = [up EXCEPT ![t] = "up"] /\ status' = [status EXCEPT ![t] = 0]
      /\ SetFlags(t, Indices(t), 1)
  BY DEF Start, history
<1>4. status'[p] \in {0, status[p]} /\ (up'[p] = "new" => up[p] = "new") /\ (p # t => up'[p] = up[p])
  BY <1>1, <1>3 DEF TypeOK, BlockTypes, FrameworkTypes
<1>5. (Status(p))'  BY <1>2, <1>3, <1>4 DEF sending, Status, Published, Writing, Busy, Last
<1>6. ASSUME Fits(p)
      PROVE  (Lowered(p) /\ Content(p))'
  <2>1. /\ data'[p] = data[p]
        /\ \A x \in Indices(p) : Flag(p, x)' = IF p = t /\ x \in Indices(t) THEN 1 ELSE Flag(p, x)
    BY <1>1, <1>3, <1>6, FlagsSet DEF config
  <2>2. (Indices(p))' = Indices(p)  BY <1>3 DEF config, Indices
  <2>3. p = t => (AllRead(p))'  BY <2>1, <2>2 DEF AllRead
  <2>4. AllRead(p) => (AllRead(p))'  BY <2>1, <2>2 DEF AllRead
  <2>5. (Lowered(p))'  BY <1>2, <1>3, <1>4, <1>6, <2>3, <2>4 DEF sending, Lowered
  <2>6. (Content(p))'
    BY <1>2, <1>3, <1>6, <2>1 DEF sending, Content, Writing, Published, Last, Recent
  <2> QED BY <2>5, <2>6
<1> QED BY <1>3, <1>5, <1>6 DEF config, Fits

LEMMA BlockAcknowledge == \A t \in Targets : BlockInv /\ Acknowledge(t) => Blocks'
<1> SUFFICES ASSUME NEW t \in Targets, BlockInv, Acknowledge(t), NEW p \in Targets
             PROVE  (Status(p) /\ (Fits(p) => Lowered(p) /\ Content(p)))'
  BY DEF Blocks
<1>1. TypeOK  BY DEF BlockInv, ConfigInv, LifeInv
<1>2. Status(p) /\ (Fits(p) => Lowered(p) /\ Content(p))  BY DEF BlockInv, Blocks
<1> DEFINE q == Here(t).of
           I == {Here(t).idx}
<1>3. UNCHANGED <<config, status, dlen, up, sending, made, sent>> /\ SetFlags(q, I, 1)
  BY DEF Acknowledge, history
<1>4. q \in Targets /\ I \subseteq Indices(q)  BY HereIsIndexed DEF BlockInv, Acknowledge, InLoop
<1>5. (Status(p))'  BY <1>2, <1>3 DEF sending, Status, Published, Writing, Busy, Last
<1>6. ASSUME Fits(p)
      PROVE  (Lowered(p) /\ Content(p))'
  <2>1. /\ data'[p] = data[p]
        /\ \A x \in Indices(p) : Flag(p, x)' = IF p = q /\ x \in I THEN 1 ELSE Flag(p, x)
    BY <1>1, <1>3, <1>4, <1>6, FlagsSet DEF config
  <2>2. (Indices(p))' = Indices(p)  BY <1>3 DEF config, Indices
  <2>3. AllRead(p) => (AllRead(p))'  BY <2>1, <2>2 DEF AllRead
  <2>4. (Lowered(p))'  BY <1>2, <1>3, <1>6, <2>3 DEF sending, Lowered
  <2>5. (Content(p))'
    BY <1>2, <1>3, <1>6, <2>1 DEF sending, Content, Writing, Published, Last, Recent
  <2> QED BY <2>4, <2>5
<1> QED BY <1>3, <1>5, <1>6 DEF config, Fits

LEMMA BlockWrites ==
  ASSUME BlockInv, SeeReady \/ ResetFlags \/ WriteLength \/ WriteData \/ Publish
  PROVE  Blocks'
<1> SUFFICES ASSUME NEW p \in Targets
             PROVE  (Status(p) /\ (Fits(p) => Lowered(p) /\ Content(p)))'
  BY DEF Blocks
<1>1. TypeOK /\ Announced  BY DEF BlockInv, ConfigInv, LifeInv
<1>2. Status(p) /\ (Fits(p) => Lowered(p) /\ Content(p))  BY DEF BlockInv, Blocks
<1>3. to \in Targets /\ up[to] # "new" /\ pc # "free"
  BY <1>1 DEF Announced, SeeReady, ResetFlags, WriteLength, WriteData, Publish
<1>4. sent[p] \in Seq(Nat) /\ made \in Nat  BY <1>1 DEF TypeOK, HistoryTypes, SendingTypes
<1>5. (Fits(p))' <=> Fits(p)
  BY DEF SeeReady, ResetFlags, WriteLength, WriteData, Publish, config, Fits
<1>6. CASE SeeReady
  <2>1. /\ UNCHANGED <<config, flags, dlen, data, up, made, sent, to>> /\ pc = "wait" /\ pc' = "flags"
        /\ status' = [status EXCEPT ![to] = 0] /\ Ready(to)
    BY <1>6 DEF SeeReady, Goto, history
  <2>2. ~Writing(p) /\ ~(Writing(p))'  BY <2>1 DEF Writing
  <2>3. status'[p] = IF p = to THEN 0 ELSE status[p]  BY <1>1, <2>1 DEF TypeOK, BlockTypes
  <2>4. (Status(p))'  BY <1>2, <2>1, <2>2, <2>3 DEF Status, Published, Busy
  <2>5. ASSUME Fits(p)
        PROVE  (Lowered(p) /\ Content(p))'
    <3>1. AllRead(p) => (AllRead(p))'  BY <2>1 DEF config, AllRead, Indices, Flag
    <3>2. to = p => AllRead(p)  BY <1>1, <2>1, <2>5, FlagBit DEF Ready, AllRead
    <3>3. (Lowered(p))'  BY <1>2, <2>1, <2>5, <3>1, <3>2 DEF Lowered
    <3>4. (Content(p))'  BY <1>2, <2>1, <2>2, <2>5 DEF Content, Published, Last, Recent
    <3> QED BY <3>3, <3>4
  <2> QED BY <1>5, <2>4, <2>5
<1>7. CASE ResetFlags
  <2>1. /\ UNCHANGED <<config, status, dlen, up, to>> /\ pc = "flags" /\ pc' = "len"
        /\ SetFlags(to, Indices(to), 0) /\ made' = made + 1
        /\ sent' = [sent EXCEPT ![to] = Append(sent[to], made + 1)]
    BY <1>7 DEF ResetFlags, Goto
  <2>2. ~Writing(p) /\ ((Writing(p))' <=> p = to)  BY <2>1 DEF Writing
  <2>3. CASE p = to
    <3>1. /\ sent'[p] = Append(sent[p], made + 1) /\ Len(sent'[p]) = Len(sent[p]) + 1
          /\ sent'[p][Len(sent'[p])] = made'
          /\ Len(sent[p]) >= 1 => sent[p][Len(sent[p])] \in ReadAs(sent'[p], Len(sent'[p]))
      <4>1. sent'[p] = Append(sent[p], made + 1)  BY <1>1, <2>1, <2>3 DEF TypeOK, HistoryTypes
      <4> QED BY <1>4, <2>1, <4>1, ReadAsFacts
    <3>2. Len(sent[p]) \in Nat  BY <1>4
    <3>3. (Published(p))' <=> Len(sent[p]) >= 1  BY <2>2, <2>3, <3>1, <3>2 DEF Published
    <3>4. status'[p] # 1  BY <1>2, <2>1, <2>3 DEF Status, Busy
    <3>5. (Status(p))'  BY <1>3, <2>1, <2>3, <3>1, <3>2, <3>4 DEF Status, Last
    <3>6. ASSUME Fits(p)
          PROVE  (Lowered(p) /\ Content(p))'
      <4>1. data'[p] = data[p]  BY <1>1, <1>3, <2>1, <3>6, FlagsSet DEF config
      <4>2. (Lowered(p))'  BY <2>1, <3>1, <3>2 DEF Lowered
      <4>3. (Published(p))' => {dlen'[p], data'[p]} \subseteq (Recent(p))'
        BY <1>2, <2>1, <2>2, <3>1, <3>3, <3>6, <4>1 DEF Content, Last, Recent
      <4>4. (Content(p))'  BY <2>1, <2>2, <2>3, <4>3 DEF Content
      <4> QED BY <4>2, <4>4
    <3> QED BY <1>5, <3>5, <3>6
  <2>4. CASE p # to
    <3>1. sent'[p] = sent[p]  BY <1>1, <2>1, <2>4 DEF TypeOK, HistoryTypes
    <3>2. (Published(p))' <=> Published(p)  BY <2>2, <2>4, <3>1 DEF Published
    <3>3. (Status(p))'  BY <1>2, <2>1, <2>2, <2>4, <3>1, <3>2 DEF Status, Busy
    <3>4. ASSUME Fits(p)
          PROVE  (Lowered(p) /\ Content(p))'
      <4>1. /\ data'[p] = data[p] /\ \A x \in Indices(p) : Flag(p, x)' = Flag(p, x)
        BY <1>1, <1>3, <2>1, <2>4, <3>4, FlagsSet DEF config
      <4>2. AllRead(p) => (AllRead(p))'  BY <2>1, <4>1 DEF config, AllRead, Indices
      <4>3. (Lowered(p))'  BY <1>2, <2>1, <2>4, <3>1, <3>4, <4>2 DEF Lowered
      <4>4. (Content(p))'
        BY <1>2, <2>1, <2>2, <2>4, <3>1, <3>2, <3>4, <4>1 DEF Content, Last, Recent
      <4> QED BY <4>3, <4>4
    <3> QED BY <1>5, <3>3, <3>4
  <2> QED BY <2>3, <2>4
<1>8. CASE WriteLength \/ WriteData
  <2>1. /\ UNCHANGED <<config, status, flags, up, made, sent, to>>
        /\ \/ pc = "len" /\ pc' = "body" /\ data' = data /\ dlen' = [dlen EXCEPT ![to] = made]
           \/ pc = "body" /\ pc' = "publish" /\ dlen' = dlen /\ data' = [data EXCEPT ![to] = made]
    BY <1>8 DEF WriteLength, WriteData, Goto, history
  <2>2. ((Writing(p))' <=> Writing(p)) /\ (Writing(p) <=> p = to)  BY <2>1 DEF Writing
  <2>3. (Published(p))' <=> Published(p)  BY <2>1, <2>2 DEF Published
  <2>4. (Status(p))'  BY <1>2, <2>1, <2>2, <2>3 DEF Status, Last, Busy
  <2>5. p = to => made = Last(p) /\ Len(sent[p]) >= 1  BY <1>2, <2>2 DEF Status
  <2>6. p # to => dlen'[p] = dlen[p] /\ data'[p] = data[p]  BY <1>1, <2>1 DEF TypeOK, BlockTypes
  <2>7. ASSUME Fits(p)
        PROVE  (Lowered(p) /\ Content(p))'
    <3>1. p # to => ((AllRead(p))' <=> AllRead(p))  BY <2>1, <2>6 DEF config, AllRead, Indices, Flag
    <3>2. (Lowered(p))'  BY <1>2, <2>1, <2>5, <2>7, <3>1 DEF Lowered
    <3>3. CASE p # to
      BY <1>2, <2>1, <2>2, <2>3, <2>6, <2>7, <3>2, <3>3 DEF Content, Last, Recent
    <3>4. CASE p = to
      <4>1. Last(p) \in Recent(p)  BY <1>4, <2>5, <3>4, ReadAsFacts DEF Last, Recent
      <4>2. CASE pc = "len"
        <5>1. dlen'[p] = Last(p) /\ data'[p] = data[p]
          BY <1>1, <2>1, <2>5, <3>4, <4>2 DEF TypeOK, BlockTypes
        <5> QED BY <1>2, <2>1, <2>2, <2>3, <2>7, <3>2, <3>4, <4>1, <4>2, <5>1 DEF Content, Last, Recent
      <4>3. CASE pc = "body"
        <5>1. data'[p] = Last(p) /\ dlen'[p] = dlen[p]
          BY <1>1, <2>1, <2>5, <3>4, <4>3 DEF TypeOK, BlockTypes
        <5> QED BY <1>2, <2>1, <2>2, <2>3, <2>7, <3>2, <3>4, <4>1, <4>3, <5>1 DEF Content, Last, Recent
      <4> QED BY <2>1, <4>2, <4>3
    <3> QED BY <3>2, <3>3, <3>4
  <2> QED BY <1>5, <2>4, <2>7
<1>9. CASE Publish
  <2>1. /\ UNCHANGED <<config, flags, dlen, data, up, made, sent>>
        /\ status' = [status EXCEPT ![to] = 1] /\ pc = "publish" /\ pc' = "free"
    BY <1>9 DEF Publish, Done, Leave, history
  <2>2. (Writing(p) <=> p = to) /\ ~(Writing(p))'  BY <2>1 DEF Writing
  <2>3. p = to => Len(sent[p]) >= 1  BY <1>2, <2>2 DEF Status
  <2>4. p # to => status'[p] = status[p]  BY <1>1, <2>1 DEF TypeOK, BlockTypes
  <2>5. (Published(p))' <=> Len(sent[p]) >= 1  BY <2>1, <2>2 DEF Published
  <2>6. (Status(p))'  BY <1>2, <2>1, <2>2, <2>3, <2>4, <2>5 DEF Status, Published, Busy
  <2>7. ASSUME Fits(p)
        PROVE  (Lowered(p) /\ Content(p))'
    <3>1. (AllRead(p))' <=> AllRead(p)  BY <2>1 DEF config, AllRead, Indices, Flag
    <3>2. (Lowered(p))'  BY <1>2, <2>1, <2>7, <3>1 DEF Lowered
    <3>3. Len(sent[p]) >= 1 => dlen[p] = Last(p) /\ data[p] = Last(p)
      BY <1>2, <2>1, <2>2, <2>7 DEF Content
    <3>4. Len(sent[p]) >= 1 => Last(p) \in Recent(p)  BY <1>4, ReadAsFacts DEF Last, Recent
    <3> QED BY <2>1, <2>2, <2>5, <3>2, <3>3, <3>4 DEF Content, Last, Recent
  <2> QED BY <1>5, <2>6, <2>7
<1> QED BY <1>6, <1>7, <1>8, <1>9

LEMMA BlockStep ==
  ASSUME BlockInv, [Next]_vars
  PROVE  BlockInv'
<1>1. ConfigInv'  BY ConfigStep DEF BlockInv
<1>2. Blocks'
  BY BlockCases, BlockQuiet, BlockAdd, BlockStart, BlockAcknowledge, BlockWrites DEF BlockInv
<1> QED BY <1>1, <1>2 DEF BlockInv
-----------------------------------------------------------------------------
(* What the consumers saw.                                                 *)

SeenInv == BlockInv /\ Seen

LEMMA SeenInit == Init => SeenInv
BY BlockInit DEF Init, SeenInv, Seen, AtBlock

\* A thread is moved by its own steps only.
LEMMA CollectorFrame ==
  ASSUME TypeOK, [Next]_vars, NEW t \in Targets, ~Start(t), ~Collecting(t), ~GiveUp(t)
  PROVE  /\ at'[t] = at[t] /\ tg_idx'[t] = tg_idx[t] /\ input_shmem_list'[t] = input_shmem_list[t]
         /\ read'[t] = read[t] /\ noticed'[t] = noticed[t]
         /\ got'[t] = got[t] \/ AddFeedbackSource
<1> DEFINE Same == /\ at'[t] = at[t] /\ tg_idx'[t] = tg_idx[t]
                   /\ input_shmem_list'[t] = input_shmem_list[t] /\ read'[t] = read[t]
                   /\ noticed'[t] = noticed[t]
<1> USE DEF collector, history
<1>1. CASE UNCHANGED vars \/ AddFeedbackSource \/ Sending
  BY <1>1 DEF vars, AddFeedbackSource, Sending, ClearFinished, SeeStop, RejectData, Accept, SeeReady,
              IgnoreData, ResetFlags, WriteLength, WriteData, Publish
<1>2. ASSUME NEW u \in Targets, Start(u) \/ AskStop(u) \/ SeeExit(u) \/ Close(u) \/ FmkSends(u)
      PROVE  Same /\ got'[t] = got[t]
  BY <1>2 DEF Start, AskStop, SeeExit, Close, FmkSends, TypeOK, CollectorTypes
<1>3. ASSUME NEW u \in Targets, TakeQueue(u) \/ Forward(u)
      PROVE  Same /\ got'[t] = got[t]
  BY <1>3 DEF TakeQueue, Forward
<1>4. ASSUME NEW u \in Targets, Collecting(u) \/ GiveUp(u)
      PROVE  Same /\ got'[t] = got[t]
  <2>1. u # t  BY <1>4
  <2> USE DEF GotoC, NextSource, TypeOK, CollectorTypes, HistoryTypes
  <2>2. CASE Begin(u) \/ Mapped(u) \/ LeaveLoop(u) \/ GiveUp(u) \/ Wake(u) \/ EndPass(u) \/ Fail(u)
    BY <2>1, <2>2 DEF Begin, Mapped, LeaveLoop, GiveUp, Wake, EndPass, Fail
  <2>3. CASE MapSource(u)  BY <2>1, <2>3 DEF MapSource
  <2>4. CASE ReadStatus(u) \/ ReadFlag(u)  BY <2>1, <2>4 DEF ReadStatus, ReadFlag
  <2>5. CASE ReadLength(u) \/ ReadData(u)  BY <2>1, <2>5 DEF ReadLength, ReadData
  <2>6. CASE Collect(u)  BY <2>1, <2>6 DEF Collect
  <2>7. CASE Acknowledge(u)  BY <2>1, <2>7 DEF Acknowledge
  <2> QED BY <1>4, <2>2, <2>3, <2>4, <2>5, <2>6, <2>7 DEF Collecting
<1> QED BY <1>1, <1>2, <1>3, <1>4 DEF Next

\* Data are added to a block when its flags are lowered, and then written.
LEMMA SentStep ==
  ASSUME BlockInv, [Next]_vars, NEW p \in Targets
  PROVE  /\ Len(sent[p]) \in Nat
         /\ \/ ResetFlags /\ to = p /\ Len(sent'[p]) = Len(sent[p]) + 1
            \/ sent'[p] = sent[p] /\ ((Writing(p))' => Writing(p))
<1>1. TypeOK /\ Announced  BY DEF BlockInv, ConfigInv, LifeInv
<1>2. sent[p] \in Seq(Nat) /\ made \in Nat  BY <1>1 DEF TypeOK, HistoryTypes, SendingTypes
<1>3. CASE ResetFlags
  <2>1. /\ sent' = [sent EXCEPT ![to] = Append(sent[to], made + 1)]
        /\ to \in Targets /\ to' = to
    BY <1>1, <1>3 DEF ResetFlags, Announced, Goto
  <2>2. CASE p = to
    <3>1. sent'[p] = Append(sent[p], made + 1)  BY <1>1, <2>1, <2>2 DEF TypeOK, HistoryTypes
    <3> QED BY <1>2, <1>3, <2>2, <3>1, ReadAsFacts
  <2>3. CASE p # to
    <3>1. sent'[p] = sent[p]  BY <1>1, <2>1, <2>3 DEF TypeOK, HistoryTypes
    <3> QED BY <1>2, <2>1, <2>3, <3>1 DEF Writing
  <2> QED BY <2>2, <2>3
<1>4. CASE ~ResetFlags
  <2>1. sent' = sent
    BY <1>4, BlockCases DEF BlockInv, Quiet, AddFeedbackSource, Start, Acknowledge, SeeReady, WriteLength,
                            WriteData, Publish, history
  <2>2. (Writing(p))' => Writing(p)
    <3>1. CASE Quiet  BY <3>1 DEF Quiet, sending, Writing
    <3>2. CASE AddFeedbackSource \/ \E t \in Targets : Start(t) \/ Acknowledge(t)
      BY <3>2 DEF AddFeedbackSource, Start, Acknowledge, sending, Writing
    <3>3. CASE SeeReady \/ WriteLength \/ WriteData \/ Publish
      BY <3>3 DEF SeeReady, WriteLength, WriteData, Publish, Goto, Done, Leave, Writing
    <3> QED BY <1>4, <3>1, <3>2, <3>3, BlockCases DEF BlockInv
  <2> QED BY <1>2, <2>1, <2>2
<1> QED BY <1>3, <1>4

\* What was written to a block remains.
LEMMA PublishedStays ==
  ASSUME BlockInv, [Next]_vars, NEW p \in Targets, Published(p)
  PROVE  (Published(p))'
<1>1. CASE sent'[p] = sent[p] /\ ((Writing(p))' => Writing(p))  BY <1>1 DEF Published
<1>2. CASE Len(sent'[p]) = Len(sent[p]) + 1  BY <1>2, SentStep DEF Published
<1> QED BY <1>1, <1>2, SentStep

\* A flag that is down stays down until the consumer acknowledges, and until
\* then nothing else is written.
LEMMA LoweredStays ==
  ASSUME BlockInv, [Next]_vars, NEW p \in Targets, up[p] # "new", Fits(p), NEW x \in Indices(p), Flag(p, x) = 0,
         \A u \in Targets : Acknowledge(u) => ~(Here(u).of = p /\ Here(u).idx = x)
  PROVE  (Flag(p, x))' = 0 /\ sent'[p] = sent[p]
<1>1. TypeOK /\ Announced  BY DEF BlockInv, ConfigInv, LifeInv
<1>2. x \in 0..MaxConsumer - 1 /\ Flag(p, x) = flags[p][x]  BY <1>1, FlagBit
<1>3. CASE Quiet  BY <1>2, <1>3 DEF Quiet, content, Flag
<1>4. CASE AddFeedbackSource  BY AddsAtFirst, <1>4 DEF BlockInv
<1>5. ASSUME NEW t \in Targets, Start(t)
      PROVE  (Flag(p, x))' = 0 /\ sent'[p] = sent[p]
  <2>1. p # t /\ SetFlags(t, Indices(t), 1) /\ UNCHANGED consumers /\ sent' = sent
    BY <1>5 DEF Start, config, history
  <2> QED BY <1>1, <2>1, FlagsSet
<1>6. ASSUME NEW t \in Targets, Acknowledge(t)
      PROVE  (Flag(p, x))' = 0 /\ sent'[p] = sent[p]
  <2>1. SetFlags(Here(t).of, {Here(t).idx}, 1) /\ UNCHANGED consumers /\ sent' = sent
    BY <1>6 DEF Acknowledge, config, history
  <2>2. Here(t).of \in Targets /\ {Here(t).idx} \subseteq Indices(Here(t).of)
    BY <1>6, HereIsIndexed DEF BlockInv, Acknowledge, InLoop
  <2>3. ~(Here(t).of = p /\ Here(t).idx = x)  BY <1>6
  <2> QED BY <1>1, <2>1, <2>2, <2>3, FlagsSet
<1>7. CASE ResetFlags
  <2>1. to \in Targets /\ pc = "flags"  BY <1>1, <1>7 DEF ResetFlags, Announced
  <2>2. p # to  BY <2>1 DEF BlockInv, Blocks, Lowered, AllRead
  <2>3. SetFlags(to, Indices(to), 0) /\ UNCHANGED consumers /\ sent' = [sent EXCEPT ![to] = Append(@, made + 1)]
    BY <1>7 DEF ResetFlags, config
  <2>4. sent'[p] = sent[p]  BY <1>1, <2>2, <2>3 DEF TypeOK, HistoryTypes
  <2> QED BY <1>1, <2>1, <2>2, <2>3, <2>4, FlagsSet
<1>8. CASE SeeReady \/ WriteLength \/ WriteData \/ Publish
  <2>1. flags' = flags /\ sent' = sent
    BY <1>8 DEF SeeReady, WriteLength, WriteData, Publish, history
  <2> QED BY <1>2, <2>1, ShmemAssumption DEF Flag
<1> QED BY <1>3, <1>4, <1>5, <1>6, <1>7, <1>8, BlockCases DEF BlockInv

LEMMA SeenStep ==
  ASSUME SeenInv, [Next]_vars
  PROVE  SeenInv'
<1>1. BlockInv /\ BlockInv'  BY BlockStep DEF SeenInv
<1>2. TypeOK /\ ConfigInv  BY <1>1 DEF BlockInv, ConfigInv, LifeInv
<1> SUFFICES ASSUME NEW t \in Targets, (AtBlock(t))', (Fits(Here(t).of))'
             PROVE  (SeenBy(t))'
  BY <1>1 DEF SeenInv, Seen
<1>3. CASE AtBlock(t) /\ UNCHANGED <<at[t], tg_idx[t], input_shmem_list[t], read[t]>>
  <2>1. Here(t)' = Here(t)  BY <1>3 DEF Here
  <2>2. PICK p \in Targets, x \in Nat :
          /\ x \in Indices(p) /\ p = Here(t).of /\ x = Here(t).idx /\ up[p] # "new"
          /\ \E i \in DOMAIN fbk_sources[t] : Here(t) = fbk_sources[t][i]
    BY <1>2, <1>3, HereIsIndexed DEF AtBlock
  <2>3. Fits(p)
    <3>1. consumers'[p] <= MaxConsumer  BY <2>1, <2>2 DEF Fits
    <3>2. CASE AddFeedbackSource  BY <2>2, <3>2, <1>2, AddsAtFirst
    <3>3. CASE ~AddFeedbackSource
      <4>1. UNCHANGED config  BY <1>2, <3>3, ConfigFrame
      <4> QED BY <3>1, <4>1 DEF config, Fits
    <3> QED BY <3>2, <3>3
  <2>4. SeenBy(t)  BY <1>3, <2>2, <2>3 DEF SeenInv, Seen
  <2>5. (Published(p))'  BY <1>1, <2>2, <2>4, PublishedStays DEF SeenBy
  <2>6. CASE at[t] = "flag"  BY <1>3, <2>1, <2>2, <2>5, <2>6 DEF SeenBy
  <2>7. CASE at[t] # "flag"
    <3>1. Flag(p, x) = 0  BY <2>2, <2>4, <2>7 DEF SeenBy
    <3>2. ASSUME NEW u \in Targets, Acknowledge(u), Here(u).of = p, Here(u).idx = x
          PROVE  FALSE
      <4>1. PICK i \in DOMAIN fbk_sources[t] : Here(t) = fbk_sources[t][i]  BY <2>2
      <4>2. PICK j \in DOMAIN fbk_sources[u] : Here(u) = fbk_sources[u][j]
        BY <1>2, <3>2, HereIsIndexed DEF Acknowledge, InLoop
      <4>3. Here(t) \in Source /\ Here(u) \in Source
        BY <1>2, <1>3, <3>2, HereIsSource DEF Acknowledge, InLoop, AtBlock
      <4>4. Here(t) = Here(u)  BY <2>2, <3>2, <4>3 DEF Source
      <4>5. t = u  BY <1>2, <4>1, <4>2, <4>4 DEF ConfigInv, Distinct
      <4>6. at[t] = "ack" /\ at'[t] = "status"
        BY <1>2, <3>2, <4>5 DEF Acknowledge, InLoop, NextSource, GotoC, TypeOK, CollectorTypes
      <4> QED BY <1>3, <4>6
    <3>3. (Flag(p, x))' = 0 /\ sent'[p] = sent[p]
      BY <1>1, <2>2, <2>3, <3>1, <3>2, LoweredStays
    <3>4. (Recent(p))' = Recent(p)  BY <3>3 DEF Recent
    <3> QED BY <1>3, <2>1, <2>2, <2>4, <2>5, <3>3, <3>4 DEF SeenBy
  <2> QED BY <2>6, <2>7
<1>4. CASE Start(t) \/ Collecting(t) \/ GiveUp(t)
  <2>1. /\ at'[t] \in {"flag", "len", "body", "collect", "ack"}
        /\ \A l \in {"none", "begin", "map", "loop", "status", "flag", "len", "body", "collect", "ack",
                     "ended", "dead"} : at' = [at EXCEPT ![t] = l] => at'[t] = l
    BY <1>2 DEF AtBlock, TypeOK, CollectorTypes
  <2>2. ~(Start(t) \/ GiveUp(t) \/ Begin(t) \/ Mapped(t) \/ LeaveLoop(t) \/ Wake(t) \/ Fail(t)
          \/ Acknowledge(t) \/ EndPass(t))
    BY <2>1 DEF Start, GiveUp, Begin, Mapped, LeaveLoop, Wake, Fail, Acknowledge, EndPass, GotoC, NextSource
  <2>3. ~MapSource(t)  BY <2>1 DEF MapSource
  <2>4. /\ ReadStatus(t) \/ ReadFlag(t) \/ ReadLength(t) \/ ReadData(t) \/ Collect(t)
        /\ tg_idx[t] <= Len(input_shmem_list[t]) /\ UNCHANGED <<config, block, content, sent>>
        /\ input_shmem_list' = input_shmem_list /\ sending' = sending
    BY <1>4, <2>2, <2>3 DEF Collecting, ReadStatus, ReadFlag, ReadLength, ReadData, Collect, InLoop, history
  <2>5. PICK p \in Targets, x \in Nat : x \in Indices(p) /\ p = Here(t).of /\ x = Here(t).idx
    BY <1>2, <2>4, HereIsIndexed
  <2>6. CASE ReadStatus(t)
    <3>1. status[p] # 0 /\ at' = [at EXCEPT ![t] = "flag"] /\ tg_idx' = tg_idx
      BY <2>1, <2>5, <2>6 DEF ReadStatus, NextSource, GotoC
    <3>2. status[p] = 1
      BY <1>2, <2>4, <2>5, <2>6, <3>1 DEF TypeOK, BlockTypes
    <3>3. Published(p)  BY <1>1, <3>2 DEF BlockInv, Blocks, Status
    <3>4. (Published(p))' /\ Here(t)' = Here(t)
      BY <2>4, <2>6, <3>1, <3>3 DEF sending, Published, Writing, Here
    <3> QED BY <2>1, <2>5, <3>1, <3>4 DEF SeenBy
  <2>7. ASSUME ReadFlag(t) \/ ReadLength(t) \/ ReadData(t) \/ Collect(t), UNCHANGED tg_idx
        PROVE  /\ Fits(p) /\ SeenBy(t) /\ (Published(p))'
               /\ Here(t)' = Here(t) /\ (Recent(p))' = Recent(p) /\ (Flag(p, x))' = Flag(p, x)
    <3>1. Here(t)' = Here(t)  BY <2>4, <2>7 DEF Here
    <3>2. (Recent(p))' = Recent(p) /\ (Flag(p, x))' = Flag(p, x)
      BY <2>4, <2>7 DEF content, Recent, Flag
    <3>3. Fits(p)
      <4>1. consumers'[p] <= MaxConsumer  BY <2>5, <3>1 DEF Fits
      <4> QED BY <2>4, <2>7, <4>1 DEF config, Fits
    <3>4. AtBlock(t)  BY <2>7 DEF ReadFlag, ReadLength, ReadData, Collect, InLoop, AtBlock
    <3>5. SeenBy(t)  BY <2>5, <3>3, <3>4 DEF SeenInv, Seen
    <3>6. (Published(p))'  BY <2>4, <2>5, <2>7, <3>5 DEF sending, SeenBy, Published, Writing
    <3> QED BY <3>1, <3>2, <3>3, <3>5, <3>6
  <2>8. CASE ReadFlag(t)
    <3>1. Flag(p, x) # 1 /\ at' = [at EXCEPT ![t] = "len"] /\ tg_idx' = tg_idx
      BY <2>1, <2>5, <2>8 DEF ReadFlag, AlreadyRead, NextSource, GotoC
    <3>2. Flag(p, x) = 0  BY <1>2, <2>5, <2>7, <2>8, <3>1, FlagBit
    <3> QED BY <2>1, <2>5, <2>7, <2>8, <3>1, <3>2 DEF SeenBy
  <2>9. CASE ReadLength(t)
    <3>1. /\ read'[t].len = dlen[p] /\ at' = [at EXCEPT ![t] = "body"] /\ tg_idx' = tg_idx /\ at[t] = "len"
      BY <1>2, <2>5, <2>9 DEF ReadLength, GotoC, InLoop, TypeOK, CollectorTypes
    <3>2. dlen[p] \in Recent(p)
      BY <1>1, <2>5, <2>7, <2>9, <3>1 DEF SeenBy, BlockInv, Blocks, Content
    <3> QED BY <2>1, <2>5, <2>7, <2>9, <3>1, <3>2 DEF SeenBy
  <2>10. CASE ReadData(t)
    <3>1. /\ read'[t].body = data[p] /\ read'[t].len = read[t].len
          /\ at' = [at EXCEPT ![t] = "collect"] /\ tg_idx' = tg_idx /\ at[t] = "body"
      BY <1>2, <2>5, <2>10 DEF ReadData, GotoC, InLoop, TypeOK, CollectorTypes
    <3>2. data[p] \in Recent(p)
      BY <1>1, <2>5, <2>7, <2>10, <3>1 DEF SeenBy, BlockInv, Blocks, Content
    <3> QED BY <2>1, <2>5, <2>7, <2>10, <3>1, <3>2 DEF SeenBy
  <2>11. CASE Collect(t)
    <3>1. at' = [at EXCEPT ![t] = "ack"] /\ tg_idx' = tg_idx /\ at[t] = "collect"
      BY <2>11 DEF Collect, GotoC, InLoop
    <3> QED BY <2>1, <2>5, <2>7, <2>11, <3>1 DEF SeenBy
  <2> QED BY <2>4, <2>6, <2>8, <2>9, <2>10, <2>11
<1>5. CASE ~(Start(t) \/ Collecting(t) \/ GiveUp(t))
  <2>1. UNCHANGED <<at[t], tg_idx[t], input_shmem_list[t], read[t]>>
    BY <1>2, <1>5, CollectorFrame
  <2>2. AtBlock(t)  BY <2>1 DEF AtBlock
  <2> QED BY <1>3, <2>1, <2>2
<1> QED BY <1>4, <1>5

\* A thread at a block is moved by its own steps, and they lead there from its status.
LEMMA AtBlockStep ==
  ASSUME SeenInv, [Next]_vars, NEW t \in Targets, (AtBlock(t))', (Fits(Here(t).of))'
  PROVE  /\ Here(t)' = Here(t) /\ Fits(Here(t).of)
         /\ \/ AtBlock(t) /\ UNCHANGED <<at[t], read[t], noticed[t]>>
            \/ ReadStatus(t) \/ ReadFlag(t) \/ ReadLength(t) \/ ReadData(t) \/ Collect(t)
<1>1. TypeOK /\ ConfigInv  BY DEF SeenInv, BlockInv, ConfigInv, LifeInv
<1>2. CASE Start(t) \/ Collecting(t) \/ GiveUp(t)
  <2>1. /\ at'[t] \in {"flag", "len", "body", "collect", "ack"}
        /\ \A l \in {"none", "begin", "map", "loop", "status", "flag", "len", "body", "collect", "ack",
                     "ended", "dead"} : at' = [at EXCEPT ![t] = l] => at'[t] = l
    BY <1>1 DEF AtBlock, TypeOK, CollectorTypes
  <2>2. ~(Start(t) \/ GiveUp(t) \/ Begin(t) \/ Mapped(t) \/ LeaveLoop(t) \/ Wake(t) \/ Fail(t)
          \/ Acknowledge(t) \/ EndPass(t))
    BY <2>1 DEF Start, GiveUp, Begin, Mapped, LeaveLoop, Wake, Fail, Acknowledge, EndPass, GotoC, NextSource
  <2>3. ~MapSource(t)
    <3> SUFFICES ASSUME MapSource(t) PROVE FALSE  OBVIOUS
    <3>1. at'[t] = "map"  BY DEF MapSource
    <3> QED BY <2>1, <3>1
  <2>4. /\ ReadStatus(t) \/ ReadFlag(t) \/ ReadLength(t) \/ ReadData(t) \/ Collect(t)
        /\ UNCHANGED <<consumers, input_shmem_list>>
    BY <1>2, <2>2, <2>3 DEF Collecting, ReadStatus, ReadFlag, ReadLength, ReadData, Collect, config
  <2>5. tg_idx' = tg_idx
    <3>1. at' # [at EXCEPT ![t] = "status"]  BY <2>1
    <3> QED BY <2>4, <3>1 DEF ReadStatus, ReadFlag, ReadLength, ReadData, Collect, NextSource, GotoC
  <2> QED BY <2>4, <2>5 DEF Here, Fits
<1>3. CASE ~(Start(t) \/ Collecting(t) \/ GiveUp(t))
  <2>1. /\ UNCHANGED <<at[t], tg_idx[t], input_shmem_list[t], read[t], noticed[t]>>
    BY <1>1, <1>3, CollectorFrame
  <2>2. AtBlock(t) /\ Here(t)' = Here(t)  BY <2>1 DEF AtBlock, Here
  <2>3. Fits(Here(t).of)
    <3>1. ~AddFeedbackSource
      <4>1. at[t] # "none"  BY <2>2 DEF AtBlock
      <4> QED BY <1>1, <4>1, AddsAtFirst
    <3> QED BY <1>1, <2>2, <3>1, ConfigFrame DEF config, Fits
  <2> QED BY <2>1, <2>2, <2>3
<1> QED BY <1>2, <1>3

\* A thread that looks at a block is the only one to raise its flag, and does not while
\* it stays where it is.
LEMMA OthersElsewhere ==
  ASSUME SeenInv, [Next]_vars, NEW t \in Targets, AtBlock(t), UNCHANGED at[t],
         NEW u \in Targets, Acknowledge(u)
  PROVE  ~(Here(u).of = Here(t).of /\ Here(u).idx = Here(t).idx)
<1>1. TypeOK /\ ConfigInv  BY DEF SeenInv, BlockInv, ConfigInv, LifeInv
<1>2. PICK i \in DOMAIN fbk_sources[t] : Here(t) = fbk_sources[t][i]
  BY <1>1, HereIsIndexed DEF AtBlock
<1>3. PICK j \in DOMAIN fbk_sources[u] : Here(u) = fbk_sources[u][j]
  BY <1>1, HereIsIndexed DEF Acknowledge, InLoop
<1>4. Here(t) \in Source /\ Here(u) \in Source
  BY <1>1, HereIsSource DEF Acknowledge, InLoop, AtBlock
<1>5. Here(t) = Here(u) => t = u  BY <1>1, <1>2, <1>3 DEF ConfigInv, Distinct
<1>6. t # u
  <2>1. at[u] = "ack" /\ at'[u] = "status"
    BY <1>1 DEF Acknowledge, InLoop, NextSource, GotoC, TypeOK, CollectorTypes
  <2> QED BY <2>1
<1> QED BY <1>4, <1>5, <1>6 DEF Source

NoticedInv == SeenInv /\ Noticed

LEMMA NoticedInit == Init => NoticedInv
BY SeenInit DEF Init, NoticedInv, Noticed, AtBlock

LEMMA NoticedStep ==
  ASSUME NoticedInv, [Next]_vars
  PROVE  NoticedInv'
<1>1. SeenInv /\ SeenInv' /\ BlockInv /\ ConfigInv /\ TypeOK
  BY SeenStep DEF NoticedInv, SeenInv, BlockInv, ConfigInv, LifeInv
<1> SUFFICES ASSUME NEW t \in Targets, (AtBlock(t))', (Fits(Here(t).of))'
             PROVE  (NoticedBy(t, Here(t).of))'
  BY <1>1 DEF NoticedInv, Noticed
<1>2. Here(t)' = Here(t) /\ Fits(Here(t).of)  BY <1>1, AtBlockStep
<1>3. CASE AtBlock(t) /\ UNCHANGED <<at[t], read[t], noticed[t]>>
  <2>1. PICK p \in Targets, x \in Nat :
          x \in Indices(p) /\ p = Here(t).of /\ x = Here(t).idx /\ up[p] # "new"
    BY <1>1, <1>3, HereIsIndexed DEF AtBlock
  <2>2. NoticedBy(t, p) /\ Fits(p)  BY <1>2, <1>3, <2>1 DEF NoticedInv, Noticed
  <2>3. noticed[t] \in Nat /\ Len(sent[p]) \in Nat  BY <1>1, SentStep DEF TypeOK, HistoryTypes
  <2>4. CASE sent'[p] = sent[p] /\ ((Writing(p))' => Writing(p))
    <3>1. (Last(p))' = Last(p)  BY <2>4 DEF Last
    <3>2. Flag(p, x) = 0 => (Flag(p, x))' = 0
      BY <1>1, <1>3, <2>1, <2>2, LoweredStays, OthersElsewhere
    <3> QED BY <1>2, <1>3, <2>1, <2>2, <2>4, <3>1, <3>2 DEF NoticedBy
  <2>5. CASE ResetFlags /\ to = p /\ Len(sent'[p]) = Len(sent[p]) + 1
    <3>1. Flag(p, x) = 1
      BY <1>1, <2>1, <2>2, <2>5 DEF ResetFlags, BlockInv, Blocks, Lowered, AllRead
    <3>2. (Flag(p, x))' = 0
      <4>1. SetFlags(p, Indices(p), 0) /\ UNCHANGED consumers  BY <2>5 DEF ResetFlags, config
      <4> QED BY <1>1, <2>1, <2>2, <4>1, FlagsSet
    <3>3. noticed[t] = Len(sent[p])  BY <2>1, <2>2, <3>1 DEF NoticedBy
    <3> QED BY <1>2, <1>3, <2>1, <2>3, <2>5, <3>2, <3>3 DEF NoticedBy
  <2> QED BY <1>1, <2>4, <2>5, SentStep
<1>4. CASE ReadStatus(t) \/ ReadFlag(t) \/ ReadLength(t) \/ ReadData(t) \/ Collect(t)
  <2>1. /\ tg_idx[t] <= Len(input_shmem_list[t]) /\ at[t] \in {"status", "flag", "len", "body", "collect"}
        /\ UNCHANGED <<config, content, sent, sending>>
    BY <1>4 DEF ReadStatus, ReadFlag, ReadLength, ReadData, Collect, InLoop, history
  <2>2. PICK p \in Targets, x \in Nat : x \in Indices(p) /\ p = Here(t).of /\ x = Here(t).idx
    BY <1>1, <2>1, HereIsIndexed
  <2>3. /\ ((Writing(p))' <=> Writing(p)) /\ (Last(p))' = Last(p) /\ (Flag(p, x))' = Flag(p, x)
        /\ at'[t] \in {"flag", "len", "body", "collect", "ack"}
    BY <2>1 DEF sending, content, Writing, Last, Flag, AtBlock
  <2>4. CASE ReadStatus(t)
    <3>1. at' # [at EXCEPT ![t] = "status"]  BY <1>1, <2>3 DEF TypeOK, CollectorTypes
    <3>2. /\ status[p] # 0 /\ at' = [at EXCEPT ![t] = "flag"]
          /\ noticed' = [noticed EXCEPT ![t] = Len(sent[p])]
      BY <2>2, <2>4, <3>1 DEF ReadStatus, NextSource, GotoC
    <3>3. noticed'[t] = Len(sent[p]) /\ at'[t] = "flag"
      BY <1>1, <3>2 DEF TypeOK, HistoryTypes, CollectorTypes
    <3>4. ~Writing(p)
      <4>1. status[p] = 1  BY <1>1, <3>2 DEF TypeOK, BlockTypes
      <4> QED BY <1>1, <4>1 DEF BlockInv, Blocks, Status, Busy, Writing
    <3> QED BY <1>2, <2>1, <2>2, <2>3, <3>3, <3>4 DEF NoticedBy
  <2>5. CASE ~ReadStatus(t)
    <3>1. AtBlock(t) /\ noticed' = noticed
      BY <1>4, <2>1, <2>5 DEF ReadFlag, ReadLength, ReadData, Collect, InLoop, AtBlock, history
    <3>2. NoticedBy(t, p) /\ SeenBy(t) /\ Fits(p)
      BY <1>1, <1>2, <2>2, <3>1 DEF NoticedInv, Noticed, SeenInv, Seen
    <3>3. noticed[t] = Len(sent[p]) => ~Writing(p) /\ dlen[p] = Last(p) /\ data[p] = Last(p)
      BY <1>1, <2>2, <3>2 DEF NoticedBy, SeenBy, Published, BlockInv, Blocks, Content
    <3>4. CASE ReadFlag(t)
      <4>1. at'[t] # "status"  BY <2>3
      <4>2. at'[t] = "len"
        BY <1>1, <3>4, <4>1 DEF ReadFlag, NextSource, GotoC, TypeOK, CollectorTypes
      <4> QED BY <1>2, <2>1, <2>2, <2>3, <3>1, <3>2, <4>2 DEF NoticedBy
    <3>5. CASE ReadLength(t)
      <4>1. read'[t].len = dlen[p] /\ at'[t] = "body"
        BY <1>1, <2>2, <3>5 DEF ReadLength, GotoC, TypeOK, CollectorTypes
      <4> QED BY <1>2, <2>1, <2>2, <2>3, <3>1, <3>2, <3>3, <4>1 DEF NoticedBy
    <3>6. CASE ReadData(t)
      <4>1. read'[t].body = data[p] /\ read'[t].len = read[t].len /\ at'[t] = "collect" /\ at[t] = "body"
        BY <1>1, <2>2, <3>6 DEF ReadData, GotoC, InLoop, TypeOK, CollectorTypes
      <4> QED BY <1>2, <2>1, <2>2, <2>3, <3>1, <3>2, <3>3, <4>1 DEF NoticedBy
    <3>7. CASE Collect(t)
      <4>1. at'[t] = "ack"  BY <1>1, <3>7 DEF Collect, GotoC, TypeOK, CollectorTypes
      <4> QED BY <1>2, <2>1, <2>2, <2>3, <3>1, <3>2, <4>1 DEF NoticedBy
    <3> QED BY <1>4, <2>5, <3>4, <3>5, <3>6, <3>7
  <2> QED BY <2>4, <2>5
<1> QED BY <1>1, <1>3, <1>4, AtBlockStep
-----------------------------------------------------------------------------
(* ReadOnceNoticed.                                                        *)

LEMMA AgreedIs == Agreed <=> ReadOnceNoticed
BY DEF Agreed, ReadOnceNoticed, Missing, CountIs, MadeOf, Of

LEMMA AllInit == Init => IInv
<1> SUFFICES ASSUME Init PROVE IInv  OBVIOUS
<1>1. Agreed  BY DEF Init, Agreed
<1> QED BY <1>1, NoticedInit DEF IInv, NoticedInv, SeenInv, BlockInv, ConfigInv, LifeInv

\* Only Collect adds to what was collected, and only Collect and Acknowledge
\* change whether something is being acknowledged.
LEMMA AckFrame ==
  ASSUME SeenInv, [Next]_vars, ~AddFeedbackSource, NEW t \in Targets, ~Collect(t), ~Acknowledge(t),
         NEW i \in DOMAIN fbk_sources[t]
  PROVE  /\ got'[t] = got[t]
         /\ (Acknowledging(t, i))' <=> Acknowledging(t, i)
<1>1. TypeOK /\ ConfigInv  BY DEF SeenInv, BlockInv, ConfigInv, LifeInv
<1>2. UNCHANGED config  BY <1>1, ConfigFrame
<1>3. CASE Start(t) \/ Collecting(t) \/ GiveUp(t)
  <2>1. at[t] # "ack" /\ at'[t] # "ack"
    <3> USE DEF GotoC, NextSource, InLoop, TypeOK, CollectorTypes
    <3>1. CASE Start(t)
      BY <1>1, <3>1 DEF Start, ConfigInv, LifeInv, Stopping
    <3>2. CASE Begin(t) \/ Mapped(t) \/ LeaveLoop(t) \/ GiveUp(t) \/ Wake(t) \/ EndPass(t) \/ Fail(t)
      BY <1>1, <3>2 DEF Begin, Mapped, LeaveLoop, GiveUp, Wake, EndPass, Fail
    <3>3. CASE MapSource(t)  BY <1>1, <3>3 DEF MapSource
    <3>4. CASE ReadStatus(t) \/ ReadFlag(t)  BY <1>1, <3>4 DEF ReadStatus, ReadFlag
    <3>5. CASE ReadLength(t) \/ ReadData(t)  BY <1>1, <3>5 DEF ReadLength, ReadData
    <3> QED BY <1>3, <3>1, <3>2, <3>3, <3>4, <3>5 DEF Collecting
  <2>2. got' = got
    BY <1>3 DEF Start, Collecting, GiveUp, Begin, MapSource, Mapped, LeaveLoop, Wake, ReadStatus, ReadFlag,
                ReadLength, ReadData, Fail, EndPass, history
  <2> QED BY <2>1, <2>2 DEF Acknowledging, InLoop
<1>4. CASE ~(Start(t) \/ Collecting(t) \/ GiveUp(t))
  BY <1>1, <1>2, <1>4, CollectorFrame DEF config, Acknowledging, InLoop, Here
<1> QED BY <1>3, <1>4

\* The other steps neither raise nor lower the flag of source i of t.
LEMMA UnreadFrame ==
  ASSUME SeenInv, [Next]_vars, ~AddFeedbackSource, NEW t \in Targets, ~Acknowledge(t),
         NEW i \in DOMAIN fbk_sources[t], Fits(Of(t, i)), ~(ResetFlags /\ to = Of(t, i))
  PROVE  /\ sent'[Of(t, i)] = sent[Of(t, i)]
         /\ (Unread(t, i))' <=> Unread(t, i)
<1>1. BlockInv /\ ConfigInv /\ TypeOK /\ Announced
  BY DEF SeenInv, BlockInv, ConfigInv, LifeInv
<1>2. UNCHANGED config  BY <1>1, ConfigFrame
<1>3. fbk_sources[t][i] \in Source /\ fbk_sources[t][i].idx < consumers[fbk_sources[t][i].of]
  BY <1>1 DEF TypeOK, ConfigTypes, ConfigInv, Indexed, Idx, Of
<1>4. PICK p \in Targets, x \in Nat :
        /\ p = fbk_sources[t][i].of /\ x = fbk_sources[t][i].idx
        /\ x \in Indices(p) /\ Fits(p) /\ fbk_sources[t][i] = [of |-> p, idx |-> x]
  BY <1>1, <1>3 DEF Source, Indices, Of, TypeOK, ConfigTypes
<1>5. /\ Unread(t, i) <=> up[p] # "new" /\ Flag(p, x) = 0
      /\ (Unread(t, i))' <=> up'[p] # "new" /\ (Flag(p, x))' = 0
  BY <1>2, <1>4 DEF config, Unread
<1> SUFFICES /\ sent'[p] = sent[p]
             /\ up'[p] # "new" /\ (Flag(p, x))' = 0 <=> up[p] # "new" /\ Flag(p, x) = 0
  BY <1>4, <1>5 DEF Of
<1>6. x \in 0..MaxConsumer - 1  BY <1>1, <1>4, FlagBit
<1>7. CASE Quiet  BY <1>4, <1>6, <1>7 DEF Quiet, content, Flag
<1>8. ASSUME NEW u \in Targets, Start(u)
      PROVE  /\ sent'[p] = sent[p]
             /\ up'[p] # "new" /\ (Flag(p, x))' = 0 <=> up[p] # "new" /\ Flag(p, x) = 0
  <2>1. /\ SetFlags(u, Indices(u), 1) /\ UNCHANGED consumers /\ sent' = sent
        /\ up[u] = "new" /\ up' = [up EXCEPT ![u] = "up"]
    BY <1>8 DEF Start, config, history
  <2>2. (Flag(p, x))' = IF p = u /\ x \in Indices(u) THEN 1 ELSE Flag(p, x)
    BY <1>1, <1>4, <2>1, FlagsSet
  <2> QED BY <1>1, <1>4, <2>1, <2>2 DEF TypeOK, FrameworkTypes
<1>9. ASSUME NEW u \in Targets, Acknowledge(u)
      PROVE  /\ sent'[p] = sent[p]
             /\ up'[p] # "new" /\ (Flag(p, x))' = 0 <=> up[p] # "new" /\ Flag(p, x) = 0
  <2>1. SetFlags(Here(u).of, {Here(u).idx}, 1) /\ UNCHANGED <<consumers, up>> /\ sent' = sent
    BY <1>9 DEF Acknowledge, config, history
  <2>2. PICK j \in DOMAIN fbk_sources[u] : Here(u) = fbk_sources[u][j]
    BY <1>1, <1>9, HereIsIndexed DEF Acknowledge, InLoop
  <2>3. Here(u).of \in Targets /\ {Here(u).idx} \subseteq Indices(Here(u).of) /\ Here(u) \in Source
    BY <1>1, <1>9, HereIsIndexed, HereIsSource DEF Acknowledge, InLoop
  <2>4. ~(Here(u).of = p /\ Here(u).idx = x)
    <3>1. Here(u) # fbk_sources[t][i]  BY <1>1, <1>9, <2>2 DEF ConfigInv, Distinct
    <3> QED BY <1>4, <2>3, <3>1 DEF Source
  <2>5. (Flag(p, x))' = Flag(p, x)  BY <1>1, <1>4, <2>1, <2>3, <2>4, FlagsSet
  <2> QED BY <2>1, <2>5
<1>10. CASE ResetFlags
  <2>1. to \in Targets /\ p # to  BY <1>1, <1>4, <1>10 DEF ResetFlags, Announced, Of
  <2>2. /\ SetFlags(to, Indices(to), 0) /\ UNCHANGED <<consumers, up>>
        /\ sent' = [sent EXCEPT ![to] = Append(@, made + 1)]
    BY <1>10 DEF ResetFlags, config
  <2>3. sent'[p] = sent[p]  BY <1>1, <2>1, <2>2 DEF TypeOK, HistoryTypes
  <2>4. (Flag(p, x))' = Flag(p, x)  BY <1>1, <1>4, <2>1, <2>2, FlagsSet
  <2> QED BY <2>2, <2>3, <2>4
<1>11. CASE SeeReady \/ WriteLength \/ WriteData \/ Publish
  <2>1. UNCHANGED <<flags, sent, up>>  BY <1>11 DEF SeeReady, WriteLength, WriteData, Publish, history
  <2> QED BY <1>6, <2>1, ShmemAssumption DEF Flag
<1> QED BY <1>1, <1>7, <1>8, <1>9, <1>10, <1>11, BlockCases

LEMMA AgreedAdd ==
  ASSUME SeenInv, Agreed, AddFeedbackSource
  PROVE  Agreed'
<1>1. BlockInv /\ ConfigInv /\ TypeOK  BY DEF SeenInv, BlockInv, ConfigInv, LifeInv
<1>2. /\ \A t \in Targets : up[t] = "new" /\ at[t] = "none" /\ input_shmem_list[t] = <<>>
      /\ UNCHANGED <<up, sent>>
  BY <1>1, AddsAtFirst DEF AddFeedbackSource
<1>3. PICK c, p \in Targets :
        /\ consumers' = [consumers EXCEPT ![p] = consumers[p] + 1]
        /\ fbk_sources' = [fbk_sources EXCEPT ![c] = Append(fbk_sources[c], [of |-> p, idx |-> consumers[p]])]
        /\ got' = [got EXCEPT ![c] = Append(got[c], <<>>)]
  BY <1>1, AddsAtFirst
<1> SUFFICES ASSUME NEW t \in Targets, NEW i \in DOMAIN fbk_sources'[t], (Fits(Of(t, i)))'
             PROVE  (CountIs(t, i) /\ MadeOf(t, i))'
  BY DEF Agreed
<1>4. fbk_sources[t] \in Seq(Source) /\ got[t] \in Seq(Seq(Readings)) /\ DOMAIN got[t] = DOMAIN fbk_sources[t]
  BY <1>1 DEF TypeOK, ConfigTypes, HistoryTypes, ConfigInv, Configured
<1>5. \A q \in Targets : Len(sent[q]) = 0  BY <1>1, <1>2 DEF BlockInv, Blocks, Status
<1>6. (Of(t, i))' \in Targets
  <2>1. TypeOK'  BY <1>1, AddTypes
  <2>2. fbk_sources' \in [Targets -> Seq(Source)]  BY <2>1 DEF TypeOK, ConfigTypes
  <2>3. fbk_sources'[t][i] \in Source  BY <2>2
  <2> QED BY <2>3 DEF Source, Of
<1>7. (Missing(t, i))' = 0  BY <1>2, <1>6 DEF Missing, Unread, Of
<1>8. got'[t][i] = <<>>
  <2>1. CASE i \in DOMAIN fbk_sources[t]
    <3>1. got'[t][i] = got[t][i] /\ fbk_sources'[t][i] = fbk_sources[t][i]
      BY <1>1, <1>3, <1>4, <2>1 DEF TypeOK, ConfigTypes, HistoryTypes
    <3>2. Of(t, i) \in Targets /\ consumers'[Of(t, i)] <= MaxConsumer
      BY <1>6, <3>1 DEF Of, Fits
    <3>3. Fits(Of(t, i))
      BY <1>1, <1>3, <3>2, ShmemAssumption DEF Fits, TypeOK, ConfigTypes
    <3>4. MappedOnce(t)  BY <1>2 DEF MappedOnce
    <3>5. CountIs(t, i)  BY <2>1, <3>3, <3>4 DEF Agreed
    <3>6. Len(got[t][i]) = 0 /\ got[t][i] \in Seq(Readings)
      BY <1>2, <1>4, <1>5, <2>1, <3>2, <3>5 DEF CountIs, Missing, Unread, Of
    <3> QED BY <3>1, <3>6
  <2>2. CASE i \notin DOMAIN fbk_sources[t]
    <3>1. t = c /\ i = Len(fbk_sources[t]) + 1
      BY <1>1, <1>3, <1>4, <2>2 DEF TypeOK, ConfigTypes
    <3>2. Len(got[t]) = Len(fbk_sources[t])  BY <1>4
    <3> QED BY <1>1, <1>3, <1>4, <3>1, <3>2 DEF TypeOK, HistoryTypes
  <2> QED BY <2>1, <2>2
<1>9. Len(sent'[(Of(t, i))']) = 0  BY <1>2, <1>5, <1>6
<1> QED BY <1>7, <1>8, <1>9 DEF CountIs, MadeOf

LEMMA AgreedStep ==
  ASSUME NoticedInv, Agreed, [Next]_vars, ~AddFeedbackSource
  PROVE  Agreed'
<1>1. SeenInv /\ BlockInv /\ BlockInv' /\ ConfigInv /\ TypeOK /\ Announced
  BY BlockStep DEF NoticedInv, SeenInv, BlockInv, ConfigInv, LifeInv
<1>2. UNCHANGED config  BY <1>1, ConfigFrame
<1> SUFFICES ASSUME NEW t \in Targets, NEW i \in DOMAIN fbk_sources[t], (MappedOnce(t))', Fits(Of(t, i))
             PROVE  (CountIs(t, i) /\ MadeOf(t, i))'
  BY <1>2 DEF config, Agreed, Fits, Of
<1>3. fbk_sources[t][i] \in Source /\ fbk_sources[t][i].idx < consumers[fbk_sources[t][i].of]
  BY <1>1 DEF TypeOK, ConfigTypes, ConfigInv, Indexed, Idx, Of
<1>4. PICK p \in Targets, x \in Nat :
        /\ p = fbk_sources[t][i].of /\ x = fbk_sources[t][i].idx
        /\ x \in Indices(p) /\ Fits(p) /\ fbk_sources[t][i] = [of |-> p, idx |-> x]
  BY <1>1, <1>3 DEF Source, Indices, Of, TypeOK, ConfigTypes
<1>5. /\ Unread(t, i) <=> up[p] # "new" /\ Flag(p, x) = 0
      /\ (Unread(t, i))' <=> up'[p] # "new" /\ (Flag(p, x))' = 0
      /\ Of(t, i) = p /\ (Of(t, i))' = p
  BY <1>2, <1>4 DEF config, Unread, Of
<1>6. MappedOnce(t)
  <2>1. \/ input_shmem_list'[t] = input_shmem_list[t]
        \/ \E s \in Source : input_shmem_list'[t] = Append(input_shmem_list[t], s)
    <3>1. CASE MapSource(t)
      <4>1. fbk_sources[t][tg_idx[t]] \in Source
        BY <1>1, <3>1 DEF MapSource, TypeOK, ConfigTypes, CollectorTypes
      <4> QED BY <1>1, <3>1, <4>1 DEF MapSource, TypeOK, CollectorTypes
    <3>2. ASSUME NEW u \in Targets, u # t, MapSource(u)
          PROVE  input_shmem_list'[t] = input_shmem_list[t]
      BY <1>1, <3>2 DEF MapSource, TypeOK, CollectorTypes
    <3>3. CASE ~\E u \in Targets : MapSource(u)  BY <3>3, ListFrame
    <3> QED BY <3>1, <3>2, <3>3
  <2>2. input_shmem_list[t] \in Seq(Source)  BY <1>1 DEF TypeOK, CollectorTypes
  <2>3. \A n \in DOMAIN input_shmem_list[t] :
          n \in DOMAIN input_shmem_list'[t] /\ input_shmem_list'[t][n] = input_shmem_list[t][n]
    BY <2>1, <2>2
  <2> QED BY <1>2, <2>3 DEF config, MappedOnce
<1>7. CountIs(t, i) /\ MadeOf(t, i)  BY <1>6 DEF Agreed
<1>8. /\ sent[p] \in Seq(Nat) /\ made \in Nat /\ got[t] \in Seq(Seq(Readings)) /\ i \in DOMAIN got[t]
      /\ got[t][i] \in Seq(Readings)
  <2>1. got[t] \in Seq(Seq(Readings)) /\ i \in DOMAIN got[t]
    BY <1>1 DEF TypeOK, HistoryTypes, ConfigInv, Configured
  <2> QED BY <1>1, <2>1 DEF TypeOK, HistoryTypes, SendingTypes
<1>9. ASSUME sent'[p] = sent[p], got'[t][i] = got[t][i], (Missing(t, i))' = Missing(t, i)
      PROVE  (CountIs(t, i) /\ MadeOf(t, i))'
  <2>1. (CountIs(t, i))'  BY <1>5, <1>7, <1>9 DEF CountIs
  <2>2. (MadeOf(t, i))'
    <3>1. \A n \in DOMAIN got[t][i] : ReadAsNoticed(got[t][i][n], sent[p], n)
      BY <1>5, <1>7 DEF MadeOf
    <3>2. \A n \in DOMAIN got'[t][i] : ReadAsNoticed(got'[t][i][n], sent'[p], n)
      BY <1>9, <3>1
    <3> QED BY <1>5, <3>2 DEF MadeOf
  <2> QED BY <2>1, <2>2
<1>10. CASE Collect(t)
  <2> DEFINE k == tg_idx[t]
  <2>1. /\ InLoop(t, "collect") /\ k <= Len(input_shmem_list[t]) /\ k \in DOMAIN fbk_sources[t]
        /\ UNCHANGED <<content, up, tg_idx, input_shmem_list, sent>>
        /\ got' = [got EXCEPT ![t][k] = Append(@, Reading(t))] /\ at' = [at EXCEPT ![t] = "ack"]
    BY <1>1, <1>10 DEF Collect, InLoop, GotoC, TypeOK, ConfigTypes, CollectorTypes
  <2>2. Here(t) = fbk_sources[t][k] /\ Here(t)' = Here(t)
    BY <1>1, <1>6, <2>1, HereIsSource DEF MappedOnce, Here
  <2>3. (Unread(t, i))' <=> Unread(t, i)  BY <1>5, <2>1 DEF content, Flag
  <2>4. ~Acknowledging(t, i)  BY <2>1 DEF InLoop, Acknowledging
  <2>5. (Acknowledging(t, i))' <=> Here(t) = fbk_sources[t][i]
    BY <1>1, <1>2, <2>1, <2>2 DEF config, InLoop, Acknowledging, TypeOK, CollectorTypes
  <2>6. CASE i = k
    <3>1. Here(t).of = p /\ Here(t).idx = x  BY <1>4, <2>2, <2>6
    <3>2. AtBlock(t) /\ at[t] = "collect"  BY <2>1 DEF AtBlock, InLoop
    <3>3. /\ Flag(p, x) = 0
          /\ read[t].len \in ReadAs(sent[p], Len(sent[p])) /\ read[t].body \in ReadAs(sent[p], Len(sent[p]))
      BY <1>1, <1>4, <3>1, <3>2 DEF SeenInv, Seen, SeenBy, Recent
    <3>4. Unread(t, i)  BY <1>1, <1>5, <2>1, <3>1, <3>3, HereIsIndexed
    <3>5. Missing(t, i) = 1 /\ (Missing(t, i))' = 0  BY <2>2, <2>4, <2>5, <2>6, <3>4 DEF Missing
    <3>6. got'[t][i] = Append(got[t][i], Reading(t))  BY <1>1, <1>8, <2>1, <2>6 DEF TypeOK, HistoryTypes
    <3>7. Len(got[t][i]) = Len(sent[p]) - 1  BY <1>5, <1>7, <3>5 DEF CountIs
    <3>8. Reading(t) \in Readings  BY <1>1 DEF TypeOK, CollectorTypes, HistoryTypes, Reading, Readings, Data
    <3>9. /\ Len(got'[t][i]) = Len(sent[p]) /\ got'[t][i][Len(sent[p])] = Reading(t)
          /\ DOMAIN got'[t][i] = 1..Len(sent[p])
          /\ \A n \in 1..Len(sent[p]) - 1 : n \in DOMAIN got[t][i] /\ got'[t][i][n] = got[t][i][n]
      BY <1>8, <3>6, <3>7, <3>8
    <3>10. (CountIs(t, i))'  BY <1>5, <2>1, <3>5, <3>9, <1>8 DEF CountIs
    <3>11. (MadeOf(t, i))'
      <4> SUFFICES ASSUME NEW n \in 1..Len(sent[p])
                   PROVE  ReadAsNoticed(got'[t][i][n], sent[p], n)
        BY <1>5, <2>1, <3>9 DEF MadeOf
      <4>1. CASE n = Len(sent[p])
        <5>1. NoticedBy(t, p)  BY <1>4, <3>1, <3>2 DEF NoticedInv, Noticed
        <5>2. /\ Reading(t).noticed = noticed[t] /\ Reading(t).len = read[t].len
              /\ Reading(t).body = read[t].body
          BY DEF Reading
        <5>3. noticed[t] \in Nat /\ Len(sent[p]) \in Nat  BY <1>1, <1>8 DEF TypeOK, HistoryTypes
        <5>4. noticed[t] = n => read[t].len = sent[p][n] /\ read[t].body = sent[p][n]
          BY <3>2, <4>1, <5>1 DEF NoticedBy, Last
        <5>5. noticed[t] # n => noticed[t] = n - 1  BY <4>1, <5>1, <5>3 DEF NoticedBy
        <5> QED BY <3>3, <3>9, <4>1, <5>2, <5>4, <5>5 DEF ReadAsNoticed
      <4>2. CASE n # Len(sent[p])
        <5>1. n \in 1..Len(sent[p]) - 1  BY <1>8, <4>2
        <5> QED BY <1>5, <1>7, <3>9, <5>1 DEF MadeOf
      <4> QED BY <4>1, <4>2
    <3> QED BY <3>10, <3>11
  <2>7. CASE i # k
    <3>1. got'[t][i] = got[t][i]  BY <1>1, <1>8, <2>1, <2>7 DEF TypeOK, HistoryTypes
    <3>2. Here(t) # fbk_sources[t][i]  BY <1>1, <2>1, <2>2, <2>7 DEF ConfigInv, Distinct
    <3>3. (Missing(t, i))' = Missing(t, i)  BY <2>3, <2>4, <2>5, <3>2 DEF Missing
    <3> QED BY <1>9, <2>1, <3>1, <3>3
  <2> QED BY <2>6, <2>7
<1>11. CASE Acknowledge(t)
  <2>1. /\ SetFlags(Here(t).of, {Here(t).idx}, 1) /\ UNCHANGED <<consumers, up, sent, got>>
        /\ InLoop(t, "ack") /\ at' = [at EXCEPT ![t] = "status"]
    BY <1>11 DEF Acknowledge, NextSource, GotoC, config, history
  <2>2. Here(t) \in Source /\ Here(t).of \in Targets /\ {Here(t).idx} \subseteq Indices(Here(t).of)
    BY <1>1, <2>1, HereIsIndexed, HereIsSource DEF InLoop
  <2>3. (Flag(p, x))' = IF p = Here(t).of /\ x \in {Here(t).idx} THEN 1 ELSE Flag(p, x)
    BY <1>1, <1>4, <2>1, <2>2, FlagsSet
  <2>4. ~(Acknowledging(t, i))'
    BY <1>1, <2>1 DEF Acknowledging, InLoop, TypeOK, CollectorTypes
  <2>5. (Missing(t, i))' = Missing(t, i)
    <3>1. CASE Here(t) = fbk_sources[t][i]
      <4>1. Acknowledging(t, i)  BY <2>1, <3>1 DEF Acknowledging
      <4>2. (Flag(p, x))' = 1  BY <1>4, <2>3, <3>1
      <4> QED BY <1>5, <4>1, <4>2 DEF Missing
    <3>2. CASE Here(t) # fbk_sources[t][i]
      <4>1. ~Acknowledging(t, i)  BY <3>2 DEF Acknowledging
      <4>2. ~(Here(t).of = p /\ Here(t).idx = x)  BY <1>4, <2>2, <3>2 DEF Source
      <4>3. (Unread(t, i))' <=> Unread(t, i)  BY <1>5, <2>1, <2>3, <4>2
      <4> QED BY <2>4, <4>1, <4>3 DEF Missing
    <3> QED BY <3>1, <3>2
  <2> QED BY <1>9, <2>1, <2>5
<1>12. CASE ~Collect(t) /\ ~Acknowledge(t) /\ ~(ResetFlags /\ to = p)
  <2>1. got'[t] = got[t] /\ ((Acknowledging(t, i))' <=> Acknowledging(t, i))  BY <1>1, <1>12, AckFrame
  <2>2. sent'[p] = sent[p] /\ ((Unread(t, i))' <=> Unread(t, i))  BY <1>1, <1>5, <1>12, UnreadFrame
  <2>3. (Missing(t, i))' = Missing(t, i)  BY <2>1, <2>2 DEF Missing
  <2> QED BY <1>9, <2>1, <2>2, <2>3
<1>13. CASE ResetFlags /\ to = p
  <2>1. /\ pc = "flags" /\ SetFlags(p, Indices(p), 0) /\ UNCHANGED <<consumers, up, got>>
        /\ sent' = [sent EXCEPT ![p] = Append(sent[p], made + 1)] /\ up[p] # "new"
        /\ UNCHANGED collector
    BY <1>1, <1>13 DEF ResetFlags, config, Announced
  <2>2. Flag(p, x) = 1
    <3>1. AllRead(p)  BY <1>1, <1>4, <1>13, <2>1 DEF BlockInv, Blocks, Lowered
    <3> QED BY <1>4, <3>1 DEF AllRead
  <2>3. (Flag(p, x))' = 0  BY <1>1, <1>4, <2>1, FlagsSet
  <2>4. ~Unread(t, i) /\ (Unread(t, i))'  BY <1>5, <2>1, <2>2, <2>3
  <2>5. ~Acknowledging(t, i)
    <3> SUFFICES ASSUME Acknowledging(t, i) PROVE FALSE  OBVIOUS
    <3>1. AtBlock(t) /\ at[t] = "ack" /\ Here(t) = fbk_sources[t][i]
      BY DEF Acknowledging, InLoop, AtBlock
    <3>2. Flag(p, x) = 0  BY <1>1, <1>4, <3>1 DEF SeenInv, Seen, SeenBy
    <3> QED BY <2>2, <3>2
  <2>6. ~(Acknowledging(t, i))'
    BY <1>2, <2>1, <2>5 DEF config, collector, Acknowledging, InLoop, Here
  <2>7. Missing(t, i) = 0 /\ (Missing(t, i))' = 1  BY <2>4, <2>6 DEF Missing
  <2>8. sent'[p] = Append(sent[p], made + 1)  BY <1>1, <2>1 DEF TypeOK, HistoryTypes
  <2>9. /\ Len(sent'[p]) = Len(sent[p]) + 1
        /\ \A n \in 1..Len(sent[p]) : ReadAs(sent'[p], n) = ReadAs(sent[p], n) /\ sent'[p][n] = sent[p][n]
    <3>1. made + 1 \in Nat  BY <1>8
    <3> QED BY <1>8, <2>8, <3>1, ReadAsFacts
  <2>10. Len(got[t][i]) = Len(sent[p]) /\ DOMAIN got[t][i] = 1..Len(sent[p])
    BY <1>5, <1>7, <1>8, <2>7 DEF CountIs
  <2>11. (CountIs(t, i))'  BY <1>5, <1>8, <2>1, <2>7, <2>9, <2>10 DEF CountIs
  <2>12. (MadeOf(t, i))'
    <3>1. \A n \in DOMAIN got[t][i] : ReadAsNoticed(got[t][i][n], sent'[p], n)
      BY <1>5, <1>7, <2>9, <2>10 DEF MadeOf, ReadAsNoticed
    <3> QED BY <1>5, <2>1, <3>1 DEF MadeOf
  <2> QED BY <2>11, <2>12
<1> QED BY <1>10, <1>11, <1>12, <1>13

LEMMA AllStep == IInv /\ [Next]_vars => IInv'
<1> SUFFICES ASSUME IInv, [Next]_vars PROVE IInv'  OBVIOUS
<1>1. NoticedInv /\ SeenInv /\ Agreed
  BY DEF IInv, NoticedInv, SeenInv, BlockInv, ConfigInv, LifeInv
<1>2. NoticedInv'  BY <1>1, NoticedStep
<1>3. Agreed'  BY <1>1, AgreedAdd, AgreedStep
<1> QED BY <1>2, <1>3 DEF IInv, NoticedInv, SeenInv, BlockInv, ConfigInv, LifeInv

\* Each consumer answers each data by one reading before the next is written; it reads
\* that data, whole, if it saw its status, and if it saw the status of the data before,
\* what it reads is made of these two (debug.py:193-205, 291-314): whatever the number
\* of targets and of data, as long as the flags fit in the block and the consumer
\* mapped its sources once.
THEOREM NoticedIsRead == Spec => []ReadOnceNoticed
<1>1. IInv => ReadOnceNoticed  BY AgreedIs DEF IInv
<1> QED BY <1>1, AllInit, AllStep, PTL DEF Spec
=============================================================================
