---------------------------- MODULE ShmemTarget ----------------------------
(***************************************************************************)
(* targets/debug.py, target_helpers.py: the test targets that give their   *)
(* data to each other through shared memory. Each target owns one block    *)
(* and is the feedback source of others, which map that block and read it  *)
(* from a thread of their own; another thread may forward what was read to *)
(* the targets it controls. The block holds a status, one flag per         *)
(* consumer (1: what was written is read) and one data, written in two     *)
(* steps: its length, then its bytes. No lock protects the block.          *)
(*                                                                         *)
(* All the targets are in one process, so that one lock, an attribute of   *)
(* the class, serializes the sendings. The data are numbered from 2, in    *)
(* the order of their sending, so that none is taken for a flag. Targets   *)
(* are started and stopped once, after all the sources were added.         *)
(***************************************************************************)
EXTENDS Integers, Sequences, FiniteSets

CONSTANTS
    Targets,
    Setups,       \* the ways to connect them that are considered
    MaxConsumer,  \* max_consumer: the number of bytes for the flags
    MaxMapped,    \* bound: the length of input_shmem_list
    Fmk, None     \* the framework thread, nobody

\* What a setup says: the calls of add_feedback_sources, <<consumer, source>>;
\* the targets each target controls; whether the user may send a data that
\* exceeds the block; the number of data that are sent (a bound).
ASSUME ShmemAssumption ==
    /\ MaxConsumer \in Nat /\ None \notin Targets \cup {Fmk}
    /\ \A st \in Setups :
        /\ st.links \in Seq(Targets \X Targets) /\ st.control \in [Targets -> Seq(Targets)]
        /\ st.tooLong \in BOOLEAN /\ st.data \in Nat

VARIABLES
    setup, calls,                   \* the next call to make
    fbk_sources, consumers,         \* consumers: _current_consumer_idx + 1
    block,                          \* the block is "absent", "mapped" or "closed"
    status, flags, dlen, data,      \* what it contains
    up,                             \* life of a target, for the framework
    stopAsked, exited, finished,    \* _stop_event, _fbk_collector_exit_event,
                                    \* _send_data_finished_event
    ready,                          \* _target_ready
    at, tg_idx, input_shmem_list,   \* the thread that collects the feedback
    read, items,                    \* what it read last; feedback_items, their number
    queue, fwd,                     \* forward_queue; what is still to forward
    sender, to, pc, tooLong,        \* who holds the lock, and where it is
    made,                           \* number of the last data made
    sent,                           \* history: the data written to each block
    got,                            \* history: what was collected from each source
    noticed                         \* history: how many data were in the block when the
                                    \* thread saw its status

config == <<setup, calls, fbk_sources, consumers>>
content == <<status, flags, dlen, data>>
events == <<stopAsked, exited, finished>>
collector == <<at, tg_idx, input_shmem_list, read, items>>
forwarder == <<queue, fwd>>
sending == <<sender, to, pc, tooLong>>
history == <<sent, got, noticed>>
vars == <<config, block, content, up, events, ready, collector, forwarder, sending, made, history>>

Links == setup.links
Members == {t \in Targets : consumers[t] > 0 \/ fbk_sources[t] # <<>>}

----------------------------------------------------------------------------
(* The block. The flag of index MaxConsumer is the first byte of the data. *)

Indices(p) == 0..consumers[p] - 1
Flag(p, x) == IF x < MaxConsumer THEN flags[p][x] ELSE data[p]
SetFlags(p, I, v) ==
    /\ flags' = [flags EXCEPT ![p] = [x \in 0..MaxConsumer - 1 |-> IF x \in I THEN v ELSE @[x]]]
    /\ data' = [data EXCEPT ![p] = IF MaxConsumer \in I THEN v ELSE @]

\* Every consumer has read the previous data.
Ready(p) == \A x \in Indices(p) : Flag(p, x) # 0

Nothing == [len |-> 0, body |-> 0]
NoTask == [tgs |-> <<>>, left |-> 0, size |-> 0]

Init ==
    /\ setup \in Setups /\ calls = 1
    /\ fbk_sources = [t \in Targets |-> <<>>] /\ consumers = [t \in Targets |-> 0]
    /\ block = [t \in Targets |-> "absent"]
    /\ status = [t \in Targets |-> 0]
    /\ flags = [t \in Targets |-> [x \in 0..MaxConsumer - 1 |-> 0]]
    /\ dlen = [t \in Targets |-> 0] /\ data = [t \in Targets |-> 0]
    /\ up = [t \in Targets |-> "new"]
    /\ stopAsked = [t \in Targets |-> FALSE]
    /\ exited = [t \in Targets |-> TRUE] /\ finished = [t \in Targets |-> TRUE]
    /\ ready = [t \in Targets |-> FALSE]
    /\ at = [t \in Targets |-> "none"] /\ tg_idx = [t \in Targets |-> 1]
    /\ input_shmem_list = [t \in Targets |-> <<>>]
    /\ read = [t \in Targets |-> Nothing] /\ items = [t \in Targets |-> 0]
    /\ queue = [t \in Targets |-> 0] /\ fwd = [t \in Targets |-> NoTask]
    /\ sender = None /\ to = None /\ pc = "free" /\ tooLong = FALSE
    /\ made = 1
    /\ sent = [t \in Targets |-> <<>>] /\ got = [t \in Targets |-> <<>>]
    /\ noticed = [t \in Targets |-> 0]

----------------------------------------------------------------------------
(* The framework: add_feedback_sources(), start() and stop().              *)

\* get_consumer_idx() gives an index to the consumer, or raises.
AddFeedbackSource ==
    /\ calls <= Len(Links)
    /\ LET s == Links[calls][1]
           p == Links[calls][2] IN
        /\ consumers[p] <= MaxConsumer
        /\ consumers' = [consumers EXCEPT ![p] = @ + 1]
        /\ fbk_sources' = [fbk_sources EXCEPT ![s] = Append(@, [of |-> p, idx |-> consumers[p]])]
        /\ got' = [got EXCEPT ![s] = Append(@, <<>>)]
    /\ calls' = calls + 1
    /\ UNCHANGED <<setup, block, content, up, events, ready, collector, forwarder, sending, made, sent,
                   noticed>>

\* The flags say that every consumer is ready.
Start(t) ==
    /\ calls > Len(Links)
    /\ t \in Members /\ up[t] = "new" /\ \A u \in Members : up[u] \in {"new", "up"}
    /\ up' = [up EXCEPT ![t] = "up"]
    /\ block' = [block EXCEPT ![t] = "mapped"]
    /\ SetFlags(t, Indices(t), 1) /\ status' = [status EXCEPT ![t] = 0]
    /\ at' = [at EXCEPT ![t] = "begin"]
    /\ UNCHANGED <<config, dlen, events, ready, tg_idx, input_shmem_list, read, items, forwarder, sending,
                   made, history>>

\* One target after the other, when the framework is not sending.
AskStop(t) ==
    /\ \A u \in Members : up[u] \in {"up", "stopped"}
    /\ up[t] = "up" /\ sender # Fmk
    /\ up' = [up EXCEPT ![t] = "stopping"]
    /\ stopAsked' = [stopAsked EXCEPT ![t] = TRUE]
    /\ ready' = [ready EXCEPT ![t] = FALSE]
    /\ UNCHANGED <<config, block, content, exited, finished, collector, forwarder, sending, made, history>>

SeeExit(t) ==
    /\ up[t] = "stopping" /\ exited[t]
    /\ up' = [up EXCEPT ![t] = "exited"]
    /\ UNCHANGED <<config, block, content, events, ready, collector, forwarder, sending, made, history>>

\* The variant does not wait for a sending that is under way.
CloseAtOnce(t) ==
    /\ up[t] = "exited"
    /\ up' = [up EXCEPT ![t] = "stopped"]
    /\ block' = [block EXCEPT ![t] = "closed"]
    /\ UNCHANGED <<config, content, events, ready, collector, forwarder, sending, made, history>>

Close(t) ==
    /\ up[t] = "exited" /\ finished[t]
    /\ up' = [up EXCEPT ![t] = "stopped"]
    /\ block' = [block EXCEPT ![t] = "closed"]
    /\ UNCHANGED <<config, content, events, ready, collector, forwarder, sending, made, history>>

----------------------------------------------------------------------------
(* Sending: send_data_sync() and send_data(), to the block of the target   *)
(* called to.                                                              *)

Goto(l) == pc' = l /\ UNCHANGED <<sender, to, tooLong>>
Leave == sender' = None /\ to' = None /\ pc' = "free" /\ tooLong' = FALSE

\* The lock is taken and the target is ready.
Enter(who, t, long) ==
    /\ sender = None /\ made <= setup.data
    /\ ready[t]
    /\ sender' = who /\ to' = t /\ pc' = "clear" /\ tooLong' = long

FmkSends(t) ==
    /\ \A u \in Members : up[u] = "up"
    /\ \E long \in {FALSE, setup.tooLong} : Enter(Fmk, t, long)
    /\ UNCHANGED <<config, block, content, up, events, ready, collector, forwarder, made, history>>

ClearFinished ==
    /\ pc = "clear"
    /\ finished' = [finished EXCEPT ![to] = FALSE]
    /\ Goto("check")
    /\ UNCHANGED <<config, block, content, up, stopAsked, exited, ready, collector, forwarder, made, history>>

Done ==
    /\ finished' = [finished EXCEPT ![to] = TRUE]
    /\ Leave

SeeStop ==
    /\ pc = "check" /\ stopAsked[to]
    /\ Done
    /\ UNCHANGED <<config, block, content, up, stopAsked, exited, ready, collector, forwarder, made, history>>

\* The ValueError leaves without setting the event.
RejectData ==
    /\ pc = "check" /\ ~stopAsked[to] /\ tooLong
    /\ Leave
    /\ UNCHANGED <<config, block, content, up, events, ready, collector, forwarder, made, history>>

Accept ==
    /\ pc = "check" /\ ~stopAsked[to] /\ ~tooLong
    /\ Goto("wait")
    /\ UNCHANGED <<config, block, content, up, events, ready, collector, forwarder, made, history>>

\* Every flag that is not 0 stays so until the sender resets it: that they
\* are read one by one makes no difference.
SeeReady ==
    /\ pc = "wait" /\ Ready(to)
    /\ status' = [status EXCEPT ![to] = 0]
    /\ Goto("flags")
    /\ UNCHANGED <<config, block, flags, dlen, data, up, events, ready, collector, forwarder, made, history>>

IgnoreData ==
    /\ pc = "wait" /\ ~Ready(to)
    /\ Done
    /\ UNCHANGED <<config, block, content, up, stopAsked, exited, ready, collector, forwarder, made, history>>

ResetFlags ==
    /\ pc = "flags"
    /\ SetFlags(to, Indices(to), 0)
    /\ made' = made + 1
    /\ sent' = [sent EXCEPT ![to] = Append(@, made + 1)]
    /\ Goto("len")
    /\ UNCHANGED <<config, block, status, dlen, up, events, ready, collector, forwarder, got, noticed>>

WriteLength ==
    /\ pc = "len"
    /\ dlen' = [dlen EXCEPT ![to] = made]
    /\ Goto("body")
    /\ UNCHANGED <<config, block, status, flags, data, up, events, ready, collector, forwarder, made, history>>

WriteData ==
    /\ pc = "body"
    /\ data' = [data EXCEPT ![to] = made]
    /\ Goto("publish")
    /\ UNCHANGED <<config, block, status, flags, dlen, up, events, ready, collector, forwarder, made, history>>

\* The variant leaves the status as it was.
PublishNothing ==
    /\ pc = "publish"
    /\ Done
    /\ UNCHANGED <<config, block, content, up, stopAsked, exited, ready, collector, forwarder, made, history>>

Publish ==
    /\ pc = "publish"
    /\ status' = [status EXCEPT ![to] = 1]
    /\ Done
    /\ UNCHANGED <<config, block, flags, dlen, data, up, stopAsked, exited, ready, collector, forwarder, made,
                   history>>

Sending ==
    \/ ClearFinished \/ SeeStop \/ RejectData \/ Accept \/ SeeReady \/ IgnoreData
    \/ ResetFlags \/ WriteLength \/ WriteData \/ Publish

----------------------------------------------------------------------------
(* The thread that collects the feedback of t: _collect_fbk_loop().        *)

\* The entry of input_shmem_list the thread is at: a block and a flag of it.
InLoop(t, l) == at[t] = l /\ tg_idx[t] <= Len(input_shmem_list[t])
Here(t) == input_shmem_list[t][tg_idx[t]]
GotoC(t, l) == at' = [at EXCEPT ![t] = l]
NextSource(t) == GotoC(t, "status") /\ tg_idx' = [tg_idx EXCEPT ![t] = @ + 1]

Begin(t) ==
    /\ at[t] = "begin"
    /\ exited' = [exited EXCEPT ![t] = FALSE]
    /\ GotoC(t, "map")
    /\ UNCHANGED <<config, block, content, up, stopAsked, finished, ready, tg_idx, input_shmem_list, read,
                   items, forwarder, sending, made, history>>

\* _map_input_shmem(): a source that is not there yet makes it start again
\* from the first one; what was mapped stays in the list.
MapSource(t) ==
    /\ at[t] = "map" /\ tg_idx[t] <= Len(fbk_sources[t])
    /\ tg_idx[t] = 1 => Len(input_shmem_list[t]) + Len(fbk_sources[t]) <= MaxMapped
    /\ LET s == fbk_sources[t][tg_idx[t]] IN
       IF block[s.of] = "mapped"
       THEN /\ input_shmem_list' = [input_shmem_list EXCEPT ![t] = Append(@, s)]
            /\ tg_idx' = [tg_idx EXCEPT ![t] = @ + 1]
       ELSE /\ tg_idx' = [tg_idx EXCEPT ![t] = 1]
            /\ UNCHANGED input_shmem_list
    /\ UNCHANGED <<config, block, content, up, events, ready, at, read, items, forwarder, sending, made,
                   history>>

Mapped(t) ==
    /\ at[t] = "map" /\ fbk_sources[t] # <<>> /\ tg_idx[t] > Len(fbk_sources[t])
    /\ GotoC(t, "loop")
    /\ ready' = [ready EXCEPT ![t] = TRUE]
    /\ UNCHANGED <<config, block, content, up, events, tg_idx, input_shmem_list, read, items, forwarder,
                   sending, made, history>>

\* _map_timeout is over; a target without sources always comes to that.
GiveUp(t) ==
    /\ at[t] = "map" /\ tg_idx[t] = 1
    /\ GotoC(t, "ended")
    /\ exited' = [exited EXCEPT ![t] = TRUE]
    /\ UNCHANGED <<config, block, content, up, stopAsked, finished, ready, tg_idx, input_shmem_list, read,
                   items, forwarder, sending, made, history>>

\* The variant ends without saying so.
LeaveSilently(t) ==
    /\ at[t] = "loop" /\ stopAsked[t]
    /\ GotoC(t, "ended")
    /\ UNCHANGED <<config, block, content, up, events, ready, tg_idx, input_shmem_list, read, items,
                   forwarder, sending, made, history>>

LeaveLoop(t) ==
    /\ at[t] = "loop" /\ stopAsked[t]
    /\ GotoC(t, "ended")
    /\ exited' = [exited EXCEPT ![t] = TRUE]
    /\ UNCHANGED <<config, block, content, up, stopAsked, finished, ready, tg_idx, input_shmem_list, read,
                   items, forwarder, sending, made, history>>

\* One of the sources has produced something.
Wake(t) ==
    /\ at[t] = "loop" /\ ~stopAsked[t]
    /\ \E n \in DOMAIN input_shmem_list[t] : status[input_shmem_list[t][n].of] = 1
    /\ GotoC(t, "status") /\ tg_idx' = [tg_idx EXCEPT ![t] = 1]
    /\ items' = [items EXCEPT ![t] = 0]
    /\ UNCHANGED <<config, block, content, up, events, ready, input_shmem_list, read, forwarder, sending,
                   made, history>>

\* The status and the flag are read one after the other.
ReadStatus(t) ==
    /\ InLoop(t, "status")
    /\ IF status[Here(t).of] = 0 THEN NextSource(t) /\ UNCHANGED noticed
       ELSE /\ GotoC(t, "flag") /\ UNCHANGED tg_idx
            /\ noticed' = [noticed EXCEPT ![t] = Len(sent[Here(t).of])]
    /\ UNCHANGED <<config, block, content, up, events, ready, input_shmem_list, read, items, forwarder,
                   sending, made, sent, got>>

\* The variant does not look at the flag.
NeverRead(t) == FALSE
AlreadyRead(t) == Flag(Here(t).of, Here(t).idx) = 1

ReadFlag(t) ==
    /\ InLoop(t, "flag")
    /\ IF AlreadyRead(t) THEN NextSource(t) ELSE GotoC(t, "len") /\ UNCHANGED tg_idx
    /\ UNCHANGED <<config, block, content, up, events, ready, input_shmem_list, read, items, forwarder,
                   sending, made, history>>

ReadLength(t) ==
    /\ InLoop(t, "len")
    /\ read' = [read EXCEPT ![t] = [len |-> dlen[Here(t).of], body |-> @.body]]
    /\ GotoC(t, "body")
    /\ UNCHANGED <<config, block, content, up, events, ready, tg_idx, input_shmem_list, items, forwarder,
                   sending, made, history>>

ReadData(t) ==
    /\ InLoop(t, "body")
    /\ read' = [read EXCEPT ![t] = [len |-> @.len, body |-> data[Here(t).of]]]
    /\ GotoC(t, "collect")
    /\ UNCHANGED <<config, block, content, up, events, ready, tg_idx, input_shmem_list, items, forwarder,
                   sending, made, history>>

Reading(t) == [noticed |-> noticed[t], len |-> read[t].len, body |-> read[t].body]

\* The feedback is attributed to fbk_sources[tg_idx], whatever was mapped.
Collect(t) ==
    /\ InLoop(t, "collect") /\ tg_idx[t] <= Len(fbk_sources[t])
    /\ got' = [got EXCEPT ![t][tg_idx[t]] = Append(@, Reading(t))]
    /\ items' = [items EXCEPT ![t] = @ + 1]
    /\ GotoC(t, "ack")
    /\ UNCHANGED <<config, block, content, up, events, ready, tg_idx, input_shmem_list, read, forwarder,
                   sending, made, sent, noticed>>

\* IndexError: the thread is dead, and _fbk_collector_exit_event not set.
Fail(t) ==
    /\ InLoop(t, "collect") /\ tg_idx[t] > Len(fbk_sources[t])
    /\ GotoC(t, "dead")
    /\ UNCHANGED <<config, block, content, up, events, ready, tg_idx, input_shmem_list, read, items,
                   forwarder, sending, made, history>>

Acknowledge(t) ==
    /\ InLoop(t, "ack")
    /\ SetFlags(Here(t).of, {Here(t).idx}, 1)
    /\ NextSource(t)
    /\ UNCHANGED <<config, block, status, dlen, up, events, ready, input_shmem_list, read, items, forwarder,
                   sending, made, history>>

EndPass(t) ==
    /\ at[t] = "status" /\ tg_idx[t] > Len(input_shmem_list[t])
    /\ queue' = [queue EXCEPT ![t] = IF setup.control[t] = <<>> THEN @ ELSE @ + items[t]]
    /\ GotoC(t, "loop")
    /\ UNCHANGED <<config, block, content, up, events, ready, tg_idx, input_shmem_list, read, items, fwd,
                   sending, made, history>>

Collecting(t) ==
    \/ Begin(t) \/ MapSource(t) \/ Mapped(t) \/ LeaveLoop(t) \/ Wake(t)
    \/ ReadStatus(t) \/ ReadFlag(t) \/ ReadLength(t) \/ ReadData(t) \/ Collect(t)
    \/ Fail(t) \/ Acknowledge(t) \/ EndPass(t)

----------------------------------------------------------------------------
(* The thread that forwards: _forward_data(). Each target that t controls  *)
(* is sent all that was in the queue, before the next one.                 *)

TakeQueue(t) ==
    /\ up[t] # "new" /\ ~stopAsked[t] /\ fwd[t].tgs = <<>> /\ queue[t] > 0
    /\ fwd' = [fwd EXCEPT ![t] = [tgs |-> setup.control[t], left |-> queue[t], size |-> queue[t]]]
    /\ queue' = [queue EXCEPT ![t] = 0]
    /\ UNCHANGED <<config, block, content, up, events, ready, collector, sending, made, history>>

\* A target that is not ready is only reported.
Forward(t) ==
    /\ fwd[t].tgs # <<>> /\ sender = None
    /\ fwd' = [fwd EXCEPT ![t] =
                IF fwd[t].left > 1 THEN [fwd[t] EXCEPT !.left = @ - 1]
                ELSE [fwd[t] EXCEPT !.tgs = Tail(@), !.left = fwd[t].size]]
    /\ IF ready[Head(fwd[t].tgs)] THEN Enter(t, Head(fwd[t].tgs), FALSE) ELSE UNCHANGED sending
    /\ UNCHANGED <<config, block, content, up, events, ready, collector, queue, made, history>>

Next ==
    \/ AddFeedbackSource \/ Sending
    \/ \E t \in Targets : Start(t) \/ AskStop(t) \/ SeeExit(t) \/ Close(t) \/ FmkSends(t)
    \/ \E t \in Targets : Collecting(t) \/ GiveUp(t) \/ TakeQueue(t) \/ Forward(t)

\* The threads run and so does the framework that stops the targets; the clock
\* makes the mapping give up when it does not advance any more.
Fairness ==
    /\ WF_vars(Sending)
    /\ \A t \in Targets :
        /\ WF_vars(Collecting(t) \/ GiveUp(t))
        /\ WF_vars(SeeExit(t) \/ Close(t))

Spec == Init /\ [][Next]_vars
FairSpec == Spec /\ Fairness
----------------------------------------------------------------------------
(* Properties.                                                             *)

Source == [of : Targets, idx : Nat]
Data == [len : Nat, body : Nat]
Readings == [noticed : Nat, len : Nat, body : Nat]
Task == [tgs : Seq(Targets), left : Nat, size : Nat]

ConfigTypes ==
    /\ setup \in Setups /\ calls \in Nat \ {0}
    /\ fbk_sources \in [Targets -> Seq(Source)] /\ consumers \in [Targets -> Nat]
BlockTypes ==
    /\ block \in [Targets -> {"absent", "mapped", "closed"}]
    /\ status \in [Targets -> {0, 1}] /\ flags \in [Targets -> [0..MaxConsumer - 1 -> {0, 1}]]
    /\ dlen \in [Targets -> Nat] /\ data \in [Targets -> Nat]
FrameworkTypes ==
    /\ up \in [Targets -> {"new", "up", "stopping", "exited", "stopped"}]
    /\ stopAsked \in [Targets -> BOOLEAN] /\ exited \in [Targets -> BOOLEAN]
    /\ finished \in [Targets -> BOOLEAN] /\ ready \in [Targets -> BOOLEAN]
CollectorTypes ==
    /\ at \in [Targets -> {"none", "begin", "map", "loop", "status", "flag", "len", "body",
                           "collect", "ack", "ended", "dead"}]
    /\ tg_idx \in [Targets -> Nat \ {0}] /\ input_shmem_list \in [Targets -> Seq(Source)]
    /\ read \in [Targets -> Data] /\ items \in [Targets -> Nat]
ForwarderTypes == queue \in [Targets -> Nat] /\ fwd \in [Targets -> Task]
SendingTypes ==
    /\ sender \in Targets \cup {Fmk, None} /\ to \in Targets \cup {None} /\ tooLong \in BOOLEAN
    /\ pc \in {"free", "clear", "check", "wait", "flags", "len", "body", "publish"}
    /\ made \in Nat
HistoryTypes ==
    /\ sent \in [Targets -> Seq(Nat)] /\ got \in [Targets -> Seq(Seq(Readings))]
    /\ noticed \in [Targets -> Nat]

TypeOK ==
    /\ ConfigTypes /\ BlockTypes /\ FrameworkTypes /\ CollectorTypes /\ ForwarderTypes
    /\ SendingTypes /\ HistoryTypes

\* No flag of the block lies in its data.
Fits(p) == consumers[p] <= MaxConsumer
\* No source was mapped twice.
MappedOnce(t) ==
    \A n \in DOMAIN input_shmem_list[t] :
        n \in DOMAIN fbk_sources[t] /\ input_shmem_list[t][n] = fbk_sources[t][n]

\* The last data of source i of t is not read, or it is but not acknowledged.
Unread(t, i) ==
    /\ i \in DOMAIN fbk_sources[t] /\ up[fbk_sources[t][i].of] # "new"
    /\ Flag(fbk_sources[t][i].of, fbk_sources[t][i].idx) = 0
Acknowledging(t, i) == InLoop(t, "ack") /\ Here(t) = fbk_sources[t][i]
ReadAs(s, n) == {s[m] : m \in {n - 1, n} \ {0}}

\* The n-th reading r of a block to which the data s were written. A consumer that saw
\* the status of the n-th data reads that data. One that saw the status of the data
\* before, and its own flag after the sender had lowered it, is early: what it reads is
\* made of both, and the n-th data is then not read again, nor perhaps at all.
ReadAsNoticed(r, s, n) ==
    IF r.noticed = n THEN r.len = s[n] /\ r.body = s[n]
    ELSE r.noticed = n - 1 /\ {r.len, r.body} \subseteq ReadAs(s, n)

\* Each data that is written to a block is answered by one reading by each consumer,
\* before the next one is written, whatever the moment at which the consumers look at
\* the block. That reading gives the data, whole, if its status was seen. Otherwise the
\* consumer is at most one data late: it saw the status of the data before, for the
\* status and the flags are neither reset nor read together, and what it reads is made
\* of these two data only (debug.py:193-205, 291-314). A consumer that had to try twice
\* to map its sources mapped some of them twice, and takes what comes from one for the
\* data of another.
ReadOnceNoticed ==
    \A t \in Targets : MappedOnce(t) => \A i \in DOMAIN fbk_sources[t] :
        LET s == sent[fbk_sources[t][i].of] IN
        Fits(fbk_sources[t][i].of) =>
            /\ Len(got[t][i]) = Len(s) - (IF Unread(t, i) /\ ~Acknowledging(t, i) THEN 1 ELSE 0)
            /\ \A n \in DOMAIN got[t][i] : ReadAsNoticed(got[t][i][n], s, n)

\* A block that was closed and unlinked is not written any more, although the
\* forwarding threads of other targets may be sending while the framework
\* stops (debug.py:124-140, 276-280).
NoUseAfterClose ==
    pc \in {"wait", "flags", "len", "body", "publish"} => block[to] = "mapped"

\* The thread of t died, or the event its stop() waits for was left cleared.
Stranded(t) == at[t] = "dead" \/ (~finished[t] /\ to # t)

\* The numbers of the sources t may have.
SourceNumbers(t) == UNION {1..Cardinality({k \in DOMAIN st.links : st.links[k][1] = t}) : st \in Setups}

\* What is sent to a target is acknowledged by each of its consumers that is waiting in
\* its loop, unless that one is stopped (debug.py:184-212) or its thread dies.
SentIsRead ==
    \A t \in Targets : \A i \in SourceNumbers(t) :
        Unread(t, i) /\ at[t] = "loop" ~> (Unread(t, i) => stopAsked[t] \/ Stranded(t))

\* stop() returns (debug.py:124-140) whatever the threads are doing, unless the
\* collecting thread died, mapping the same source twice, or send_data()
\* rejected a data that is too long: nobody sets their events then.
StopReturns == \A t \in Targets : up[t] = "stopping" ~> up[t] = "stopped" \/ Stranded(t)
============================================================================
