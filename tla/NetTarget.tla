----------------------------- MODULE NetTarget -----------------------------
(***************************************************************************)
(* targets/network.py: the network target, as the framework thread uses it *)
(* through Target.send_(multiple_)data_sync. Readiness is the equality of  *)
(* two counters: the feedback collectors to launch in a round of sending   *)
(* and those that finished. The framework thread opens the interfaces in   *)
(* the order of their registration, the thread of each server-mode         *)
(* interface serves the clients that connect, and each sending starts a    *)
(* collector thread that ends by counting itself. stop() joins no thread.  *)
(* Not modelled: the additional feedback interfaces and the bytes.         *)
(***************************************************************************)
EXTENDS Integers, Sequences, SequencesExt

CONSTANTS
    Orders,     \* the targets: sequences of interfaces (_semantics_to_intf)
    Streams,    \* interfaces in server mode over SOCK_STREAM
    Raws,       \* those in server mode over SOCK_DGRAM or SOCK_RAW
    Hold,       \* those with hold_connection
    KeepFirst,  \* those with keep_first_client
    MaxRounds, MaxConns, MaxLives,  \* bounds: sendings, clients, starts
    Main,       \* the framework thread
    None        \* no thread, no interface

Servers == Streams \cup Raws
Intfs == UNION {ToSet(o) : o \in Orders}
Clients == Intfs \ Servers
Threads == Servers \X (1..MaxLives)

ASSUME NetTargetAssumption ==
    /\ Orders \subseteq Seq(Intfs) /\ Servers \subseteq Intfs /\ Streams \cap Raws = {}
    /\ MaxRounds \in Nat /\ MaxConns \in Nat /\ MaxLives \in Nat
    /\ Main \notin Threads /\ None \notin {Main} \cup Threads \cup Servers

Kinds == {"fmk", "user", "flush"}  \* from_fmk, from user code, no data at all

VARIABLES
    order,     \* the target
    life,      \* how many times the target was started
    up,        \* between start() and stop()
    toLaunch,  \* _fbk_collector_to_launch_cpt
    finished,  \* _fbk_collector_finished_cpt
    running,   \* collector threads that have not counted themselves yet
    lock,      \* holder of _network_send_lock
    reg,       \* what a thread in the middle of an unlocked += or -= has read
    pc,        \* where the framework thread is
    round,     \* number of the sending
    kind,      \* its kind
    carry,     \* the interfaces that have data in it
    at,        \* the next interface to open
    socks,     \* client interfaces opened in it, in their order
    via,       \* the held client it is sending to, or None for those
    share,     \* _server_thread_share: the arguments of the last sending
    held,      \* server interfaces with a client in _last_client_hp2sock
    wake,      \* threads of the Raws interfaces whose sending_event is set
    pcS,       \* where the thread of each server interface is
    args,      \* the arguments it has read
    conns,     \* the clients it has accepted
    trouble,   \* history: what went wrong in the last round of the framework
    served     \* history: the server interfaces that launched a collector in it

counters == <<toLaunch, finished, running, reg>>
sender == <<pc, round, kind, carry, at, socks, via>>
threads == <<pcS, args, conns>>
servers == <<share, held, wake>>
history == <<trouble, served>>
vars == <<order, life, up, lock, counters, sender, threads, servers, history>>

NoArgs == [round |-> 0, kind |-> "user", data |-> FALSE]
Args == [round : 0..MaxRounds, kind : Kinds, data : BOOLEAN]
FromFmk(k) == k # "user"

TypeOK ==
    /\ order \in Orders /\ life \in 0..MaxLives /\ up \in BOOLEAN
    /\ toLaunch \in Int /\ finished \in Int /\ running \in Nat
    /\ lock \in {None, Main} \cup Threads
    /\ reg \in [{Main} \cup Threads -> Int]
    /\ pc \in {"idle", "before", "open", "write", "lock", "send", "drop", "wait",
               "asserted"}
    /\ round \in 0..MaxRounds /\ kind \in Kinds
    /\ carry \subseteq Intfs /\ at \in 1..Len(order) + 1 /\ socks \in Seq(Clients)
    /\ via \in Servers \cup {None}
    /\ share \in [Servers -> Args] /\ held \subseteq Servers /\ wake \subseteq Threads
    /\ pcS \in [Threads -> {"none", "accept", "recv", "lock", "send", "drop", "dead"}]
    /\ args \in [Threads -> Args] /\ conns \in [Threads -> 0..MaxConns]
    /\ trouble \subseteq {"refused", "unable", "untyped"} /\ served \subseteq Servers

Init ==
    /\ order \in Orders /\ life = 0 /\ up = FALSE /\ lock = None
    /\ toLaunch = 0 /\ finished = 0 /\ running = 0
    /\ reg = [p \in {Main} \cup Threads |-> 0]
    /\ pc = "idle" /\ round = 0 /\ kind = "user" /\ carry = {} /\ at = 1 /\ socks = <<>>
    /\ via = None
    /\ share = [s \in Servers |-> NoArgs] /\ held = {} /\ wake = {}
    /\ pcS = [t \in Threads |-> "none"] /\ args = [t \in Threads |-> NoArgs]
    /\ conns = [t \in Threads |-> 0]
    /\ trouble = {} /\ served = {}

Goto(s) == pc' = s
GotoS(t, s) == pcS' = [pcS EXCEPT ![t] = s]
Forget(p) == reg' = [reg EXCEPT ![p] = 0]
-----------------------------------------------------------------------------
(* start() and stop().                                                      *)

Start ==
    /\ pc = "idle" /\ ~up /\ life < MaxLives
    /\ life' = life + 1 /\ up' = TRUE
    /\ toLaunch' = 0 /\ finished' = 0
    /\ share' = [s \in Servers |-> NoArgs] /\ held' = {}
    /\ trouble' = {} /\ served' = {}
    /\ UNCHANGED <<order, lock, running, reg, sender, threads, wake>>

\* The threads of the Raws interfaces are woken up, the sockets closed.
Stop ==
    /\ pc = "idle" /\ up
    /\ up' = FALSE /\ wake' = wake \cup {t \in Threads : t[1] \in Raws /\ pcS[t] # "none"}
    /\ held' = {}
    /\ UNCHANGED <<order, life, lock, counters, sender, threads, share, history>>
-----------------------------------------------------------------------------
(* The framework thread.                                                    *)

\* is_target_ready_for_new_data; the variant takes a lack for readiness.
ReadyAtMost == toLaunch >= finished
Ready == toLaunch = finished

\* send_(multiple_)data_sync, or collect_unsolicited_feedback, which wants the
\* feedback of every interface. When the target is not ready nothing happens.
Send(k, dest) ==
    /\ pc = "idle" /\ up /\ round < MaxRounds
    /\ Ready
    /\ dest \subseteq ToSet(order) /\ (dest # {} <=> k # "flush")
    /\ Goto("before") /\ kind' = k /\ carry' = dest /\ round' = round + 1
    /\ UNCHANGED <<order, life, up, lock, counters, at, socks, via, threads, servers, history>>

\* _before_sending_data; a collector may have finished since.
Before ==
    /\ pc = "before"
    /\ IF FromFmk(kind) /\ toLaunch # finished
       THEN Goto("asserted") /\ UNCHANGED <<toLaunch, finished, history>>
       ELSE /\ Goto("open")
            /\ IF FromFmk(kind)
               THEN toLaunch' = 0 /\ finished' = 0 /\ trouble' = {} /\ served' = {}
               ELSE UNCHANGED <<toLaunch, finished, history>>
    /\ at' = 1 /\ socks' = <<>>
    /\ UNCHANGED <<order, life, up, lock, running, reg, round, kind, carry, via, threads, servers>>

Opening(i) == pc = "open" /\ at <= Len(order) /\ i = order[at]
NextIntf == at' = at + 1

\* _connect_to_target
Connect(i) ==
    /\ Opening(i) /\ i \in Clients
    /\ socks' = Append(socks, i)
    /\ NextIntf /\ UNCHANGED <<order, life, up, lock, counters, pc, round, kind, carry, via,
                               threads, servers, history>>

Refused(i) ==
    /\ Opening(i) /\ i \in Clients
    /\ trouble' = trouble \cup {"refused"}
    /\ NextIntf /\ UNCHANGED <<order, life, up, lock, counters, pc, round, kind, carry, socks, via,
                               threads, servers, served>>

Bound(i) == pcS[<<i, life>>] # "none"
ArgsOf(i) == [round |-> round, kind |-> kind, data |-> i \in carry]

\* _listen_to_target for the first time: bind() fails, or a thread is started.
BindFails(i) ==
    /\ Opening(i) /\ i \in Servers /\ ~Bound(i)
    /\ NextIntf /\ UNCHANGED <<order, life, up, lock, counters, pc, round, kind, carry, socks, via,
                               threads, servers, history>>

Listen(i) ==
    /\ Opening(i) /\ i \in Servers /\ ~Bound(i)
    /\ share' = [share EXCEPT ![i] = ArgsOf(i)]
    /\ GotoS(<<i, life>>, "accept")
    /\ wake' = wake \cup {t \in {<<i, life>>} : i \in Raws}
    /\ held' = held \cup ({i} \cap Raws)
    /\ NextIntf /\ UNCHANGED <<order, life, up, lock, counters, pc, round, kind, carry, socks, via,
                               args, conns, history>>

\* The interface is already served: with hold_connection the thread of a Raws
\* interface is woken up, and the framework thread itself sends to the client
\* held by a Streams interface.
ListenAgain(i) ==
    /\ Opening(i) /\ i \in Servers /\ Bound(i)
    /\ share' = [share EXCEPT ![i] = ArgsOf(i)]
    /\ wake' = wake \cup {t \in {<<i, life>>} : i \in Raws \cap Hold \cap held}
    /\ IF i \in Streams \cap Hold \cap held THEN via' = i /\ Goto("lock")
                                           ELSE UNCHANGED <<via, pc>>
    /\ NextIntf /\ UNCHANGED <<order, life, up, lock, counters, round, kind, carry, socks, threads, held,
                               history>>

\* _fbk_collector_to_launch_cpt += 1, read and written without a lock.
CountRead ==
    /\ pc = "open" /\ at > Len(order)
    /\ IF FromFmk(kind) THEN Goto("write") /\ reg' = [reg EXCEPT ![Main] = toLaunch]
                        ELSE Goto("lock") /\ UNCHANGED reg
    /\ UNCHANGED <<order, life, up, lock, toLaunch, finished, running, round, kind, carry, at, socks,
                   via, threads, servers, history>>

CountWrite ==
    /\ pc = "write"
    /\ toLaunch' = reg[Main] + 1
    /\ Goto("lock") /\ Forget(Main)
    /\ UNCHANGED <<order, life, up, lock, finished, running, round, kind, carry, at, socks, via,
                   threads, servers, history>>

NothingToSend ==
    /\ pc = "lock" /\ via = None /\ socks = <<>>
    /\ Goto("wait")
    /\ UNCHANGED <<order, life, up, lock, counters, round, kind, carry, at, socks, via, threads, servers,
                   history>>

\* with self._network_send_lock
TakeLock ==
    /\ pc = "lock" /\ (via # None \/ socks # <<>>)
    /\ lock = None /\ lock' = Main
    /\ Goto("send")
    /\ UNCHANGED <<order, life, up, counters, round, kind, carry, at, socks, via, threads, servers,
                   history>>
-----------------------------------------------------------------------------
(* _send_data: what it does with the sockets it is given, ds telling for each of
   them whether there is data for it.                                          *)

CollectOnly(ds) == ~Head(ds)  \* whatever the other sockets have to send

\* The data is sent and, for the framework, a collector started.
Launches(ds, k, s) ==
    /\ CollectOnly(ds) => FromFmk(k)
    /\ running' = running + (IF FromFmk(k) THEN 1 ELSE 0)
    /\ served' = served \cup (IF FromFmk(k) THEN {s} \cap Servers ELSE {})
    /\ UNCHANGED <<reg, trouble>>

\* It raises: no socket is writable, there is nothing for one that is (len(None)),
\* or data from user code goes to interfaces the first of which has none.
Raises(ds, k) ==
    /\ \/ ~CollectOnly(ds) /\ trouble' = trouble \cup {"unable"}
       \/ ~CollectOnly(ds) /\ FALSE \in ToSet(ds) /\ trouble' = trouble \cup {"untyped"}
       \/ CollectOnly(ds) /\ ~FromFmk(k) /\ trouble' = trouble
    /\ UNCHANGED <<running, reg, served>>

\* The connection is broken: the counter is decremented before it raises.
Breaks(p, ds, k) ==
    /\ ~CollectOnly(ds)
    /\ reg' = IF FromFmk(k) THEN [reg EXCEPT ![p] = toLaunch] ELSE reg
    /\ UNCHANGED <<running, trouble, served>>

\* The variant forgets to give back what it took.
Kept(p) == toLaunch' = reg[p]
GivenBack(p) == toLaunch' = reg[p] - 1

\* The variant leaves the lock taken when an exception goes through it.
KeepLock == UNCHANGED lock
Unlock == lock' = None

MainData == IF via # None THEN <<share[via].data>> ELSE [j \in 1..Len(socks) |-> socks[j] \in carry]

\* What follows a sending of the framework thread: the next interface, or the
\* wait for the clients of the server-mode ones.
MainSends ==
    /\ pc = "send" /\ Unlock
    /\ \/ /\ Launches(MainData, kind, via)
          /\ via' = None /\ Goto(IF via # None THEN "open" ELSE "wait")
       \/ Raises(MainData, kind) /\ via' = None /\ Goto("idle")
    /\ UNCHANGED <<order, life, up, toLaunch, finished, round, kind, carry, at, socks, threads, servers>>

MainBreaks ==
    /\ pc = "send" /\ Breaks(Main, MainData, kind)
    /\ IF FromFmk(kind) THEN Goto("drop") /\ UNCHANGED <<lock, via>>
                        ELSE Goto("idle") /\ Unlock /\ via' = None
    /\ UNCHANGED <<order, life, up, toLaunch, finished, round, kind, carry, at, socks, threads, servers>>

MainDrops ==
    /\ pc = "drop" /\ GivenBack(Main)
    /\ Unlock /\ via' = None /\ Goto("idle") /\ Forget(Main)
    /\ UNCHANGED <<order, life, up, finished, running, round, kind, carry, at, socks, threads,
                   servers, history>>

\* sending_delay has elapsed, or the assertion of _before_sending_data fails.
Return ==
    /\ pc \in {"wait", "asserted"}
    /\ Goto("idle")
    /\ UNCHANGED <<order, life, up, lock, counters, round, kind, carry, at, socks, via, threads, servers,
                   history>>
-----------------------------------------------------------------------------
(* The thread of a server-mode interface s, started in life l: t = <<s, l>>. *)

\* _server_main: a client connects. With keep_first_client the later ones are
\* left alone.
Accept(t) ==
    /\ t[1] \in Streams /\ pcS[t] = "accept" /\ up /\ t[2] = life
    /\ conns[t] < MaxConns
    /\ t[1] \in KeepFirst => conns[t] = 0
    /\ conns' = [conns EXCEPT ![t] = @ + 1]
    /\ args' = [args EXCEPT ![t] = share[t[1]]]
    /\ GotoS(t, "lock")
    /\ UNCHANGED <<order, life, up, lock, counters, sender, servers, history>>

\* stop_event is set: after a restart the thread would not see it any more.
SeesStop(t) ==
    /\ t[1] \in Streams /\ pcS[t] = "accept" /\ ~up
    /\ GotoS(t, "dead")
    /\ UNCHANGED <<order, life, up, lock, counters, sender, args, conns, servers, history>>

\* _raw_server_main. The socket of an earlier life is closed: using it raises.
Wake(t) ==
    /\ t[1] \in Raws /\ pcS[t] = "accept" /\ t \in wake
    /\ wake' = wake \ {t}
    /\ IF up /\ t[2] = life
       THEN GotoS(t, "recv") /\ args' = [args EXCEPT ![t] = share[t[1]]]
       ELSE GotoS(t, "dead") /\ UNCHANGED args
    /\ UNCHANGED <<order, life, up, lock, counters, sender, conns, share, held, history>>

\* The address of the client is known, not needed, or received now.
Receive(t) ==
    /\ pcS[t] = "recv" /\ conns[t] < MaxConns
    /\ conns' = IF args[t].data THEN [conns EXCEPT ![t] = IF @ = 0 THEN 1 ELSE @] ELSE conns
    /\ GotoS(t, "lock")
    /\ UNCHANGED <<order, life, up, lock, counters, sender, args, servers, history>>

\* socket.timeout: the data is never sent.
ReceiveTimesOut(t) ==
    /\ pcS[t] = "recv" /\ args[t].data /\ conns[t] = 0
    /\ GotoS(t, "accept")
    /\ UNCHANGED <<order, life, up, lock, counters, sender, args, conns, servers, history>>

\* _handle_target_connection; stop() has set the dictionary of held clients to
\* None.
Handle(t) ==
    /\ pcS[t] = "lock" /\ lock = None
    /\ IF t[1] \in Hold /\ ~up
       THEN GotoS(t, "dead") /\ UNCHANGED <<lock, held>>
       ELSE GotoS(t, "send") /\ lock' = t /\ held' = held \cup ({t[1]} \cap Hold)
    /\ UNCHANGED <<order, life, up, counters, sender, args, conns, share, wake, history>>

\* An exception ends the thread, and the interface is served no more.
ServerSends(t) ==
    /\ pcS[t] = "send" /\ Unlock
    /\ \/ Launches(<<args[t].data>>, args[t].kind, t[1]) /\ GotoS(t, "accept")
       \/ Raises(<<args[t].data>>, args[t].kind) /\ GotoS(t, "dead")
    /\ args' = [args EXCEPT ![t] = NoArgs]
    /\ UNCHANGED <<order, life, up, toLaunch, finished, sender, conns, servers>>

ServerBreaks(t) ==
    /\ pcS[t] = "send" /\ Breaks(t, <<args[t].data>>, args[t].kind)
    /\ IF FromFmk(args[t].kind) THEN GotoS(t, "drop") /\ UNCHANGED lock
                                ELSE GotoS(t, "dead") /\ Unlock
    /\ UNCHANGED <<order, life, up, toLaunch, finished, sender, args, conns, servers>>

ServerDrops(t) ==
    /\ pcS[t] = "drop" /\ GivenBack(t)
    /\ Unlock /\ GotoS(t, "dead") /\ Forget(t)
    /\ UNCHANGED <<order, life, up, finished, running, sender, args, conns, servers, history>>

ServerCode(t) ==
    \/ SeesStop(t) \/ Wake(t) \/ Receive(t) \/ ReceiveTimesOut(t) \/ Handle(t)
    \/ ServerSends(t) \/ ServerBreaks(t) \/ ServerDrops(t)
-----------------------------------------------------------------------------
(* The collector threads: _collect_feedback_from.                           *)

\* The held client s has closed its connection.
Obsolete(s) ==
    /\ running > 0 /\ s \in held
    /\ held' = held \ {s}
    /\ UNCHANGED <<order, life, up, lock, counters, sender, threads, share, wake, history>>

\* The time slot is over or something was read: _feedback_complete.
Complete ==
    /\ running > 0
    /\ running' = running - 1 /\ finished' = finished + 1
    /\ UNCHANGED <<order, life, up, lock, toLaunch, reg, sender, threads, servers, history>>

Opens == \E i \in Intfs : Connect(i) \/ Refused(i) \/ BindFails(i) \/ Listen(i) \/ ListenAgain(i)
SenderCode ==
    \/ Before \/ Opens \/ CountRead \/ CountWrite \/ NothingToSend \/ TakeLock
    \/ MainSends \/ MainBreaks \/ MainDrops \/ Return

Next ==
    \/ Start \/ Stop \/ SenderCode \/ Complete
    \/ \E k \in Kinds, dest \in SUBSET Intfs : Send(k, dest)
    \/ \E t \in Threads : Accept(t) \/ ServerCode(t)
    \/ \E s \in Servers : Obsolete(s)

Spec == Init /\ [][Next]_vars

\* The framework thread is scheduled, and so is a thread that holds the lock, which
\* is not always taken by the others; calls to the sockets have timeouts. Users,
\* clients and collectors do what they want.
Holder == \E t \in Threads : lock = t /\ ServerCode(t)
Fairness == WF_vars(SenderCode) /\ SF_vars(TakeLock) /\ WF_vars(Holder)

FairSpec == Spec /\ Fairness
-----------------------------------------------------------------------------
(* Properties.                                                              *)

\* The assertion of _before_sending_data, after the same test was made by
\* send_data_sync, only fails when a surplus collector finishes in between: the
\* counters are compared with == and only a new sending resets them, so that the
\* target is then lost until its restart, there is nothing to wait for.
AssertFailsOnlyIfLost == pc = "asserted" => finished > toLaunch

\* A target that stays not ready although no collector runs has a reason: a
\* connection was refused, the system could not send, an interface was opened
\* that the data did not go to, or the data only goes to clients that have to
\* connect and none did. A broken connection alone does not make it unready.
NotReadyIsExplained ==
    pc = "idle" /\ running = 0 /\ finished < toLaunch
    => trouble # {} \/ (socks = <<>> /\ served = {})

\* The framework thread comes back from every sending, although server threads
\* compete for the same lock and may die while they hold it.
SendReturns == pc # "idle" ~> pc = "idle"
=============================================================================
