-------------------------- MODULE NetTargetProofs --------------------------
(***************************************************************************)
(* Proofs about NetTarget, for any targets, any number of clients, starts  *)
(* and sendings: what the two unlocked counters behind                     *)
(* is_target_ready_for_new_data are worth.                                 *)
(*                                                                         *)
(* They rest on what the lock does protect: a thread that gives back what  *)
(* a broken connection took is the only one to do so, hence its delayed    *)
(* write never raises the counter (GivesBack), and only the framework      *)
(* thread adds to it, once in a round.                                     *)
(***************************************************************************)
EXTENDS NetTarget, TLAPS

\* A sending happens between start() and stop().
Started == (up => life >= 1) /\ (pc # "idle" => up)

\* _network_send_lock.
Locked ==
    /\ lock = Main <=> pc \in {"send", "drop"}
    /\ \A t \in Threads : lock = t <=> pcS[t] \in {"send", "drop"}

\* Where the steps of a round belong.
Placed ==
    /\ via # None => pc \in {"lock", "send", "drop"}
    /\ pc \in {"write", "drop"} => FromFmk(kind)

\* The write that follows a broken connection never raises the counter, and
\* the one that adds to it never lowers it, whatever was read before.
GivesBack ==
    /\ toLaunch <= 1
    /\ \A t \in Threads : pcS[t] = "drop" => reg[t] <= 1 /\ reg[t] - 1 <= toLaunch
    /\ pc = "drop" => reg[Main] <= 1 /\ reg[Main] - 1 <= toLaunch
    /\ pc = "write" => toLaunch <= reg[Main] /\ reg[Main] <= 0

\* Before its own sockets are used, a round of the framework expects nothing.
NotCountedYet ==
    FromFmk(kind) /\ (pc \in {"open", "write"} \/ via # None) => toLaunch <= 0

\* Readiness once checked can only be lost to a surplus of collectors.
StillReady ==
    /\ pc # "idle" /\ (~FromFmk(kind) \/ pc \in {"before", "asserted"}) => toLaunch <= finished
    /\ pc = "asserted" => toLaunch < finished

\* A collector that was launched is counted or will be.
Collected == finished >= 0 /\ (served # {} => finished + running >= 1)

\* Why a collector may be missing.
Explained == finished + running >= 1 \/ trouble # {} \/ (socks = <<>> /\ served = {})
Missing == toLaunch >= 1 => Explained \/ (FromFmk(kind) /\ pc \in {"lock", "send", "drop"})

IInv ==
    /\ TypeOK /\ Started
    /\ Locked /\ Placed /\ GivesBack /\ NotCountedYet /\ StillReady /\ Collected /\ Missing
-----------------------------------------------------------------------------
LEMMA OrderFacts ==
  ASSUME NEW o \in Orders
  PROVE  Len(o) \in Nat /\ \A i \in 1..Len(o) : o[i] \in Intfs
<1>1. o \in Seq(Intfs)  BY NetTargetAssumption
<1> QED BY <1>1

LEMMA InitIInv == Init => IInv
<1> SUFFICES ASSUME Init PROVE IInv  OBVIOUS
<1>1. NoArgs \in Args
  BY NetTargetAssumption DEF NoArgs, Args, Kinds
<1>2. TypeOK
  <2>1. /\ order \in Orders /\ life \in 0..MaxLives
        /\ toLaunch \in Int /\ finished \in Int /\ running \in Nat
    BY NetTargetAssumption DEF Init
  <2>4. reg \in [{Main} \cup Threads -> Int]  BY DEF Init
  <2>2. at \in 1..Len(order) + 1  BY <2>1, OrderFacts DEF Init
  <2>3. /\ round \in 0..MaxRounds /\ socks \in Seq(Clients)
        /\ share \in [Servers -> Args] /\ args \in [Threads -> Args]
        /\ conns \in [Threads -> 0..MaxConns]
    BY <1>1, NetTargetAssumption DEF Init
  <2> QED BY <2>1, <2>2, <2>3, <2>4 DEF Init, TypeOK, Kinds
<1>3. Started /\ Locked /\ Placed /\ GivesBack /\ NotCountedYet /\ StillReady /\ Collected /\ Missing
  BY NetTargetAssumption
  DEF Init, Started, Locked, Placed, GivesBack, NotCountedYet, StillReady, Collected, Missing, FromFmk
<1> QED BY <1>2, <1>3 DEF IInv

\* The parts of the invariant that are not the type of a variable.
Counts == Started /\ Locked /\ Placed /\ GivesBack /\ NotCountedYet /\ StillReady /\ Collected /\ Missing
-----------------------------------------------------------------------------
(* Types.                                                                   *)

LEMMA UserTypes ==
  ASSUME TypeOK,
         \/ Start \/ Stop \/ Complete
         \/ \E k \in Kinds, dest \in SUBSET Intfs : Send(k, dest)
         \/ \E s \in Servers : Obsolete(s)
  PROVE  TypeOK'
<1>1. NoArgs \in Args
  BY NetTargetAssumption DEF NoArgs, Args, Kinds
<1>2. CASE Start
  BY <1>1, <1>2, NetTargetAssumption DEF Start, TypeOK, sender, threads
<1>3. CASE Stop
  BY <1>3 DEF Stop, TypeOK, counters, sender, threads, history
<1>4. CASE Complete
  BY <1>4 DEF Complete, TypeOK, sender, threads, servers, history
<1>5. ASSUME NEW k \in Kinds, NEW dest \in SUBSET Intfs, Send(k, dest) PROVE TypeOK'
  BY <1>5, NetTargetAssumption
  DEF Send, TypeOK, Goto, counters, threads, servers, history
<1>6. ASSUME NEW s \in Servers, Obsolete(s) PROVE TypeOK'
  BY <1>6 DEF Obsolete, TypeOK, counters, sender, threads, history
<1> QED BY <1>2, <1>3, <1>4, <1>5, <1>6

LEMMA OpeningTypes ==
  ASSUME TypeOK, Started, Before \/ Opens \/ CountRead \/ CountWrite
  PROVE  TypeOK'
<1>1. order \in Orders /\ Len(order) \in Nat /\ \A j \in 1..Len(order) : order[j] \in Intfs
  BY OrderFacts DEF TypeOK
<1>2. ASSUME NEW i \in Intfs, Opening(i), NextIntf
      PROVE  at' \in 1..Len(order) + 1
  BY <1>1, <1>2 DEF Opening, NextIntf, TypeOK
<1>3. ASSUME NEW i \in Intfs PROVE ArgsOf(i) \in Args
  BY <1>3 DEF ArgsOf, Args, TypeOK
<1>4. CASE Before
  <2>1. /\ toLaunch' \in Int /\ finished' \in Int
        /\ trouble' \in {trouble, {}} /\ served' \in {served, {}}
        /\ pc' \in {"asserted", "open"} /\ at' = 1 /\ socks' = <<>>
    BY <1>4 DEF Before, TypeOK, Goto, history
  <2> QED BY <1>1, <1>4, <2>1 DEF Before, TypeOK, threads, servers
<1>5. ASSUME NEW i \in Intfs, Connect(i) PROVE TypeOK'
  BY <1>1, <1>2, <1>5 DEF Connect, TypeOK, counters, threads, servers, history
<1>6. ASSUME NEW i \in Intfs, Refused(i) PROVE TypeOK'
  BY <1>1, <1>2, <1>6 DEF Refused, TypeOK, counters, threads, servers
<1>7. ASSUME NEW i \in Intfs, BindFails(i) PROVE TypeOK'
  BY <1>1, <1>2, <1>7 DEF BindFails, TypeOK, counters, threads, servers, history
<1>8. ASSUME NEW i \in Servers, pc = "open" PROVE <<i, life>> \in Threads
  BY <1>8, NetTargetAssumption DEF Started, TypeOK, Threads
<1>9. ASSUME NEW i \in Intfs, Listen(i) PROVE TypeOK'
  <2>1. i \in Servers /\ <<i, life>> \in Threads
    BY <1>8, <1>9 DEF Listen, Opening
  <2>2. /\ pcS' \in [Threads -> {"none", "accept", "recv", "lock", "send", "drop", "dead"}]
        /\ wake' \subseteq Threads
        /\ share' \in [Servers -> Args] /\ held' \subseteq Servers
    BY <1>3, <1>9, <2>1 DEF Listen, GotoS, TypeOK, Servers
  <2>3. at' \in 1..Len(order) + 1  BY <1>2, <1>9 DEF Listen
  <2> QED BY <1>9, <2>2, <2>3 DEF Listen, TypeOK, counters, history
<1>10. ASSUME NEW i \in Intfs, ListenAgain(i) PROVE TypeOK'
  <2>1. i \in Servers /\ <<i, life>> \in Threads
    BY <1>8, <1>10 DEF ListenAgain, Opening
  <2>2. /\ wake' \subseteq Threads /\ share' \in [Servers -> Args]
        /\ via' \in Servers \cup {None} /\ pc' \in {pc, "lock"}
    BY <1>3, <1>10, <2>1 DEF ListenAgain, Goto, TypeOK
  <2>3. at' \in 1..Len(order) + 1  BY <1>2, <1>10 DEF ListenAgain
  <2> QED BY <1>10, <2>2, <2>3 DEF ListenAgain, TypeOK, counters, threads, history
<1>11. CASE CountRead
  BY <1>1, <1>11 DEF CountRead, Goto, TypeOK, threads, servers, history
<1>12. CASE CountWrite
  BY <1>1, <1>12 DEF CountWrite, Goto, Forget, TypeOK, threads, servers, history
<1> QED BY <1>4, <1>5, <1>6, <1>7, <1>9, <1>10, <1>11, <1>12 DEF Opens

\* _send_data only adds to what was launched and to what went wrong.
LEMMA SendDataTypes ==
  ASSUME TypeOK, NEW ds, NEW k, NEW s, Launches(ds, k, s) \/ Raises(ds, k)
  PROVE  /\ running' \in Nat /\ running' >= running /\ reg' = reg
         /\ trouble' \subseteq {"refused", "unable", "untyped"} /\ trouble \subseteq trouble'
         /\ served' \subseteq Servers
         /\ served' # served => running' = running + 1
<1>1. CASE Launches(ds, k, s)
  <2>1. CASE FromFmk(k)  BY <1>1, <2>1 DEF Launches, TypeOK
  <2>2. CASE ~FromFmk(k)  BY <1>1, <2>2 DEF Launches, TypeOK
  <2> QED BY <2>1, <2>2
<1>2. CASE Raises(ds, k)
  <2>1. trouble' \in {trouble, trouble \cup {"unable"}, trouble \cup {"untyped"}}
        /\ UNCHANGED <<running, reg, served>>
    BY <1>2 DEF Raises
  <2> QED BY <2>1 DEF TypeOK
<1> QED BY <1>1, <1>2

\* What explains a missing collector is not undone by _send_data.
LEMMA StaysExplained ==
  ASSUME TypeOK, Collected, NEW ds, NEW k, NEW s, Launches(ds, k, s) \/ Raises(ds, k),
         UNCHANGED <<finished, socks>>
  PROVE  Collected' /\ (Explained => Explained')
<1>1. running \in Nat /\ running' \in Nat /\ running' >= running
  BY SendDataTypes DEF TypeOK
<1>2. finished \in Int /\ finished' = finished /\ finished >= 0  BY DEF TypeOK, Collected
<1>3. trouble \subseteq trouble' /\ (served' # served => running' = running + 1)
  BY SendDataTypes
<1>4. finished + running >= 1 => finished' + running' >= 1
  <2>1. \A f \in Int, a, b \in Nat : b >= a /\ f + a >= 1 => f + b >= 1  OBVIOUS
  <2> QED BY <1>1, <1>2, <2>1
<1>5. served' # served => finished' + running' >= 1
  <2>1. \A f \in Int, a \in Nat : f >= 0 => f + (a + 1) >= 1  OBVIOUS
  <2> QED BY <1>1, <1>2, <1>3, <2>1
<1>6. trouble # {} => trouble' # {}  BY <1>3
<1> QED BY <1>2, <1>3, <1>4, <1>5, <1>6 DEF Collected, Explained

LEMMA SendingTypes ==
  ASSUME TypeOK,
         NothingToSend \/ TakeLock \/ MainSends \/ MainBreaks \/ MainDrops \/ Return
  PROVE  TypeOK'
<1>1. CASE NothingToSend \/ TakeLock \/ Return
  BY <1>1
  DEF NothingToSend, TakeLock, Return, Goto, TypeOK, counters, threads, servers, history
<1>2. CASE MainSends
  <2>1. /\ running' \in Nat /\ trouble' \subseteq {"refused", "unable", "untyped"}
        /\ served' \subseteq Servers /\ reg' = reg
    BY <1>2, SendDataTypes DEF MainSends
  <2>2. pc' \in {"open", "wait", "idle"} /\ via' = None /\ lock' = None
    BY <1>2 DEF MainSends, Unlock, Goto
  <2> QED BY <1>2, <2>1, <2>2 DEF MainSends, TypeOK, threads, servers
<1>3. CASE MainBreaks
  BY <1>3 DEF MainBreaks, Breaks, Unlock, Goto, TypeOK, threads, servers
<1>4. CASE MainDrops
  BY <1>4 DEF MainDrops, GivenBack, Unlock, Goto, Forget, TypeOK, threads, servers, history
<1> QED BY <1>1, <1>2, <1>3, <1>4

LEMMA ServerTypes ==
  ASSUME TypeOK, NEW t \in Threads, Accept(t) \/ ServerCode(t)
  PROVE  TypeOK'
<1>1. t[1] \in Servers  BY DEF Threads
<1>2. NoArgs \in Args
  BY NetTargetAssumption DEF NoArgs, Args, Kinds
<1>3. CASE Accept(t)
  <2>1. conns' \in [Threads -> 0..MaxConns]
    <3>1. conns[t] \in 0..MaxConns /\ conns[t] < MaxConns /\ MaxConns \in Nat
      BY <1>3, NetTargetAssumption DEF Accept, TypeOK
    <3>2. conns[t] + 1 \in 0..MaxConns  BY <3>1
    <3> QED BY <1>3, <3>2 DEF Accept, TypeOK
  <2>2. pcS' = [pcS EXCEPT ![t] = "lock"] /\ args' = [args EXCEPT ![t] = share[t[1]]]
    BY <1>3 DEF Accept, GotoS
  <2>3. pcS' \in [Threads -> {"none", "accept", "recv", "lock", "send", "drop", "dead"}]
    BY <2>2 DEF TypeOK
  <2>4. args' \in [Threads -> Args]  BY <1>1, <2>2 DEF TypeOK
  <2> QED
    BY <1>3, <2>1, <2>3, <2>4 DEF Accept, TypeOK, counters, sender, servers, history
<1>4. CASE SeesStop(t)
  BY <1>4 DEF SeesStop, GotoS, TypeOK, counters, sender, servers, history
<1>5. CASE Wake(t)
  BY <1>1, <1>5 DEF Wake, GotoS, TypeOK, counters, sender, history
<1>6. CASE Receive(t) \/ ReceiveTimesOut(t)
  <2>1. conns' \in [Threads -> 0..MaxConns]
    <3>1. conns[t] < MaxConns => 1 \in 0..MaxConns  BY NetTargetAssumption DEF TypeOK
    <3> QED BY <1>6, <3>1 DEF Receive, ReceiveTimesOut, TypeOK
  <2> QED
    BY <1>6, <2>1
    DEF Receive, ReceiveTimesOut, GotoS, TypeOK, counters, sender, servers, history
<1>7. CASE Handle(t)
  BY <1>1, <1>7 DEF Handle, GotoS, TypeOK, counters, sender, history
<1>8. CASE ServerSends(t)
  <2>1. /\ running' \in Nat /\ trouble' \subseteq {"refused", "unable", "untyped"}
        /\ served' \subseteq Servers /\ reg' = reg
    BY <1>8, SendDataTypes DEF ServerSends
  <2>2. /\ pcS' \in [Threads -> {"none", "accept", "recv", "lock", "send", "drop", "dead"}]
        /\ args' \in [Threads -> Args] /\ lock' = None
    BY <1>2, <1>8 DEF ServerSends, Unlock, GotoS, TypeOK
  <2> QED BY <1>8, <2>1, <2>2 DEF ServerSends, TypeOK, sender, servers
<1>9. CASE ServerBreaks(t)
  BY <1>9 DEF ServerBreaks, Breaks, Unlock, GotoS, TypeOK, sender, servers
<1>10. CASE ServerDrops(t)
  BY <1>10 DEF ServerDrops, GivenBack, Unlock, GotoS, Forget, TypeOK, sender, servers, history
<1> QED BY <1>3, <1>4, <1>5, <1>6, <1>7, <1>8, <1>9, <1>10 DEF ServerCode
-----------------------------------------------------------------------------
(* The counters.                                                            *)

LEMMA UserCounts ==
  ASSUME IInv,
         \/ Start \/ Stop \/ Complete
         \/ \E k \in Kinds, dest \in SUBSET Intfs : Send(k, dest)
         \/ \E s \in Servers : Obsolete(s)
  PROVE  Counts'
<1> USE NetTargetAssumption
    DEF Counts, IInv, TypeOK, Started, Locked, Placed, GivesBack, NotCountedYet, StillReady,
        Collected, Missing, Explained, FromFmk
<1>1. CASE Start  BY <1>1 DEF Start, sender, threads
<1>2. CASE Stop  BY <1>2 DEF Stop, counters, sender, threads, history
<1>3. CASE Complete  BY <1>3 DEF Complete, sender, threads, servers, history
<1>4. ASSUME NEW k \in Kinds, NEW dest \in SUBSET Intfs, Send(k, dest) PROVE Counts'
  BY <1>4 DEF Send, Ready, Goto, counters, threads, servers, history
<1>5. ASSUME NEW s \in Servers, Obsolete(s) PROVE Counts'
  BY <1>5 DEF Obsolete, counters, sender, threads, history
<1> QED BY <1>1, <1>2, <1>3, <1>4, <1>5

LEMMA OpeningCounts ==
  ASSUME IInv, Before \/ Opens
  PROVE  Counts'
<1> USE NetTargetAssumption
    DEF Counts, IInv, TypeOK, Started, Locked, Placed, GivesBack, NotCountedYet, StillReady,
        Collected, Missing, Explained, FromFmk
<1>1. CASE Before  BY <1>1 DEF Before, Goto, threads, servers, history
<1>2. ASSUME NEW i \in Intfs, Connect(i) \/ Refused(i) \/ BindFails(i) PROVE Counts'
  BY <1>2 DEF Connect, Refused, BindFails, Opening, counters, threads, servers, history
<1>3. ASSUME NEW i \in Intfs, Listen(i) PROVE Counts'
  BY <1>3 DEF Listen, Bound, Opening, GotoS, counters, servers, history
<1>4. ASSUME NEW i \in Intfs, ListenAgain(i) PROVE Counts'
  BY <1>4 DEF ListenAgain, Opening, Goto, counters, threads, history
<1> QED BY <1>1, <1>2, <1>3, <1>4 DEF Opens

LEMMA CountingCounts ==
  ASSUME IInv, CountRead \/ CountWrite \/ NothingToSend \/ TakeLock \/ Return
  PROVE  Counts'
<1> USE NetTargetAssumption
    DEF Counts, IInv, TypeOK, Started, Locked, Placed, GivesBack, NotCountedYet, StillReady,
        Collected, Missing, Explained, FromFmk
<1>1. CASE CountRead  BY <1>1 DEF CountRead, Goto, threads, servers, history
<1>2. CASE CountWrite  BY <1>2 DEF CountWrite, Goto, Forget, threads, servers, history
<1>3. CASE NothingToSend \/ TakeLock \/ Return
  <2>1. CASE NothingToSend
    BY <2>1 DEF NothingToSend, Goto, counters, threads, servers, history
  <2>2. CASE TakeLock  BY <2>2 DEF TakeLock, Goto, counters, threads, servers, history
  <2>3. CASE Return  BY <2>3 DEF Return, Goto, counters, threads, servers, history
  <2> QED BY <1>3, <2>1, <2>2, <2>3
<1> QED BY <1>1, <1>2, <1>3

LEMMA SendingCounts ==
  ASSUME IInv, MainSends \/ MainBreaks \/ MainDrops
  PROVE  Counts'
<1> USE NetTargetAssumption
    DEF Counts, IInv, TypeOK, Started, Locked, Placed, GivesBack, NotCountedYet, StillReady,
        Collected, Missing, Explained, FromFmk
<1>1. CASE MainSends
  <2>1. /\ running' \in Nat /\ running' >= running /\ reg' = reg /\ trouble \subseteq trouble'
        /\ served' # served => running' = running + 1
    BY <1>1, SendDataTypes DEF MainSends
  <2>2. /\ pc = "send" /\ lock' = None /\ via' = None
        /\ UNCHANGED <<life, up, toLaunch, finished, kind, socks, pcS>>
    BY <1>1 DEF MainSends, Unlock, threads
  <2>3. \/ /\ pc' = IF via # None THEN "open" ELSE "wait"
           /\ FromFmk(kind) => running' = running + 1
        \/ pc' = "idle" /\ (FromFmk(kind) /\ via = None => trouble' # {})
    BY <1>1 DEF MainSends, Launches, Raises, Goto
  <2>4. Started' /\ Locked' /\ Placed' /\ GivesBack'
    <3>1. pc' \notin {"send", "drop", "write"}  BY <2>3
    <3>2. \A t \in Threads : pcS[t] \notin {"send", "drop"}  BY <2>2
    <3> QED BY <2>1, <2>2, <2>3, <3>1, <3>2
  <2>5. NotCountedYet' /\ StillReady'  BY <2>1, <2>2, <2>3
  <2>6. Collected' /\ (Explained => Explained')  BY <1>1, StaysExplained DEF MainSends
  <2>7. Missing'
    <3>1. CASE FromFmk(kind)
      <4>1. toLaunch >= 1 => via = None  BY <3>1, <2>2
      <4>2. FromFmk(kind) /\ running' = running + 1 => finished' + running' >= 1
        BY <2>1, <2>2
      <4> QED BY <2>2, <2>3, <3>1, <4>1, <4>2
    <3>2. CASE ~FromFmk(kind)  BY <2>2, <2>6, <3>2
    <3> QED BY <3>1, <3>2
  <2> QED BY <2>4, <2>5, <2>6, <2>7
<1>2. CASE MainBreaks  BY <1>2 DEF MainBreaks, Breaks, Unlock, Goto, threads, servers
<1>3. CASE MainDrops
  BY <1>3 DEF MainDrops, GivenBack, Unlock, Goto, Forget, threads, servers, history
<1> QED BY <1>1, <1>2, <1>3

LEMMA ServerCounts ==
  ASSUME IInv, NEW t \in Threads, Accept(t) \/ ServerCode(t)
  PROVE  Counts'
<1> USE NetTargetAssumption
    DEF Counts, IInv, TypeOK, Started, Locked, Placed, GivesBack, NotCountedYet, StillReady,
        Collected, Missing, Explained, FromFmk
<1>1. CASE Accept(t) \/ SeesStop(t)
  <2>1. PICK x \in {"lock", "dead"} :
          pcS' = [pcS EXCEPT ![t] = x] /\ pcS[t] = "accept"
    BY <1>1 DEF Accept, SeesStop, GotoS
  <2>2. UNCHANGED <<life, up, lock, counters, sender, history>>
    BY <1>1 DEF Accept, SeesStop
  <2> QED BY <2>1, <2>2 DEF counters, sender, history
<1>2. CASE Wake(t) \/ Receive(t) \/ ReceiveTimesOut(t)
  <2>1. PICK x \in {"recv", "lock", "accept", "dead"} :
          pcS' = [pcS EXCEPT ![t] = x] /\ pcS[t] \in {"accept", "recv"}
    BY <1>2 DEF Wake, Receive, ReceiveTimesOut, GotoS
  <2>2. UNCHANGED <<life, up, lock, counters, sender, history>>
    BY <1>2 DEF Wake, Receive, ReceiveTimesOut
  <2> QED BY <2>1, <2>2 DEF counters, sender, history
<1>3. CASE Handle(t)  BY <1>3 DEF Handle, GotoS, counters, sender, history
<1>4. CASE ServerSends(t)
  <2>1. /\ running' \in Nat /\ running' >= running /\ reg' = reg /\ trouble \subseteq trouble'
        /\ served' # served => running' = running + 1
    BY <1>4, SendDataTypes DEF ServerSends
  <2>2. PICK x \in {"accept", "dead"} : pcS' = [pcS EXCEPT ![t] = x] /\ pcS[t] = "send"
    BY <1>4 DEF ServerSends, GotoS
  <2>3. lock' = None /\ UNCHANGED <<life, up, toLaunch, finished, sender>>
    BY <1>4 DEF ServerSends, Unlock
  <2>4. Started' /\ Locked' /\ Placed'
    <3>1. pc \notin {"send", "drop"} /\ \A u \in Threads \ {t} : pcS[u] \notin {"send", "drop"}
      BY <2>2
    <3> QED BY <2>2, <2>3, <3>1 DEF sender
  <2>5. GivesBack' /\ NotCountedYet' /\ StillReady'  BY <2>1, <2>2, <2>3 DEF sender
  <2>6. Collected' /\ (Explained => Explained')
    BY <1>4, StaysExplained DEF ServerSends, sender
  <2>7. Missing'  BY <2>3, <2>6 DEF sender
  <2> QED BY <2>4, <2>5, <2>6, <2>7
<1>5. CASE ServerBreaks(t)
  <2>1. CASE FromFmk(args[t].kind)
    <3>1. /\ pcS' = [pcS EXCEPT ![t] = "drop"] /\ pcS[t] = "send" /\ lock' = lock
          /\ reg' = [reg EXCEPT ![t] = toLaunch]
      BY <1>5, <2>1 DEF ServerBreaks, Breaks, GotoS
    <3>2. UNCHANGED <<life, up, toLaunch, finished, running, trouble, served, sender>>
      BY <1>5 DEF ServerBreaks, Breaks
    <3> QED BY <3>1, <3>2 DEF sender
  <2>2. CASE ~FromFmk(args[t].kind)
    <3>1. /\ pcS' = [pcS EXCEPT ![t] = "dead"] /\ pcS[t] = "send" /\ lock' = None
          /\ reg' = reg
      BY <1>5, <2>2 DEF ServerBreaks, Breaks, GotoS, Unlock
    <3>2. UNCHANGED <<life, up, toLaunch, finished, running, trouble, served, sender>>
      BY <1>5 DEF ServerBreaks, Breaks
    <3> QED BY <3>1, <3>2 DEF sender
  <2> QED BY <2>1, <2>2
<1>6. CASE ServerDrops(t)
  BY <1>6 DEF ServerDrops, GivenBack, Unlock, GotoS, Forget, sender, servers, history
<1> QED BY <1>1, <1>2, <1>3, <1>4, <1>5, <1>6 DEF ServerCode

LEMMA NextIInv == IInv /\ [Next]_vars => IInv'
<1> SUFFICES ASSUME IInv, [Next]_vars PROVE IInv'  OBVIOUS
<1>0. TypeOK /\ Started  BY DEF IInv
<1>1. CASE \/ Start \/ Stop \/ Complete
           \/ \E k \in Kinds, dest \in SUBSET Intfs : Send(k, dest)
           \/ \E s \in Servers : Obsolete(s)
  BY <1>0, <1>1, UserTypes, UserCounts DEF Counts, IInv
<1>2. CASE SenderCode
  <2>1. TypeOK'  BY <1>0, <1>2, OpeningTypes, SendingTypes DEF SenderCode
  <2>2. Counts'  BY <1>2, OpeningCounts, CountingCounts, SendingCounts DEF SenderCode
  <2> QED BY <2>1, <2>2 DEF Counts, IInv
<1>3. CASE \E t \in Threads : Accept(t) \/ ServerCode(t)
  <2>1. PICK t \in Threads : Accept(t) \/ ServerCode(t)  BY <1>3
  <2>2. TypeOK' /\ Counts'  BY <1>0, <2>1, ServerTypes, ServerCounts
  <2> QED BY <2>2 DEF Counts, IInv
<1>4. CASE UNCHANGED vars
  BY <1>4
  DEF vars, counters, sender, threads, servers, history, IInv, TypeOK, Started, Locked, Placed,
      GivesBack, NotCountedYet, StillReady, Collected, Missing, Explained
<1> QED BY <1>1, <1>2, <1>3, <1>4 DEF Next
-----------------------------------------------------------------------------
(* Results.                                                                 *)

LEMMA Invariance == Spec => []IInv
<1> QED BY InitIInv, NextIInv, PTL DEF Spec

\* The variables keep their types; the counters of network.py stay integers,
\* although an unlocked -= may write a value computed from one read long ago.
THEOREM TypeCorrect == Spec => []TypeOK
<1>1. IInv => TypeOK  BY DEF IInv
<1> QED BY <1>1, Invariance, PTL

\* Between the readiness test of Target.send_data_sync and the assertion of
\* NetworkTarget._before_sending_data, whatever the server threads and the
\* collectors do, the target only becomes unready by a surplus of collectors:
\* one that counts itself in _feedback_complete and was not to be launched.
THEOREM LostOnlyToSurplus == Spec => []AssertFailsOnlyIfLost
<1>1. IInv => AssertFailsOnlyIfLost
  BY DEF IInv, TypeOK, StillReady, AssertFailsOnlyIfLost
<1> QED BY <1>1, Invariance, PTL

\* After a sending of NetworkTarget, when no collector runs any more, a
\* collector is only missing for a reason: a client interface was refused, the
\* system could not send, the data did not fit the opened interfaces, or
\* nothing was sent because no server-mode interface got a client.
THEOREM MissingIsExplained == Spec => []NotReadyIsExplained
<1>1. IInv => NotReadyIsExplained
  BY DEF IInv, TypeOK, GivesBack, Collected, Missing, Explained, NotReadyIsExplained
<1> QED BY <1>1, Invariance, PTL
=============================================================================
