-------------------------- MODULE FmkLaunchProofs --------------------------
(***************************************************************************)
(* What FmkLaunch promises of the states between two operations, for any   *)
(* projects, targets, data models and reloads and for whatever goes wrong. *)
(*                                                                         *)
(* The argument is the one of a sequential program.  Sound holds of the    *)
(* record between any two calls of an operation, and each call keeps it;   *)
(* Placed holds of it between two operations, and says what the state of   *)
(* the automaton is worth.                                                 *)
(***************************************************************************)
EXTENDS FmkLaunch, FmkTaskPool, FiniteSetTheorems, TLAPS

\* The current targets are those of the object that has the logger.
OneProject(r) ==
    r.lg \in Objects => r.targets # {} /\ \A t \in r.targets : t[1] = r.lg

\* A target that is up, or a thread of a logger that runs, belongs to what is started or
\* is known to have been left behind.
Traced(r) ==
    /\ r.up \subseteq r.leaked \cup (IF r.started /\ r.enabled THEN r.targets ELSE {})
    /\ \A p \in Objects : r.handler[p] = "running" =>
         p \in r.orphans \/ (r.started /\ p = r.lg)

Bounded(r) == \A p \in Projects : r.made[p] <= MaxReloads[p]

Steady(r) ==
    /\ r \in Situations /\ r.ids # {}
    /\ Bounded(r) /\ OneProject(r) /\ Traced(r)
    /\ r.started => r.prj \in Objects /\ r.lg = r.prj

Sound(r) == Steady(r) /\ (r.prj \in Objects /\ ~r.silent => IsRegistered(r))

\* All that a launch is for.
AllUp(r) == r.started /\ r.enabled /\ r.targets \subseteq r.up /\ r.lg = r.prj

Placed(r) ==
    /\ r.st \in {"load_dm", "S1", "S2"} => r.prj \in Objects
    /\ r.st = "S2" => r.lg = r.prj /\ (r.lied \/ r.half \/ AllUp(r))
    /\ r.st # "S2" => ~r.started \/ r.half
    /\ r.started \/ r.st \in {"S1", "S2"} => r.silent \/ r.dm = r.wanted

IInv == Sound(s) /\ s.res = "true" /\ Placed(s)

-----------------------------------------------------------------------------
(* The data.                                                               *)

LEMMA ObjectFacts ==
  /\ \A p \in Objects : p[1] \in Projects /\ p = <<p[1], p[2]>> /\ p[2] \in Nat
                        /\ p[2] <= MaxReloads[p[1]]
  /\ \A x \in Projects, n \in Nat : n <= MaxReloads[x] => <<x, n>> \in Objects
  /\ None \notin Objects
BY LaunchAssumption DEF LaunchAssumption, Objects

LEMMA TargetFacts ==
  /\ \A p \in Objects, i \in Nat : i <= Highest[p[1]] => <<p, i>> \in Targets
  /\ \A p \in Objects : <<p, 0>> \in Targets
<1>1. \A p \in Objects : Highest[p[1]] \in Nat
  BY ObjectFacts, LaunchAssumption DEF LaunchAssumption
<1> QED BY <1>1 DEF Targets

\* Sound is about these fields, and about whether a failure was silent.
Core(r) == <<r.prj, r.lg, r.made, r.targets, r.started, r.enabled, r.up, r.leaked,
             r.orphans, r.handler>>

LEMMA SameCore ==
  ASSUME NEW r, Sound(r), NEW q \in Situations, Core(q) = Core(r), q.ids # {},
         r.silent => q.silent
  PROVE  Sound(q)
<1>1. /\ q.prj = r.prj /\ q.lg = r.lg /\ q.made = r.made /\ q.targets = r.targets
      /\ q.started = r.started /\ q.enabled = r.enabled /\ q.up = r.up
      /\ q.leaked = r.leaked /\ q.orphans = r.orphans /\ q.handler = r.handler
  BY DEF Core
<1>2. Bounded(q) /\ OneProject(q) /\ Traced(q)
  BY <1>1 DEF Sound, Steady, Bounded, OneProject, Traced
<1>3. IsRegistered(q) <=> IsRegistered(r)  BY <1>1 DEF IsRegistered
<1> QED BY <1>1, <1>2, <1>3 DEF Sound, Steady

-----------------------------------------------------------------------------
(* The pieces.                                                             *)

LEMMA LoadedDmKeeps ==
  ASSUME NEW r \in Situations, NEW o, NEW q, q = LoadedDm(r, o)
  PROVE  /\ q \in Situations /\ Core(q) = Core(r)
         /\ q.st = r.st /\ q.dm = r.dm /\ q.wanted = r.wanted /\ q.silent = r.silent
         /\ q.lied = r.lied /\ q.half = r.half /\ q.ids = r.ids /\ q.left = r.left
         /\ q.res = "false" => q.error
<1>1. q \in Situations
  <2>1. r \in Situations /\ r.lost \cup {r.dm} \in SUBSET (DMs \cup {None})
    BY DEF Situations
  <2>2. CASE Fault(o, "dmLoad")
    <3>1. q = [r EXCEPT !.toReload = TRUE, !.lost = r.lost \cup {r.dm}, !.error = TRUE,
                        !.res = "false"]
      BY <2>1, <2>2 DEF LoadedDm, Return, Situations
    <3> HIDE DEF Situations
    <3> QED BY <2>1, <3>1 DEF Situations
  <2>3. CASE ~Fault(o, "dmLoad") /\ r.dm \in r.lost
    <3>1. q = [r EXCEPT !.res = "raised"]  BY <2>3 DEF LoadedDm, Raise
    <3> QED BY <2>1, <3>1 DEF Situations
  <2>4. CASE ~Fault(o, "dmLoad") /\ r.dm \notin r.lost
    <3>1. q = [r EXCEPT !.toReload = FALSE, !.res = "true"]
      BY <2>1, <2>4 DEF LoadedDm, Return, Situations
    <3> QED BY <2>1, <3>1 DEF Situations
  <2> QED BY <2>2, <2>3, <2>4
<1>2. /\ Core(q) = Core(r) /\ q.st = r.st /\ q.dm = r.dm /\ q.wanted = r.wanted
      /\ q.silent = r.silent /\ q.lied = r.lied /\ q.half = r.half /\ q.ids = r.ids
      /\ q.left = r.left
      /\ q.res = "false" => q.error
  BY DEF LoadedDm, Return, Raise, Situations, Core
<1> QED BY <1>1, <1>2

LEMMA TargetsForFacts ==
  ASSUME NEW p \in Objects, NEW ids \in SUBSET (Ids \cup {0}), ids # {}
  PROVE  /\ TargetsFor(p, ids) \subseteq Targets /\ TargetsFor(p, ids) # {}
         /\ \A t \in TargetsFor(p, ids) : t[1] = p
<1> DEFINE js == IF Fits(p, ids) THEN ids ELSE {0}
<1>1. /\ TargetsFor(p, ids) = {p} \X js
      /\ js # {} /\ \A i \in js : <<p, i>> \in Targets
  <2>1. \A i \in ids : i \in Nat  BY LaunchAssumption DEF LaunchAssumption
  <2>2. CASE Fits(p, ids)  BY <2>1, <2>2, TargetFacts DEF Fits, TargetsFor
  <2>3. CASE ~Fits(p, ids)  BY <2>3, TargetFacts DEF TargetsFor
  <2> QED BY <2>2, <2>3
<1> HIDE DEF js
<1>2. \A t \in {p} \X js : t[1] = p /\ t[2] \in js /\ t = <<p, t[2]>>  OBVIOUS
<1>3. {p} \X js # {}
  <2>1. PICK i \in js : TRUE  BY <1>1
  <2>2. <<p, i>> \in {p} \X js  BY <2>1
  <2> QED BY <2>2
<1> QED BY <1>1, <1>2, <1>3

\* The fields that say what was asked for.
Asked(r) == <<r.dm, r.wanted, r.silent>>

\* Taking a logger and targets loses track of no target: those that the new ones do not
\* include are noted, when they may be up.
LEMMA InitStep1Keeps ==
  ASSUME NEW r, Steady(r), NEW p \in Objects, r.started => p = r.prj,
         r.silent \/ p = Newest(r, p[1]), NEW q, q = InitStep1(r, p)
  PROVE  /\ Sound(q) /\ q.prj = p /\ q.lg = p /\ Asked(q) = Asked(r) /\ q.st = r.st
         /\ q.started = r.started /\ q.half = r.half /\ q.lied = r.lied /\ q.res = r.res
         /\ q.left = r.left
<1> DEFINE ts == TargetsFor(p, r.ids)
           ids == IF Fits(p, r.ids) THEN r.ids ELSE {0}
           err == r.error \/ ~Fits(p, r.ids)
           lk == r.leaked \cup (IF r.started THEN r.up \ ts ELSE {})
<1>1. r \in Situations /\ r.ids # {} /\ r.ids \in SUBSET (Ids \cup {0})
  BY DEF Sound, Steady, Situations
<1>2. ts \subseteq Targets /\ ts # {} /\ \A t \in ts : t[1] = p
  BY <1>1, TargetsForFacts
<1>3. q = [r EXCEPT !.prj = p, !.lg = p, !.targets = ts, !.ids = ids, !.error = err,
                    !.leaked = lk]
  BY <1>1 DEF InitStep1, Situations
<1>4. /\ ids \in SUBSET (Ids \cup {0}) /\ ids # {} /\ lk \in SUBSET Targets
      /\ err \in BOOLEAN
  BY <1>1 DEF Situations
<1> HIDE DEF ts, ids, err, lk
<1>5. q \in Situations
  <2>1. p \in Objects \cup {None} /\ ts \in SUBSET Targets /\ err \in {TRUE, FALSE}
    BY <1>2, <1>4
  <2> QED BY <1>1, <1>3, <1>4, <2>1 DEF Situations
<1>6. /\ q.prj = p /\ q.lg = p /\ q.targets = ts /\ q.ids = ids /\ q.leaked = lk
      /\ Asked(q) = Asked(r) /\ q.st = r.st /\ q.started = r.started
      /\ q.enabled = r.enabled /\ q.half = r.half /\ q.lied = r.lied /\ q.res = r.res
      /\ q.made = r.made /\ q.up = r.up /\ q.orphans = r.orphans
      /\ q.handler = r.handler /\ q.left = r.left
  BY <1>1, <1>3 DEF Situations, Asked
<1>7. OneProject(q) /\ Bounded(q)  BY <1>2, <1>6 DEF OneProject, Bounded, Sound, Steady
<1>8. Traced(q)
  <2>1. q.up \subseteq q.leaked \cup (IF q.started /\ q.enabled THEN q.targets ELSE {})
    BY <1>6 DEF Sound, Steady, Traced, lk
  <2>2. r.started => r.lg = q.lg  BY <1>6 DEF Sound, Steady
  <2>3. \A x \in Objects : q.handler[x] = "running" =>
          x \in q.orphans \/ (q.started /\ x = q.lg)
    BY <1>6, <2>2 DEF Sound, Steady, Traced
  <2> QED BY <2>1, <2>3 DEF Traced
<1>9. q.silent \/ IsRegistered(q)
  BY <1>6 DEF IsRegistered, Newest, Asked
<1> QED BY <1>4, <1>5, <1>6, <1>7, <1>8, <1>9 DEF Sound, Steady

HandlerStates == {"none", "running", "ended"}

LEMMA WithHandler ==
  ASSUME NEW r \in Situations, NEW h \in [Objects -> HandlerStates]
  PROVE  [r EXCEPT !.handler = h] \in Situations
BY DEF Situations, HandlerStates

LEMMA LoggerStartKeeps ==
  ASSUME NEW r \in Situations, r.lg \in Objects
  PROVE  \E h \in [Objects -> HandlerStates] :
              /\ LoggerStart(r) = [r EXCEPT !.handler = h]
              /\ \A p \in Objects : p # r.lg => h[p] = r.handler[p]
<1> DEFINE h == [r.handler EXCEPT ![r.lg] = IF @ = "none" THEN "running" ELSE @]
<1>1. h \in [Objects -> HandlerStates] /\ \A p \in Objects : p # r.lg => h[p] = r.handler[p]
  BY DEF Situations, HandlerStates
<1>2. LoggerStart(r) = [r EXCEPT !.handler = h]
  BY DEF LoggerStart, Situations
<1> HIDE DEF h
<1> QED BY <1>1, <1>2

\* A start that succeeds leaves all up; one that fails is an error, or raises and is known
\* to be half-way; in all cases what it leaves behind is noted.
LEMMA StartKeeps ==
  ASSUME NEW r, Sound(r), r.prj \in Objects, r.lg = r.prj, ~r.started,
         NEW o, NEW q, q = StartPlumbing(r, o)
  PROVE  /\ Sound(q) /\ q.prj = r.prj /\ q.lg = r.lg /\ Asked(q) = Asked(r)
         /\ q.st = r.st /\ q.left = r.left
         /\ q.res = "true" /\ ~q.error => AllUp(q)
         /\ q.res = "false" => q.error
         /\ q.res = "raised" => q.half
<1>1. r \in Situations /\ r.lg \in Objects  BY DEF Sound, Steady
<1>2. PICK h \in [Objects -> HandlerStates] :
        /\ LoggerStart(r) = [r EXCEPT !.handler = h]
        /\ \A p \in Objects : p # r.lg => h[p] = r.handler[p]
  BY <1>1, LoggerStartKeeps
<1> DEFINE r1 == Return(LoggerStart(r), TRUE)
           r2 == LoadedDm(r1, o)
           up == {t \in r.targets : t[2] \notin o.refused}
<1>3. r1 = [r EXCEPT !.handler = h, !.res = "true"]  BY <1>1, <1>2 DEF Return, Situations
<1>4. r1 \in Situations
  <2>1. [r EXCEPT !.handler = h] \in Situations  BY <1>1, WithHandler
  <2>2. r1 = [[r EXCEPT !.handler = h] EXCEPT !.res = "true"]
    BY <1>1, <1>2 DEF Return
  <2> QED BY <2>1, <2>2 DEF Situations
<1>5. /\ r1.prj = r.prj /\ r1.lg = r.lg /\ r1.made = r.made /\ r1.targets = r.targets
      /\ r1.started = r.started /\ r1.enabled = r.enabled /\ r1.up = r.up
      /\ r1.leaked = r.leaked /\ r1.orphans = r.orphans /\ r1.handler = h
      /\ r1.st = r.st /\ Asked(r1) = Asked(r) /\ r1.left = r.left /\ r1.ids = r.ids
  BY <1>1, <1>3 DEF Situations, Asked
<1>6. /\ r2 \in Situations
      /\ r2.prj = r.prj /\ r2.lg = r.lg /\ r2.made = r.made /\ r2.targets = r.targets
      /\ r2.started = r.started /\ r2.enabled = r.enabled /\ r2.up = r.up
      /\ r2.leaked = r.leaked /\ r2.orphans = r.orphans /\ r2.handler = h
      /\ r2.st = r.st /\ Asked(r2) = Asked(r) /\ r2.left = r.left /\ r2.ids = r.ids
      /\ r2.res = "false" => r2.error
  <2> HIDE DEF r1
  <2> QED BY <1>4, <1>5, LoadedDmKeeps DEF Core, Asked
<1> HIDE DEF r1, r2, up
<1>10. r.up \subseteq r.leaked /\ \A p \in Objects : r.handler[p] = "running" => p \in r.orphans
  BY DEF Sound, Steady, Traced
<1>11. /\ r.targets \subseteq Targets /\ r.up \subseteq Targets /\ r.leaked \subseteq Targets
       /\ r.orphans \subseteq Objects /\ up \subseteq r.targets
  BY <1>1 DEF Situations, up
<1>12. ASSUME q \in Situations, q.prj = r.prj, q.lg = r.lg, q.made = r.made,
              q.targets = r.targets, q.ids = r.ids, q.handler = h, Asked(q) = Asked(r), Traced(q)
       PROVE  Sound(q)
  BY <1>12 DEF Sound, Steady, Bounded, OneProject, IsRegistered, Asked
<1>7. CASE r2.res # "true"
  <2>1. q = [r2 EXCEPT !.orphans = r.orphans \cup {r.lg}, !.half = (r2.res = "raised")]
    BY <1>6, <1>7 DEF StartPlumbing, r1, r2
  <2>2. q \in Situations
    <3>1. r.orphans \cup {r.lg} \in SUBSET Objects /\ (r2.res = "raised") \in BOOLEAN
      BY <1>1, <1>11
    <3> QED BY <1>6, <2>1, <3>1 DEF Situations
  <2>3. /\ q.prj = r.prj /\ q.lg = r.lg /\ q.made = r.made /\ q.targets = r.targets
        /\ q.started = r.started /\ q.enabled = r.enabled /\ q.up = r.up
        /\ q.leaked = r.leaked /\ q.orphans = r.orphans \cup {r.lg} /\ q.handler = h
        /\ q.st = r.st /\ Asked(q) = Asked(r) /\ q.left = r.left /\ q.ids = r.ids
        /\ q.res = r2.res /\ q.error = r2.error
    BY <1>6, <2>1 DEF Situations, Asked
  <2>4. q.half <=> r2.res = "raised"
    BY <1>6, <2>1 DEF Situations
  <2>5. Traced(q)  BY <1>2, <1>10, <2>3 DEF Traced
  <2> QED BY <1>6, <1>7, <1>12, <2>2, <2>3, <2>4, <2>5
<1>8. CASE r2.res = "true" /\ up # r.targets
  <2>1. q = [r2 EXCEPT !.error = TRUE, !.up = r.up \cup up, !.started = TRUE,
                       !.leaked = r.leaked \cup up]
    BY <1>6, <1>8 DEF StartPlumbing, r1, r2, up
  <2>2. q \in Situations
    <3>1. r.up \cup up \in SUBSET Targets /\ r.leaked \cup up \in SUBSET Targets
      BY <1>11
    <3> QED BY <1>6, <2>1, <3>1 DEF Situations
  <2>3. /\ q.prj = r.prj /\ q.lg = r.lg /\ q.made = r.made /\ q.targets = r.targets
        /\ q.started = TRUE /\ q.up = r.up \cup up
        /\ q.leaked = r.leaked \cup up /\ q.orphans = r.orphans /\ q.handler = h
        /\ q.st = r.st /\ Asked(q) = Asked(r) /\ q.left = r.left /\ q.ids = r.ids
        /\ q.res = "true" /\ q.error = TRUE
    BY <1>6, <1>8, <2>1 DEF Situations, Asked
  <2>4. Traced(q)  BY <1>2, <1>10, <2>3 DEF Traced
  <2> QED BY <1>12, <2>2, <2>3, <2>4
<1>9. CASE r2.res = "true" /\ up = r.targets
  <2>1. PICK b \in BOOLEAN, v \in {"true", "raised"} :
          /\ q = [r2 EXCEPT !.up = r.up \cup up, !.started = TRUE, !.enabled = TRUE,
                            !.lied = FALSE, !.half = b, !.res = v]
          /\ v = "raised" => b
    <3> DEFINE r3 == [r2 EXCEPT !.up = r.up \cup up, !.started = TRUE, !.enabled = TRUE,
                               !.lied = FALSE, !.half = FALSE]
    <3>1. q = IF Fault(o, "start") THEN RaiseHalfway(r3) ELSE r3
      BY <1>6, <1>9 DEF StartPlumbing, r1, r2, up
    <3>2. r3 = [r2 EXCEPT !.up = r.up \cup up, !.started = TRUE, !.enabled = TRUE,
                          !.lied = FALSE, !.half = FALSE, !.res = "true"]
      BY <1>6, <1>9 DEF Situations
    <3>3. RaiseHalfway(r3) =
            [r2 EXCEPT !.up = r.up \cup up, !.started = TRUE, !.enabled = TRUE,
                       !.lied = FALSE, !.half = TRUE, !.res = "raised"]
      BY <1>6 DEF RaiseHalfway, Situations
    <3> HIDE DEF r3
    <3> QED BY <3>1, <3>2, <3>3
  <2>2. q \in Situations
    <3>1. r.up \cup up \in SUBSET Targets  BY <1>11
    <3> QED BY <1>6, <2>1, <3>1 DEF Situations
  <2>3. /\ q.prj = r.prj /\ q.lg = r.lg /\ q.made = r.made /\ q.targets = r.targets
        /\ q.started = TRUE /\ q.enabled = TRUE /\ q.up = r.up \cup up
        /\ q.leaked = r.leaked /\ q.orphans = r.orphans /\ q.handler = h
        /\ q.st = r.st /\ Asked(q) = Asked(r) /\ q.left = r.left /\ q.ids = r.ids
        /\ q.res = v /\ q.half = b
    BY <1>6, <2>1 DEF Situations, Asked
  <2>4. Traced(q)  BY <1>2, <1>9, <1>10, <2>3 DEF Traced
  <2>5. AllUp(q)  BY <1>9, <2>3 DEF AllUp
  <2> QED BY <2>1, <1>12, <2>2, <2>3, <2>4, <2>5
<1> QED BY <1>7, <1>8, <1>9

\* A stop that does not raise leaves the framework stopped, whatever its state was; one that
\* raises is known to be half-way.
LEMMA StopKeeps ==
  ASSUME NEW r, Sound(r), NEW o, NEW q, q = StopPlumbing(r, o)
  PROVE  /\ Sound(q) /\ q.prj = r.prj /\ q.lg = r.lg /\ Asked(q) = Asked(r)
         /\ q.st = r.st /\ q.left = r.left /\ q.lied = r.lied /\ q.made = r.made
         /\ q.ids = r.ids /\ (q.started => r.started)
         /\ \/ q.res = "true" /\ ~q.started
            \/ q.res = "raised" /\ q.half
<1>1. r \in Situations  BY DEF Sound, Steady
<1> DEFINE r1 == [r EXCEPT !.error = FALSE, !.res = "true"]
           left == {t \in r.targets : r.enabled /\ t[2] \in o.unstopped}
           up == r.up \ Stopped(r, o)
           lk == r.leaked \cup left
           orph == r.orphans \ {r.lg}
           h == [r.handler EXCEPT ![r.lg] = "ended"]
           err == left # {}
           r2 == [r1 EXCEPT !.up = up, !.leaked = lk, !.error = err, !.enabled = FALSE]
           r3 == [r2 EXCEPT !.handler = h, !.orphans = orph]
<1>2. CASE ~r.started \/ Fault(o, "tasks")
  <2>1. PICK b \in BOOLEAN, v \in {"true", "raised"} :
          /\ q = [r EXCEPT !.error = FALSE, !.half = b, !.res = v]
          /\ v = "raised" => b
          /\ v = "true" => ~r.started
    <3>1. CASE ~r.started
      <4>1. q = r1  BY <3>1 DEF StopPlumbing
      <4>2. r1 = [r EXCEPT !.error = FALSE, !.half = r.half, !.res = "true"]
        BY <1>1 DEF Situations
      <4>3. r.half \in BOOLEAN  BY <1>1 DEF Situations
      <4> QED BY <3>1, <4>1, <4>2, <4>3
    <3>2. CASE r.started
      <4>1. q = RaiseHalfway(r1)  BY <1>2, <3>2 DEF StopPlumbing
      <4>2. q = [r EXCEPT !.error = FALSE, !.half = TRUE, !.res = "raised"]
        BY <1>1, <4>1 DEF Situations, RaiseHalfway
      <4> QED BY <4>2
    <3> QED BY <3>1, <3>2
  <2>2. q \in Situations  BY <1>1, <2>1 DEF Situations
  <2>3. /\ Core(q) = Core(r) /\ q.ids = r.ids /\ Asked(q) = Asked(r) /\ q.st = r.st
        /\ q.left = r.left /\ q.lied = r.lied /\ q.half = b /\ q.res = v
    BY <1>1, <2>1 DEF Situations, Core, Asked
  <2>4. Sound(q)  BY <2>2, <2>3, SameCore DEF Sound, Steady, Asked
  <2> QED BY <2>1, <2>3, <2>4 DEF Core
<1>3. CASE r.started /\ ~Fault(o, "tasks")
  <2>1. r.lg \in Objects  BY <1>3 DEF Sound, Steady
  <2>2. PICK a \in BOOLEAN, b \in BOOLEAN, v \in {"true", "raised"} :
          /\ q = [r EXCEPT !.up = up, !.leaked = lk, !.error = err, !.enabled = FALSE,
                           !.handler = h, !.orphans = orph, !.started = a, !.half = b,
                           !.res = v]
          /\ (v = "true" /\ ~a) \/ (v = "raised" /\ b)
    <3>1. LoggerStop(r2) = r3
      BY <1>1 DEF LoggerStop, Situations
    <3>2. q = IF Fault(o, "prjStop") THEN RaiseHalfway(r3)
              ELSE [r3 EXCEPT !.started = FALSE, !.half = FALSE]
      BY <1>1, <1>3, <3>1 DEF StopPlumbing, Situations
    <3>3. r3 = [r EXCEPT !.up = up, !.leaked = lk, !.error = err, !.enabled = FALSE,
                         !.handler = h, !.orphans = orph, !.res = "true"]
      <4> HIDE DEF up, lk, err, h, orph
      <4> QED BY <1>1 DEF Situations
    <3> HIDE DEF up, lk, err, h, orph, r3
    <3>4. RaiseHalfway(r3) =
            [r EXCEPT !.up = up, !.leaked = lk, !.error = err, !.enabled = FALSE,
                      !.handler = h, !.orphans = orph, !.started = r.started, !.half = TRUE,
                      !.res = "raised"]
      BY <1>1, <3>3 DEF RaiseHalfway, Situations
    <3>5. [r3 EXCEPT !.started = FALSE, !.half = FALSE] =
            [r EXCEPT !.up = up, !.leaked = lk, !.error = err, !.enabled = FALSE,
                      !.handler = h, !.orphans = orph, !.started = FALSE, !.half = FALSE,
                      !.res = "true"]
      BY <1>1, <3>3 DEF Situations
    <3>6. r.started \in BOOLEAN  BY <1>1 DEF Situations
    <3>7. CASE Fault(o, "prjStop")
      <4>1. q = RaiseHalfway(r3)  BY <3>2, <3>7
      <4> QED BY <3>4, <3>6, <4>1
    <3>8. CASE ~Fault(o, "prjStop")
      <4>1. q = [r3 EXCEPT !.started = FALSE, !.half = FALSE]  BY <3>2, <3>8
      <4> WITNESS FALSE \in BOOLEAN, FALSE \in BOOLEAN, "true" \in {"true", "raised"}
      <4> QED BY <3>5, <4>1
    <3> QED BY <3>7, <3>8
  <2>3. /\ h \in [Objects -> HandlerStates] /\ h[r.lg] = "ended"
        /\ \A p \in Objects : p # r.lg => h[p] = r.handler[p]
    BY <1>1, <2>1 DEF Situations, HandlerStates
  <2>4. /\ up \in SUBSET Targets /\ lk \in SUBSET Targets /\ orph \in SUBSET Objects
        /\ err \in BOOLEAN
    BY <1>1 DEF Situations
  <2>5. up \subseteq lk
    <3>1. r.up \subseteq r.leaked \cup (IF r.enabled THEN r.targets ELSE {})
      BY <1>3 DEF Sound, Steady, Traced
    <3>2. ASSUME NEW t \in up, t \notin r.leaked  PROVE t \in left
      BY <3>1, <3>2 DEF Stopped
    <3> QED BY <3>2
  <2>6. \A p \in Objects : h[p] = "running" => p \in orph
    BY <1>3, <2>1, <2>3 DEF Sound, Steady, Traced
  <2> HIDE DEF up, lk, err, h, orph
  <2>7. q \in Situations
    <3>1. [r EXCEPT !.handler = h] \in Situations  BY <1>1, <2>3, WithHandler
    <3>2. q = [[r EXCEPT !.handler = h] EXCEPT !.up = up, !.leaked = lk, !.error = err,
                 !.enabled = FALSE, !.orphans = orph, !.started = a, !.half = b, !.res = v]
      BY <1>1, <2>2 DEF Situations
    <3>3. err \in {TRUE, FALSE}  BY <2>4
    <3> DEFINE r4 == [r EXCEPT !.handler = h]
    <3>4. r4 \in Situations /\ q = [r4 EXCEPT !.up = up, !.leaked = lk, !.error = err,
                 !.enabled = FALSE, !.orphans = orph, !.started = a, !.half = b, !.res = v]
      BY <3>1, <3>2
    <3> HIDE DEF r4
    <3> QED BY <2>4, <3>3, <3>4 DEF Situations
  <2>8. /\ q.prj = r.prj /\ q.lg = r.lg /\ q.made = r.made /\ q.targets = r.targets
        /\ q.ids = r.ids /\ Asked(q) = Asked(r) /\ q.st = r.st /\ q.left = r.left
        /\ q.lied = r.lied /\ q.up = up /\ q.leaked = lk /\ q.orphans = orph
        /\ q.handler = h /\ q.started = a /\ q.half = b /\ q.res = v
    BY <1>1, <2>2 DEF Situations, Asked
  <2>9. Traced(q)  BY <2>5, <2>6, <2>8 DEF Traced
  <2>10. Sound(q)
    BY <1>3, <2>7, <2>8, <2>9 DEF Sound, Steady, Bounded, OneProject, IsRegistered, Asked
  <2> QED BY <1>3, <2>2, <2>8, <2>10
<1> QED BY <1>2, <1>3

\* Only what the operation returns changes.
LEMMA WithRes ==
  ASSUME NEW r \in Situations, NEW v \in {"true", "false", "raised"}, NEW q,
         q = [r EXCEPT !.res = v]
  PROVE  /\ q \in Situations /\ q.res = v
         /\ Core(q) = Core(r) /\ Asked(q) = Asked(r) /\ q.st = r.st /\ q.left = r.left
         /\ q.half = r.half /\ q.lied = r.lied /\ q.ids = r.ids /\ q.error = r.error
         /\ Sound(r) => Sound(q)
         /\ AllUp(r) => AllUp(q)
<1>1. q \in Situations /\ q.res = v  BY DEF Situations
<1>2. /\ Core(q) = Core(r) /\ Asked(q) = Asked(r) /\ q.st = r.st /\ q.left = r.left
      /\ q.half = r.half /\ q.lied = r.lied /\ q.ids = r.ids /\ q.error = r.error
  BY DEF Situations, Core, Asked
<1>3. Sound(r) => Sound(q)
  <2>1. q.silent = r.silent  BY <1>2 DEF Asked
  <2> QED BY <1>1, <1>2, <2>1, SameCore DEF Sound, Steady
<1>4. AllUp(r) => AllUp(q)  BY <1>2 DEF Core, AllUp
<1> QED BY <1>1, <1>2, <1>3, <1>4

LEMMA LaunchKeeps ==
  ASSUME NEW r, Sound(r), r.prj \in Objects, ~r.started \/ r.half, r.res = "true",
         NEW o, NEW q, q = LaunchOp(r, o)
  PROVE  /\ Sound(q) /\ q.prj = r.prj /\ q.lg = r.prj /\ Asked(q) = Asked(r)
         /\ q.st = r.st /\ q.left = r.left
         /\ q.res = "true" => q.half \/ AllUp(q)
         /\ q.res # "true" => ~q.started \/ q.half
<1> DEFINE r0 == InitStep1(r, r.prj)
           r1 == StartPlumbing(r0, o)
           r2 == StopPlumbing(r1, o)
<1>1. /\ Sound(r0) /\ r0.prj = r.prj /\ r0.lg = r.prj /\ Asked(r0) = Asked(r)
      /\ r0.st = r.st /\ r0.started = r.started /\ r0.half = r.half /\ r0.res = "true"
      /\ r0.left = r.left
  <2>1. r.silent \/ r.prj = Newest(r, r.prj[1])
    BY DEF Sound, Steady, IsRegistered, Newest
  <2> QED BY <2>1, InitStep1Keeps DEF Sound
<1> HIDE DEF r0
<1>2. /\ Sound(r1) /\ r1.prj = r.prj /\ r1.lg = r.prj /\ Asked(r1) = Asked(r)
      /\ r1.st = r.st /\ r1.left = r.left
      /\ r1.res = "true" /\ ~r1.error => r1.half \/ AllUp(r1)
      /\ r1.res = "false" => r1.error
      /\ r1.res = "raised" => r1.half
  <2>1. CASE r0.started
    <3>1. r1 = r0  BY <2>1 DEF StartPlumbing
    <3> QED BY <1>1, <2>1, <3>1
  <2>2. CASE ~r0.started  BY <1>1, <2>2, StartKeeps
  <2> QED BY <2>1, <2>2
<1>3. q = IF r1.res = "raised" THEN r1
          ELSE IF ~r1.error THEN Return(r1, TRUE)
          ELSE IF r2.res = "raised" THEN r2 ELSE Return(r2, FALSE)
  BY DEF LaunchOp, Failed, r0
<1> HIDE DEF r1
<1>4. /\ Sound(r2) /\ r2.prj = r.prj /\ r2.lg = r.prj /\ Asked(r2) = Asked(r)
      /\ r2.st = r.st /\ r2.left = r.left
      /\ \/ r2.res = "true" /\ ~r2.started
         \/ r2.res = "raised" /\ r2.half
  BY <1>2, StopKeeps
<1> HIDE DEF r2
<1>5. r1 \in Situations /\ r2 \in Situations /\ r1.res \in {"true", "false", "raised"}
  BY <1>2, <1>4 DEF Sound, Steady, Situations
<1>6. CASE r1.res = "raised"  BY <1>2, <1>3, <1>6
<1>7. CASE r1.res # "raised" /\ ~r1.error
  <2>1. q = [r1 EXCEPT !.res = "true"]  BY <1>3, <1>7 DEF Return
  <2> QED BY <1>2, <1>5, <1>7, <2>1, WithRes DEF Core
<1>8. CASE r1.res # "raised" /\ r1.error /\ r2.res = "raised"  BY <1>3, <1>4, <1>8
<1>9. CASE r1.res # "raised" /\ r1.error /\ r2.res # "raised"
  <2>1. q = [r2 EXCEPT !.res = "false"]  BY <1>3, <1>9 DEF Return
  <2> QED BY <1>4, <1>5, <1>9, <2>1, WithRes DEF Core
<1> QED BY <1>6, <1>7, <1>8, <1>9

\* Loading or reloading a data model: what is up is not touched, and the data model is
\* the one that was asked for, or the failure was silent.
Told(r) == r.silent \/ r.dm = r.wanted

DmMoved(r, q) ==
    /\ q \in Situations /\ Core(q) = Core(r) /\ q.ids = r.ids /\ q.left = r.left
    /\ q.half = r.half /\ q.lied = r.lied
    /\ r.silent => q.silent
    /\ Told(q) \/ Asked(q) = Asked(r)
    /\ \/ q.st = r.st
       \/ r.st = "load_dm" /\ q.st = "S1" /\ Told(q)
    /\ q.res = "true" \/ (q.res = "false" /\ ~q.error) => Told(q)

\* EnforceOrder moves on when a data model was chosen.
LEMMA DmChosenKeeps ==
  ASSUME NEW r \in Situations, NEW q \in Situations, Core(q) = Core(r), q.ids = r.ids,
         q.left = r.left, q.half = r.half, q.lied = r.lied, q.silent = r.silent,
         q.dm = q.wanted, q.st = r.st
  PROVE  DmMoved(r, DmChosen(q))
<1>1. CASE q.st = "load_dm" /\ q.res = "true"
  <2>1. DmChosen(q) = [q EXCEPT !.st = "S1"]  BY <1>1 DEF DmChosen, Final
  <2>2. DmChosen(q) \in Situations  BY <2>1 DEF Situations, States
  <2>3. /\ Core(DmChosen(q)) = Core(q) /\ DmChosen(q).ids = q.ids
        /\ DmChosen(q).left = q.left /\ DmChosen(q).half = q.half
        /\ DmChosen(q).lied = q.lied /\ DmChosen(q).silent = q.silent
        /\ DmChosen(q).dm = q.dm /\ DmChosen(q).wanted = q.wanted
        /\ DmChosen(q).st = "S1"
    BY <2>1 DEF Situations, Core
  <2> QED BY <1>1, <2>2, <2>3 DEF DmMoved, Told
<1>2. CASE ~(q.st = "load_dm" /\ q.res = "true")
  <2>1. DmChosen(q) = q  BY <1>2 DEF DmChosen, Final
  <2> QED BY <2>1 DEF DmMoved, Told
<1> QED BY <1>1, <1>2

LEMMA LoadDmKeeps ==
  ASSUME NEW r \in Situations, NEW d \in DMs \cup {Unknown}, NEW o
  PROVE  DmMoved(r, LoadDmOp(r, d, o))
<1>1. CASE d = Unknown
  <2> DEFINE q == [r EXCEPT !.error = TRUE, !.res = "false"]
  <2>1. LoadDmOp(r, d, o) = q  BY <1>1 DEF LoadDmOp, Return, Situations
  <2>2. /\ q \in Situations /\ Core(q) = Core(r) /\ q.ids = r.ids /\ q.left = r.left
        /\ q.half = r.half /\ q.lied = r.lied /\ Asked(q) = Asked(r) /\ q.st = r.st
        /\ q.error /\ q.res = "false" /\ q.silent = r.silent
    BY DEF Situations, Core, Asked
  <2> HIDE DEF q
  <2> QED BY <2>1, <2>2 DEF DmMoved
<1>2. CASE d # Unknown
  <2> DEFINE r1 == [r EXCEPT !.dm = d, !.wanted = d, !.res = "true"]
             r2 == LoadedDm(r1, o)
  <2>1. LoadDmOp(r, d, o) = DmChosen(IF r.started THEN r2 ELSE r1)
    BY <1>2 DEF LoadDmOp
  <2>2. r1 \in Situations /\ Core(r1) = Core(r) /\ r1.ids = r.ids /\ r1.left = r.left
        /\ r1.half = r.half /\ r1.lied = r.lied /\ r1.silent = r.silent
        /\ r1.dm = d /\ r1.wanted = d /\ r1.st = r.st
    BY <1>2 DEF Situations, Core
  <2> HIDE DEF r1
  <2>3. r2 \in Situations /\ Core(r2) = Core(r) /\ r2.ids = r.ids /\ r2.left = r.left
        /\ r2.half = r.half /\ r2.lied = r.lied /\ r2.silent = r.silent
        /\ r2.dm = d /\ r2.wanted = d /\ r2.st = r.st
    BY <2>2, LoadedDmKeeps
  <2> HIDE DEF r2
  <2>4. CASE r.started  BY <2>1, <2>3, <2>4, DmChosenKeeps
  <2>5. CASE ~r.started  BY <2>1, <2>2, <2>5, DmChosenKeeps
  <2> QED BY <2>4, <2>5
<1> QED BY <1>1, <1>2

LEMMA ReloadDmKeeps ==
  ASSUME NEW r \in Situations, NEW d \in DMs \cup {Unknown, None}, d = None => r.dm = None,
         NEW o
  PROVE  DmMoved(r, ReloadDmOp(r, d, o))
<1>1. CASE d = Unknown \/ r.dm = None
  <2> DEFINE q == [r EXCEPT !.res = "raised"]
  <2>1. ReloadDmOp(r, d, o) = q  BY <1>1 DEF ReloadDmOp, Raise
  <2>2. /\ q \in Situations /\ Core(q) = Core(r) /\ q.ids = r.ids /\ q.left = r.left
        /\ q.half = r.half /\ q.lied = r.lied /\ Asked(q) = Asked(r) /\ q.st = r.st
        /\ q.res = "raised" /\ q.silent = r.silent
    BY WithRes DEF Situations, Asked
  <2> HIDE DEF q
  <2> QED BY <2>1, <2>2 DEF DmMoved
<1>2. CASE d # Unknown /\ r.dm # None /\ Fault(o, "dmImport")
  <2> DEFINE q == [r EXCEPT !.wanted = d, !.silent = TRUE, !.res = "false"]
  <2>1. ReloadDmOp(r, d, o) = q  BY <1>2 DEF ReloadDmOp, Return, Situations
  <2>2. /\ q \in Situations /\ Core(q) = Core(r) /\ q.ids = r.ids /\ q.left = r.left
        /\ q.half = r.half /\ q.lied = r.lied /\ q.silent /\ q.st = r.st
    BY <1>2 DEF Situations, Core
  <2> HIDE DEF q
  <2> QED BY <2>1, <2>2 DEF DmMoved, Told
<1>3. CASE d # Unknown /\ r.dm # None /\ ~Fault(o, "dmImport")
  <2> DEFINE lost == (r.lost \cup {r.dm}) \ {d}
             r1 == [r EXCEPT !.dm = d, !.wanted = d, !.res = "true", !.lost = lost]
             r2 == LoadedDm(r1, o)
  <2>1. ReloadDmOp(r, d, o) = DmChosen(IF r.started THEN r2 ELSE r1)
    BY <1>3 DEF ReloadDmOp, Situations
  <2>2. lost \in SUBSET (DMs \cup {None})  BY DEF Situations
  <2> HIDE DEF lost
  <2>3. r1 \in Situations /\ Core(r1) = Core(r) /\ r1.ids = r.ids /\ r1.left = r.left
        /\ r1.half = r.half /\ r1.lied = r.lied /\ r1.silent = r.silent
        /\ r1.dm = d /\ r1.wanted = d /\ r1.st = r.st
    BY <1>3, <2>2 DEF Situations, Core
  <2> HIDE DEF r1
  <2>4. r2 \in Situations /\ Core(r2) = Core(r) /\ r2.ids = r.ids /\ r2.left = r.left
        /\ r2.half = r.half /\ r2.lied = r.lied /\ r2.silent = r.silent
        /\ r2.dm = d /\ r2.wanted = d /\ r2.st = r.st
    BY <2>3, LoadedDmKeeps
  <2> HIDE DEF r2
  <2>5. CASE r.started  BY <2>1, <2>4, <2>5, DmChosenKeeps
  <2>6. CASE ~r.started  BY <2>1, <2>3, <2>6, DmChosenKeeps
  <2> QED BY <2>5, <2>6
<1> QED BY <1>1, <1>2, <1>3

LEMMA MovedIsSound ==
  ASSUME NEW r, Sound(r), NEW q, DmMoved(r, q)
  PROVE  /\ Sound(q) /\ q.prj = r.prj /\ q.lg = r.lg /\ q.started = r.started
         /\ AllUp(r) => AllUp(q)
<1>1. Sound(q)  BY SameCore DEF DmMoved, Sound, Steady
<1> QED BY <1>1 DEF DmMoved, Core, AllUp

\* load_targets() only changes the ids that the next launch takes.
LEMMA LoadTargetsKeeps ==
  ASSUME NEW r, Sound(r), NEW ids \in IdSets, NEW q, q = LoadTargetsOp(r, ids)
  PROVE  /\ Sound(q) /\ Core(q) = Core(r) /\ Asked(q) = Asked(r) /\ q.st = r.st
         /\ q.half = r.half /\ q.lied = r.lied /\ q.left = r.left
<1>1. ids \in SUBSET (Ids \cup {0}) /\ ids # {}  BY LaunchAssumption DEF LaunchAssumption, Ids
<1>2. r \in Situations /\ r.ids # {}  BY DEF Sound, Steady
<1>3. /\ q \in Situations /\ Core(q) = Core(r) /\ Asked(q) = Asked(r) /\ q.st = r.st
      /\ q.half = r.half /\ q.lied = r.lied /\ q.left = r.left /\ q.ids # {}
  <2>1. CASE ~IsRegistered(r)
    <3>1. q = [r EXCEPT !.res = "raised"]  BY <2>1 DEF LoadTargetsOp, Raise
    <3> QED BY <1>2, <3>1, WithRes
  <2>2. CASE IsRegistered(r) /\ Fits(r.prj, ids)
    <3>1. q = [r EXCEPT !.ids = ids, !.res = "true"]
      BY <1>2, <2>2 DEF LoadTargetsOp, Return, Situations
    <3> QED BY <1>1, <1>2, <3>1 DEF Situations, Core, Asked
  <2>3. CASE IsRegistered(r) /\ ~Fits(r.prj, ids)
    <3>1. q = [r EXCEPT !.error = TRUE, !.res = "false"]
      BY <1>2, <2>3 DEF LoadTargetsOp, Return, Situations
    <3> QED BY <1>2, <3>1 DEF Situations, Core, Asked
  <2> QED BY <2>1, <2>2, <2>3
<1>4. q.silent = r.silent  BY <1>3 DEF Asked
<1> QED BY <1>3, <1>4, SameCore

-----------------------------------------------------------------------------
(* The operations: what they leave is Placed.                              *)

\* An operation that did not touch the objects and is half-way, if anything is started.
LEMMA HalfwayIsPlaced ==
  ASSUME NEW r, Placed(r), NEW q, q.half, q.prj = r.prj, q.lg = r.lg, Asked(q) = Asked(r),
         q.st = r.st, q.started => r.started
  PROVE  Placed(q)
BY DEF Placed, Asked

LEMMA LoadProjectKeeps ==
  ASSUME NEW r, Sound(r), NEW p \in Projects, NEW o, NEW q, q = LoadProjectOp(r, p, o)
  PROVE  /\ Sound(q) /\ q.left = r.left
         /\ \/ /\ q.res = "true" /\ q.st = "load_dm" /\ ~q.started /\ q.prj \in Objects
            \/ /\ q.res = "raised" /\ q.half /\ q.prj = r.prj /\ q.lg = r.lg
               /\ Asked(q) = Asked(r) /\ q.st = r.st /\ (q.started => r.started)
<1> DEFINE r1 == StopPlumbing(r, o)
<1>1. /\ Sound(r1) /\ r1.prj = r.prj /\ r1.lg = r.lg /\ Asked(r1) = Asked(r)
      /\ r1.st = r.st /\ r1.left = r.left /\ r1.made = r.made /\ (r1.started => r.started)
      /\ \/ r1.res = "true" /\ ~r1.started
         \/ r1.res = "raised" /\ r1.half
  BY StopKeeps
<1>2. q = IF r1.res = "raised" THEN r1
          ELSE Final([r1 EXCEPT !.prj = Newest(r, p), !.silent = FALSE, !.lied = FALSE,
                                !.half = FALSE], "load_dm")
  BY DEF LoadProjectOp
<1> HIDE DEF r1
<1>3. CASE r1.res = "raised"  BY <1>1, <1>2, <1>3
<1>4. CASE r1.res = "true" /\ ~r1.started
  <2>0. r1 \in Situations  BY <1>1 DEF Sound, Steady
  <2>1. q = [r1 EXCEPT !.prj = Newest(r, p), !.silent = FALSE, !.lied = FALSE,
                       !.half = FALSE, !.st = "load_dm"]
    BY <1>2, <1>4, <2>0 DEF Final, Situations
  <2>2. Newest(r, p) \in Objects /\ Newest(r, p) = <<p, r1.made[p]>>
    BY <1>1, ObjectFacts DEF Sound, Steady, Situations, Bounded, Newest
  <2>3. q \in Situations  BY <2>0, <2>1, <2>2 DEF Situations, States
  <2>4. /\ q.prj = Newest(r, p) /\ q.lg = r1.lg /\ q.made = r1.made
        /\ q.targets = r1.targets /\ q.started = r1.started /\ q.enabled = r1.enabled
        /\ q.up = r1.up /\ q.leaked = r1.leaked /\ q.orphans = r1.orphans
        /\ q.handler = r1.handler /\ q.ids = r1.ids /\ q.left = r1.left
        /\ q.res = "true" /\ q.st = "load_dm"
    BY <1>4, <2>0, <2>1 DEF Situations
  <2>5. Steady(q)
    BY <1>1, <1>4, <2>3, <2>4 DEF Sound, Steady, Bounded, OneProject, Traced
  <2>6. IsRegistered(q)  BY <2>2, <2>4 DEF IsRegistered
  <2> QED BY <1>1, <1>4, <2>2, <2>4, <2>5, <2>6 DEF Sound
<1> QED BY <1>1, <1>3, <1>4

\* What an operation that launches leaves, before EnforceOrder looks at what it returned.
Launched(q) ==
    /\ Sound(q)
    /\ q.res = "true" => /\ q.prj \in Objects /\ q.lg = q.prj /\ Told(q)
                         /\ q.lied \/ q.half \/ AllUp(q)
    /\ q.res # "true" => Placed(q)

LEMMA FinalIsPlaced ==
  ASSUME NEW q, Launched(q)
  PROVE  /\ Sound(Final(q, "S2")) /\ Placed(Final(q, "S2"))
         /\ Final(q, "S2").left = q.left
<1>1. CASE q.res = "true"
  <2> DEFINE f == [q EXCEPT !.st = "S2"]
  <2>1. Final(q, "S2") = f  BY <1>1 DEF Final
  <2>2. Sound(q) /\ q \in Situations  BY DEF Launched, Sound, Steady
  <2>3. f \in Situations  BY <2>2 DEF Situations, States
  <2>4. /\ Core(f) = Core(q) /\ Asked(f) = Asked(q) /\ f.ids = q.ids /\ f.left = q.left
        /\ f.half = q.half /\ f.lied = q.lied /\ f.st = "S2" /\ f.silent = q.silent
    BY <2>2 DEF Situations, Core, Asked
  <2> HIDE DEF f
  <2>5. Sound(f)  BY <2>2, <2>3, <2>4, SameCore DEF Sound, Steady
  <2>6. Placed(f)
    BY <1>1, <2>4 DEF Launched, Placed, Core, Asked, AllUp, Told
  <2> QED BY <2>1, <2>4, <2>5, <2>6
<1>2. CASE q.res # "true"  BY <1>2 DEF Final, Launched
<1> QED BY <1>1, <1>2

LEMMA LaunchCmdKeeps ==
  ASSUME NEW r, Sound(r), Placed(r), r.st = "S1", r.res = "true",
         NEW o, NEW q, q = LaunchCmdOp(r, o)
  PROVE  Launched(q) /\ q.left = r.left
<1>1. r.prj \in Objects /\ (~r.started \/ r.half) /\ Told(r) /\ r \in Situations
  BY DEF Placed, Sound, Steady, Told
<1>2. CASE ~r.toReload
  <2>1. q = LaunchOp(r, o)  BY <1>2 DEF LaunchCmdOp
  <2>2. /\ Sound(q) /\ q.prj = r.prj /\ q.lg = r.prj /\ Asked(q) = Asked(r)
        /\ q.st = r.st /\ q.left = r.left
        /\ q.res = "true" => q.half \/ AllUp(q)
        /\ q.res # "true" => ~q.started \/ q.half
    BY <1>1, <2>1, LaunchKeeps
  <2> QED BY <1>1, <2>2 DEF Launched, Placed, Told, Asked
<1>3. CASE r.toReload
  <2> DEFINE r0 == [r EXCEPT !.toReload = FALSE]
             r1 == ReloadDmOp(r0, r.dm, o)
             r3 == Return(r1, TRUE)
             r2 == LaunchOp(r3, o)
             r4 == [r2 EXCEPT !.lied = (r2.res = "false"), !.res = "true"]
  <2>1. r0 \in Situations /\ Core(r0) = Core(r) /\ Asked(r0) = Asked(r) /\ r0.st = r.st
        /\ r0.left = r.left /\ r0.half = r.half /\ r0.lied = r.lied /\ r0.dm = r.dm
        /\ r0.ids = r.ids /\ r0.silent = r.silent /\ r.dm \in DMs \cup {None}
    BY <1>1 DEF Situations, Core, Asked
  <2>2. Sound(r0)  BY <2>1, SameCore DEF Sound, Steady
  <2>3. DmMoved(r0, r1)  BY <2>1, ReloadDmKeeps
  <2>4. q = IF r1.res = "raised" THEN r1
            ELSE IF r2.res = "raised" THEN r2
            ELSE Return([r2 EXCEPT !.lied = (r2.res = "false")], TRUE)
    BY <1>3 DEF LaunchCmdOp
  <2> HIDE DEF r0, r1
  <2>5. /\ Sound(r1) /\ r1 \in Situations /\ r1.prj = r.prj /\ r1.lg = r.lg
        /\ r1.started = r.started /\ r1.half = r.half /\ Told(r1) /\ r1.st = r.st
        /\ r1.left = r.left
    <3>1. Told(r0)  BY <1>1, <2>1 DEF Told, Asked
    <3>2. Told(r1)  BY <2>3, <3>1 DEF DmMoved, Told, Asked
    <3> QED BY <2>1, <2>2, <2>3, <3>2, MovedIsSound DEF DmMoved, Core
  <2>6. /\ Sound(r3) /\ r3.res = "true" /\ r3.prj = r.prj
        /\ r3.started = r.started /\ r3.half = r.half /\ Told(r3) /\ r3.st = r.st
        /\ r3.left = r.left
    <3>1. r3 = [r1 EXCEPT !.res = "true"]  BY DEF Return
    <3> HIDE DEF r3
    <3> QED BY <2>5, <3>1, WithRes DEF Core, Asked, Told
  <2> HIDE DEF r3
  <2>7. /\ Sound(r2) /\ r2.prj = r.prj /\ r2.lg = r.prj /\ Told(r2)
        /\ r2.st = r.st /\ r2.left = r.left
        /\ r2.res = "true" => r2.half \/ AllUp(r2)
        /\ r2.res # "true" => ~r2.started \/ r2.half
    BY <1>1, <2>6, LaunchKeeps DEF Told, Asked
  <2> HIDE DEF r2
  <2>8. CASE r1.res = "raised"
    BY <1>1, <2>4, <2>5, <2>8 DEF Launched, Placed, Told
  <2>9. CASE r1.res # "raised" /\ r2.res = "raised"
    BY <1>1, <2>4, <2>7, <2>9 DEF Launched, Placed, Told
  <2>10. CASE r1.res # "raised" /\ r2.res # "raised"
    <3>1. r2 \in Situations  BY <2>7 DEF Sound, Steady
    <3>2. q = r4  BY <2>4, <2>10, <3>1 DEF Return, Situations
    <3>3. /\ q \in Situations /\ Core(q) = Core(r2) /\ q.half = r2.half
          /\ q.ids = r2.ids /\ Asked(q) = Asked(r2) /\ q.silent = r2.silent
          /\ q.left = r2.left /\ q.res = "true" /\ (q.lied <=> r2.res = "false")
      BY <3>1, <3>2 DEF Situations, Core, Asked
    <3>4. Sound(q)  BY <2>7, <3>3, SameCore DEF Sound, Steady
    <3>5. r2.res = "true" \/ r2.res = "false"  BY <2>10, <3>1 DEF Situations
    <3> QED BY <1>1, <2>7, <3>3, <3>4, <3>5 DEF Launched, Core, Asked, Told, AllUp
  <2> QED BY <2>8, <2>9, <2>10
<1> QED BY <1>2, <1>3

LEMMA RunRestKeeps ==
  ASSUME NEW r, Sound(r), r.st = "load_dm", ~r.started, r.prj \in Objects,
         NEW d \in DMs \cup {Unknown}, NEW ids \in IdSets, NEW o,
         NEW q, q = RunRestOp(r, d, ids, o)
  PROVE  Launched(q) /\ q.left = r.left
<1> DEFINE r1 == IF r.toReload THEN ReloadDmOp(r, d, o) ELSE LoadDmOp(r, d, o)
           ok == IF r.toReload THEN ~r1.error ELSE r1.res = "true"
           r2 == [r1 EXCEPT !.toReload = FALSE]
           r3 == LoadTargetsOp(r2, ids)
           r4 == Return(r3, TRUE)
<1>1. r \in Situations  BY DEF Sound, Steady
<1>2. DmMoved(r, r1)
  <2>1. CASE r.toReload
    <3>1. d \in DMs \cup {Unknown, None} /\ d # None
      BY LaunchAssumption DEF LaunchAssumption
    <3>2. DmMoved(r, ReloadDmOp(r, d, o))  BY <1>1, <3>1, ReloadDmKeeps
    <3> QED BY <2>1, <3>2
  <2>2. CASE ~r.toReload
    <3>1. DmMoved(r, LoadDmOp(r, d, o))  BY <1>1, LoadDmKeeps
    <3> QED BY <2>2, <3>1
  <2> QED BY <2>1, <2>2
<1>3. q = IF r1.res = "raised" THEN r1
          ELSE IF ok THEN LaunchOp(r4, o)
          ELSE Return([r1 EXCEPT !.toReload = TRUE], FALSE)
  BY DEF RunRestOp
<1>4. r1.res # "raised" /\ ok => Told(r1)
  <2>1. r1.res \in {"true", "false", "raised"}  BY <1>2 DEF DmMoved, Situations
  <2> QED BY <1>2, <2>1 DEF DmMoved
<1> HIDE DEF r1, ok
<1>5. /\ Sound(r1) /\ r1 \in Situations /\ r1.prj = r.prj /\ ~r1.started
      /\ r1.left = r.left /\ r1.st \in {"load_dm", "S1"} /\ (r1.st = "S1" => Told(r1))
  BY <1>2, MovedIsSound DEF DmMoved, Core
<1>6. CASE r1.res = "raised"
  BY <1>3, <1>5, <1>6 DEF Launched, Placed, Told
<1>7. CASE r1.res # "raised" /\ ok
  <2>1. /\ r2 \in Situations /\ Core(r2) = Core(r1) /\ Asked(r2) = Asked(r1)
        /\ r2.st = r1.st /\ r2.left = r1.left /\ r2.ids = r1.ids /\ r2.silent = r1.silent
    BY <1>5 DEF Situations, Core, Asked
  <2> HIDE DEF r2
  <2>2. Sound(r2)  BY <1>5, <2>1, SameCore DEF Sound, Steady
  <2>3. /\ Sound(r2) /\ Core(r2) = Core(r1) /\ Asked(r2) = Asked(r1) /\ r2.st = r1.st
        /\ r2.left = r.left
    BY <1>5, <2>1, <2>2
  <2>4. /\ Sound(r3) /\ Core(r3) = Core(r1) /\ Asked(r3) = Asked(r1) /\ r3.st = r1.st
        /\ r3.left = r.left
    BY <2>3, LoadTargetsKeeps
  <2>5. r4 = [r3 EXCEPT !.res = "true"]  BY DEF Return
  <2> HIDE DEF r3, r4
  <2>6. /\ Sound(r4) /\ r4.res = "true" /\ Core(r4) = Core(r1) /\ Asked(r4) = Asked(r1)
        /\ r4.st = r1.st /\ r4.left = r.left
    <3>1. r3 \in Situations  BY <2>4 DEF Sound, Steady
    <3> QED BY <2>4, <2>5, <3>1, WithRes
  <2>7. r4.prj = r.prj /\ ~r4.started /\ Told(r4)
    BY <1>4, <1>5, <1>7, <2>6 DEF Core, Asked, Told
  <2>8. q = LaunchOp(r4, o)  BY <1>3, <1>7
  <2>9. /\ Sound(q) /\ q.prj = r.prj /\ q.lg = r.prj /\ Asked(q) = Asked(r4)
        /\ q.st = r1.st /\ q.left = r.left
        /\ q.res = "true" => q.half \/ AllUp(q)
        /\ q.res # "true" => ~q.started \/ q.half
    BY <2>6, <2>7, <2>8, LaunchKeeps
  <2>10. Told(q)  BY <2>7, <2>9 DEF Asked, Told
  <2> QED BY <1>5, <2>9, <2>10 DEF Launched, Placed, Told
<1>8. CASE r1.res # "raised" /\ ~ok
  <2>1. q = [r1 EXCEPT !.toReload = TRUE, !.res = "false"]
    BY <1>3, <1>5, <1>8 DEF Return, Situations
  <2>2. /\ q \in Situations /\ Core(q) = Core(r1) /\ Asked(q) = Asked(r1) /\ q.st = r1.st
        /\ q.left = r1.left /\ q.ids = r1.ids /\ q.silent = r1.silent /\ q.res = "false"
    BY <1>5, <2>1 DEF Situations, Core, Asked
  <2>3. Sound(q)  BY <1>5, <2>2, SameCore DEF Sound, Steady
  <2> QED BY <1>5, <2>2, <2>3 DEF Launched, Placed, Told, Asked, Core
<1> QED BY <1>6, <1>7, <1>8

LEMMA RunProjectKeeps ==
  ASSUME NEW r, Sound(r), Placed(r), NEW p \in Projects,
         NEW d \in DMs \cup {None, Unknown}, NEW ids \in IdSets, NEW o,
         NEW q, q = RunProjectOp(r, p, d, ids, o)
  PROVE  Launched(q) /\ q.left = r.left
<1> DEFINE r1 == LoadProjectOp(r, p, o)
<1>1. /\ Sound(r1) /\ r1.left = r.left
      /\ \/ /\ r1.res = "true" /\ r1.st = "load_dm" /\ ~r1.started /\ r1.prj \in Objects
         \/ /\ r1.res = "raised" /\ r1.half /\ r1.prj = r.prj /\ r1.lg = r.lg
            /\ Asked(r1) = Asked(r) /\ r1.st = r.st /\ (r1.started => r.started)
  BY LoadProjectKeeps
<1>2. q = IF r1.res = "raised" THEN r1
          ELSE IF d = None THEN Return([r1 EXCEPT !.error = TRUE], FALSE)
          ELSE RunRestOp(r1, d, ids, o)
  BY DEF RunProjectOp
<1> HIDE DEF r1
<1>3. CASE r1.res = "raised"
  <2>1. Placed(r1)  BY <1>1, <1>3, HalfwayIsPlaced
  <2> QED BY <1>1, <1>2, <1>3, <2>1 DEF Launched
<1>4. CASE r1.res # "raised" /\ d = None
  <2>1. r1 \in Situations /\ r1.ids # {}  BY <1>1 DEF Sound, Steady
  <2>2. q = [r1 EXCEPT !.error = TRUE, !.res = "false"]
    BY <1>2, <1>4, <2>1 DEF Return, Situations
  <2>3. /\ q \in Situations /\ Core(q) = Core(r1) /\ q.st = r1.st /\ q.left = r1.left
        /\ q.ids = r1.ids /\ q.silent = r1.silent /\ q.res = "false"
    BY <2>1, <2>2 DEF Situations, Core
  <2>4. Sound(q)  BY <1>1, <2>1, <2>3, SameCore
  <2> QED BY <1>1, <1>4, <2>3, <2>4 DEF Launched, Placed, Core
<1>5. CASE r1.res # "raised" /\ d # None
  BY <1>1, <1>2, <1>5, RunRestKeeps
<1> QED BY <1>3, <1>4, <1>5

\* New objects replace the old ones together with what the framework holds, or the failure
\* is silent.
LEMMA ReimportKeeps ==
  ASSUME NEW r, Sound(r), ~r.started, r.prj \in Objects, r.lg = r.prj, Told(r),
         r.made[r.prj[1]] < MaxReloads[r.prj[1]], NEW o, NEW q, q = Reimport(r, o)
  PROVE  /\ Sound(q) /\ ~q.started /\ q.prj \in Objects /\ q.lg = q.prj /\ Told(q)
         /\ q.st = r.st /\ q.left = r.left
<1> DEFINE x == r.prj[1]
           counts == [r.made EXCEPT ![x] = @ + 1]
           r1 == AddProject(r)
<1>1. r \in Situations /\ x \in Projects /\ r.ids # {}
  BY ObjectFacts DEF Sound, Steady
<1>2. /\ counts \in [Projects -> Nat] /\ r1 = [r EXCEPT !.made = counts]
      /\ \A p \in Projects : counts[p] <= MaxReloads[p]
  <2>1. r.made \in [Projects -> Nat] /\ MaxReloads \in [Projects -> Nat]
    BY <1>1, LaunchAssumption DEF LaunchAssumption, Situations
  <2>2. r1 = [r EXCEPT !.made = counts]  BY <1>1, <2>1 DEF AddProject, Situations
  <2> QED BY <1>1, <2>1, <2>2 DEF Sound, Steady, Bounded
<1> HIDE DEF counts
<1>3. CASE Fault(o, "prjImport")
  <2>1. q = [r EXCEPT !.silent = TRUE]  BY <1>3 DEF Reimport
  <2>2. /\ q \in Situations /\ Core(q) = Core(r) /\ q.ids = r.ids /\ q.silent
        /\ q.st = r.st /\ q.left = r.left
    BY <1>1, <2>1 DEF Situations, Core
  <2> QED BY <1>1, <2>2, SameCore DEF Core, Told
<1>4. CASE ~Fault(o, "prjImport") /\ Fault(o, "dmImport")
  <2>1. q = [r EXCEPT !.made = counts, !.silent = TRUE]
    BY <1>1, <1>2, <1>4 DEF Reimport, Situations
  <2>2. q \in Situations  BY <1>1, <1>2, <2>1 DEF Situations
  <2>3. /\ q.prj = r.prj /\ q.lg = r.lg /\ q.targets = r.targets /\ q.started = r.started
        /\ q.enabled = r.enabled /\ q.up = r.up /\ q.leaked = r.leaked
        /\ q.orphans = r.orphans /\ q.handler = r.handler /\ q.ids = r.ids
        /\ q.made = counts /\ q.silent /\ q.st = r.st /\ q.left = r.left
    BY <1>1, <2>1 DEF Situations
  <2>4. Sound(q)
    BY <1>2, <2>2, <2>3 DEF Sound, Steady, Bounded, OneProject, Traced
  <2> QED BY <2>3, <2>4 DEF Told
<1>5. CASE ~Fault(o, "prjImport") /\ ~Fault(o, "dmImport")
  <2> DEFINE lost == r.lost \ {r.dm}
             r2 == [r EXCEPT !.made = counts, !.lost = lost]
             p == <<x, counts[x]>>
  <2>1. q = InitStep1(r2, p)
    <3>1. q = InitStep1([r1 EXCEPT !.lost = r1.lost \ {r.dm}], Newest(r1, x))
      BY <1>1, <1>2, <1>5 DEF Reimport, Situations
    <3>2. r1.lost = r.lost /\ r1.made = counts  BY <1>1, <1>2 DEF Situations
    <3>3. [r1 EXCEPT !.lost = lost] = r2  BY <1>1, <1>2 DEF Situations
    <3>4. Newest(r1, x) = p  BY <3>2 DEF Newest
    <3> QED BY <3>1, <3>2, <3>3, <3>4
  <2>2. lost \in SUBSET (DMs \cup {None})  BY <1>1 DEF Situations
  <2>3. p \in Objects /\ p[1] = x  BY <1>1, <1>2, ObjectFacts
  <2> HIDE DEF lost
  <2>4. r2 \in Situations  BY <1>1, <1>2, <2>2 DEF Situations
  <2>5. /\ r2.prj = r.prj /\ r2.lg = r.lg /\ r2.targets = r.targets
        /\ r2.started = r.started /\ r2.enabled = r.enabled /\ r2.up = r.up
        /\ r2.leaked = r.leaked /\ r2.orphans = r.orphans /\ r2.handler = r.handler
        /\ r2.ids = r.ids /\ r2.made = counts /\ r2.st = r.st /\ r2.left = r.left
        /\ Asked(r2) = Asked(r)
    BY <1>1 DEF Situations, Asked
  <2> HIDE DEF r2
  <2>6. Steady(r2)
    BY <1>2, <2>4, <2>5 DEF Sound, Steady, Bounded, OneProject, Traced
  <2>7. p = Newest(r2, p[1])  BY <2>3, <2>5 DEF Newest
  <2>8. /\ Sound(q) /\ q.prj = p /\ q.lg = p /\ Asked(q) = Asked(r2) /\ q.st = r2.st
        /\ q.started = r2.started /\ q.left = r2.left
    BY <2>1, <2>3, <2>5, <2>6, <2>7, InitStep1Keeps
  <2> QED BY <2>3, <2>5, <2>8 DEF Told, Asked
<1> QED BY <1>3, <1>4, <1>5

LEMMA ReloadAllKeeps ==
  ASSUME NEW r, Sound(r), Placed(r), r.st = "S2",
         r.made[r.prj[1]] < MaxReloads[r.prj[1]], NEW ids \in IdSets \cup {{}}, NEW o,
         NEW q, q = ReloadAllOp(r, ids, o)
  PROVE  Sound(q) /\ Placed(q) /\ q.left = r.left
<1> DEFINE r1 == StopPlumbing(r, o)
           r2 == IF ids = {} THEN r1 ELSE LoadTargetsOp(r1, ids)
           r0 == Reimport(r2, o)
           r3 == StartPlumbing(r0, o)
           r4 == StopPlumbing(r3, o)
<1>1. r \in Situations /\ r.prj \in Objects /\ r.lg = r.prj /\ Told(r)
  BY DEF Sound, Steady, Placed, Told
<1>2. q = IF ~IsRegistered(r) THEN Raise(r)
          ELSE IF r1.res = "raised" THEN r1
          ELSE IF r3.res = "raised" THEN r3
          ELSE IF ~r3.error THEN Return(r3, TRUE)
          ELSE IF r4.res = "raised" THEN r4
          ELSE Return([r4 EXCEPT !.lied = TRUE], FALSE)
  BY DEF ReloadAllOp, Failed
<1>3. CASE ~IsRegistered(r)
  <2>1. q = [r EXCEPT !.res = "raised"]  BY <1>2, <1>3 DEF Raise
  <2>2. /\ Sound(q) /\ Core(q) = Core(r) /\ Asked(q) = Asked(r) /\ q.st = r.st
        /\ q.half = r.half /\ q.lied = r.lied /\ q.left = r.left
        /\ AllUp(r) => AllUp(q)
    BY <1>1, <2>1, WithRes
  <2> QED BY <2>2 DEF Placed, Core, Asked
<1>4. /\ Sound(r1) /\ r1.prj = r.prj /\ r1.lg = r.lg /\ Asked(r1) = Asked(r)
      /\ r1.st = r.st /\ r1.left = r.left /\ r1.made = r.made /\ (r1.started => r.started)
      /\ \/ r1.res = "true" /\ ~r1.started
         \/ r1.res = "raised" /\ r1.half
  BY StopKeeps
<1> HIDE DEF r1
<1>5. CASE IsRegistered(r) /\ r1.res = "raised"
  <2>1. q = r1  BY <1>2, <1>5
  <2>2. Placed(r1)  BY <1>4, <1>5, HalfwayIsPlaced
  <2> QED BY <1>4, <2>1, <2>2
<1>6. CASE IsRegistered(r) /\ r1.res # "raised"
  <2>1. /\ Sound(r2) /\ Core(r2) = Core(r1) /\ Asked(r2) = Asked(r1) /\ r2.st = r1.st
        /\ r2.left = r1.left
    BY <1>4, LoadTargetsKeeps
  <2> HIDE DEF r2
  <2>2. /\ ~r2.started /\ r2.prj = r.prj /\ r2.lg = r.prj /\ Told(r2) /\ r2.made = r.made
    BY <1>1, <1>4, <1>6, <2>1 DEF Core, Told, Asked
  <2>3. /\ Sound(r0) /\ ~r0.started /\ r0.prj \in Objects /\ r0.lg = r0.prj /\ Told(r0)
        /\ r0.st = r.st /\ r0.left = r.left
    BY <1>1, <1>4, <2>1, <2>2, ReimportKeeps
  <2> HIDE DEF r0
  <2>4. /\ Sound(r3) /\ r3.prj = r0.prj /\ r3.lg = r0.lg /\ Asked(r3) = Asked(r0)
        /\ r3.st = r.st /\ r3.left = r.left
        /\ r3.res = "true" /\ ~r3.error => AllUp(r3)
        /\ r3.res = "false" => r3.error
        /\ r3.res = "raised" => r3.half
    BY <2>3, StartKeeps
  <2> HIDE DEF r3
  <2>5. /\ Sound(r4) /\ r4.prj = r0.prj /\ r4.lg = r0.lg /\ Asked(r4) = Asked(r0)
        /\ r4.st = r.st /\ r4.left = r.left
        /\ r4.res = "raised" => r4.half
    BY <2>4, StopKeeps
  <2> HIDE DEF r4
  <2>6. r3 \in Situations /\ r4 \in Situations /\ r3.res \in {"true", "false", "raised"}
    BY <2>4, <2>5 DEF Sound, Steady, Situations
  <2>7. ASSUME q.prj = r0.prj, q.lg = r0.lg, Asked(q) = Asked(r0), q.st = r.st,
               q.lied \/ q.half \/ AllUp(q)
        PROVE  Placed(q)
    BY <2>3, <2>7 DEF Placed, Told, Asked
  <2>8. CASE r3.res = "raised"
    <3>1. q = r3  BY <1>2, <1>6, <2>8
    <3> QED BY <2>4, <2>7, <2>8, <3>1
  <2>9. CASE r3.res # "raised" /\ ~r3.error
    <3>1. q = [r3 EXCEPT !.res = "true"]  BY <1>2, <1>6, <2>9 DEF Return
    <3>2. /\ Sound(q) /\ Core(q) = Core(r3) /\ Asked(q) = Asked(r3) /\ q.st = r3.st
          /\ q.left = r3.left /\ AllUp(q)
      BY <2>4, <2>6, <2>9, <3>1, WithRes
    <3> QED BY <2>4, <2>7, <3>2 DEF Core
  <2>10. CASE r3.res # "raised" /\ r3.error /\ r4.res = "raised"
    <3>1. q = r4  BY <1>2, <1>6, <2>10
    <3> QED BY <2>5, <2>7, <2>10, <3>1
  <2>11. CASE r3.res # "raised" /\ r3.error /\ r4.res # "raised"
    <3>1. q = [r4 EXCEPT !.lied = TRUE, !.res = "false"]
      BY <1>2, <1>6, <2>6, <2>11 DEF Return, Situations
    <3>2. /\ q \in Situations /\ Core(q) = Core(r4) /\ Asked(q) = Asked(r4) /\ q.st = r4.st
          /\ q.left = r4.left /\ q.lied /\ q.ids = r4.ids /\ q.silent = r4.silent
      BY <2>6, <3>1 DEF Situations, Core, Asked
    <3>3. Sound(q)  BY <2>5, <3>2, SameCore DEF Sound, Steady
    <3> QED BY <2>5, <2>7, <3>2, <3>3 DEF Core
  <2> QED BY <2>8, <2>9, <2>10, <2>11
<1> QED BY <1>3, <1>5, <1>6

-----------------------------------------------------------------------------
(* The actions.                                                            *)

LEMMA FaultsAreFinite ==
  /\ IsFiniteSet(StopFaults) /\ IsFiniteSet(DmFaults) /\ IsFiniteSet(Faults)
  /\ IsFiniteSet(Faults \ {"prjImport"})
<1>1. \A x, y : IsFiniteSet({x, y})
  <2> TAKE x, y
  <2>1. IsFiniteSet({x}) /\ IsFiniteSet({y})  BY FS_Singleton
  <2>2. {x, y} = {x} \cup {y}  OBVIOUS
  <2> QED BY <2>1, <2>2, FS_Union
<1>2. IsFiniteSet(StopFaults) /\ IsFiniteSet(DmFaults) /\ IsFiniteSet(StartFaults)
  BY <1>1 DEF StopFaults, DmFaults, StartFaults
<1>3. IsFiniteSet({"prjImport"})  BY FS_Singleton
<1>4. IsFiniteSet(Faults)
  <2>1. IsFiniteSet(DmFaults \cup StartFaults)  BY <1>2, FS_Union
  <2>2. IsFiniteSet(DmFaults \cup StartFaults \cup StopFaults)  BY <1>2, <2>1, FS_Union
  <2>3. IsFiniteSet((DmFaults \cup StartFaults \cup StopFaults) \cup {"prjImport"})
    BY <1>3, <2>2, FS_Union
  <2> QED BY <2>3 DEF Faults
<1>5. Faults \ {"prjImport"} \subseteq Faults  OBVIOUS
<1> QED BY <1>2, <1>4, <1>5, FS_Subset

LEMMA CostFacts ==
  ASSUME NEW fs, IsFiniteSet(fs), NEW A \in SUBSET Ids, NEW B \in SUBSET Ids,
         NEW n \in 0..MaxFaults, NEW o \in OutcomesOf(fs, A, B)[n]
  PROVE  Cost(o) \in Nat /\ Cost(o) <= n
<1>1. /\ o \in [faults : SUBSET fs, refused : SUBSET A, unstopped : SUBSET B]
      /\ Cost(o) <= n
  BY DEF OutcomesOf
<1>2. o.faults \subseteq fs /\ o.refused \subseteq Ids /\ o.unstopped \subseteq Ids
  BY <1>1
<1>3. IsFiniteSet(Ids)  BY LaunchAssumption DEF LaunchAssumption
<1>4. IsFiniteSet(o.faults) /\ IsFiniteSet(o.refused) /\ IsFiniteSet(o.unstopped)
  BY <1>2, <1>3, FS_Subset
<1>5. /\ Cardinality(o.faults) \in Nat /\ Cardinality(o.refused) \in Nat
      /\ Cardinality(o.unstopped) \in Nat
  BY <1>4, FS_CardinalityType
<1> QED BY <1>1, <1>5 DEF Cost

LEMMA AfterKeeps ==
  ASSUME NEW q, Sound(q), Placed(q), NEW c \in Nat, c <= q.left,
         s' = [q EXCEPT !.res = "true", !.left = @ - c]
  PROVE  IInv'
<1>1. q \in Situations /\ q.left \in 0..MaxFaults  BY DEF Sound, Steady, Situations
<1>2. q.left - c \in 0..MaxFaults  BY <1>1, LaunchAssumption DEF LaunchAssumption
<1>3. /\ s' \in Situations /\ s'.res = "true" /\ s'.ids = q.ids /\ s'.silent = q.silent
      /\ Core(s') = Core(q) /\ Asked(s') = Asked(q) /\ s'.st = q.st /\ s'.half = q.half
      /\ s'.lied = q.lied
  BY <1>1, <1>2 DEF Situations, Core, Asked
<1>4. Sound(s')  BY <1>3, SameCore DEF Sound, Steady
<1>5. Placed(s')  BY <1>3 DEF Placed, Core, Asked, AllUp
<1> QED BY <1>3, <1>4, <1>5 DEF IInv

\* What an operation on a data model leaves.
LEMMA MovedIsPlaced ==
  ASSUME NEW r, Sound(r), Placed(r), NEW q, DmMoved(r, q)
  PROVE  Sound(q) /\ Placed(q)
<1>1. /\ Sound(q) /\ q.prj = r.prj /\ q.lg = r.lg /\ q.started = r.started
      /\ AllUp(r) => AllUp(q)
  BY MovedIsSound
<1> QED BY <1>1 DEF DmMoved, Placed, Told, Asked

LEMMA NextKeeps == IInv /\ [Next]_vars => IInv'
<1> SUFFICES ASSUME IInv, [Next]_vars PROVE IInv'
  OBVIOUS
<1>0. /\ Sound(s) /\ Placed(s) /\ s.res = "true" /\ s \in Situations
      /\ s.left \in 0..MaxFaults
  BY DEF IInv, Sound, Steady, Situations
<1>1. ASSUME NEW o, NEW q, Sound(q), Placed(q), q.left = s.left, Cost(o) \in Nat,
             Cost(o) <= s.left, Afterwards(o, q)
      PROVE  IInv'
  BY <1>1, AfterKeeps DEF Afterwards
<1>2. ASSUME NEW p \in Projects, LoadProject(p)  PROVE IInv'
  <2>1. PICK o \in StopOutcomes[s.left] : Afterwards(o, LoadProjectOp(s, p, o))
    BY <1>2 DEF LoadProject
  <2>2. Cost(o) \in Nat /\ Cost(o) <= s.left
    BY <1>0, <2>1, FaultsAreFinite, CostFacts DEF StopOutcomes
  <2> DEFINE q == LoadProjectOp(s, p, o)
  <2>3. /\ Sound(q) /\ q.left = s.left
        /\ \/ /\ q.res = "true" /\ q.st = "load_dm" /\ ~q.started /\ q.prj \in Objects
           \/ /\ q.res = "raised" /\ q.half /\ q.prj = s.prj /\ q.lg = s.lg
              /\ Asked(q) = Asked(s) /\ q.st = s.st /\ (q.started => s.started)
    BY <1>0, LoadProjectKeeps
  <2> HIDE DEF q
  <2>4. Placed(q)
    <3>1. CASE q.res = "true"  BY <2>3, <3>1 DEF Placed
    <3>2. CASE q.res = "raised"  BY <1>0, <2>3, <3>2, HalfwayIsPlaced
    <3> QED BY <2>3, <3>1, <3>2
  <2> QED BY <1>1, <2>1, <2>2, <2>3, <2>4 DEF q
<1>3. ASSUME NEW d \in DMs \cup {Unknown}, LoadDataModel(d)  PROVE IInv'
  <2>1. PICK o \in DmOutcomes[s.left] : Afterwards(o, LoadDmOp(s, d, o))
    BY <1>3 DEF LoadDataModel
  <2>2. Cost(o) \in Nat /\ Cost(o) <= s.left
    BY <1>0, <2>1, FaultsAreFinite, CostFacts DEF DmOutcomes
  <2>3. DmMoved(s, LoadDmOp(s, d, o))  BY <1>0, LoadDmKeeps
  <2> QED BY <1>0, <1>1, <2>1, <2>2, <2>3, MovedIsPlaced DEF DmMoved
<1>4. ASSUME NEW ids \in IdSets, LoadTargets(ids)  PROVE IInv'
  <2> DEFINE q == LoadTargetsOp(s, ids)
  <2>1. s' = [q EXCEPT !.res = "true"]  BY <1>4 DEF LoadTargets
  <2>2. /\ Sound(q) /\ Core(q) = Core(s) /\ Asked(q) = Asked(s) /\ q.st = s.st
        /\ q.half = s.half /\ q.lied = s.lied /\ q.left = s.left
    BY <1>0, LoadTargetsKeeps
  <2> HIDE DEF q
  <2>3. q \in Situations  BY <2>2 DEF Sound, Steady
  <2>4. /\ Sound(s') /\ Core(s') = Core(s) /\ Asked(s') = Asked(s) /\ s'.st = s.st
        /\ s'.half = s.half /\ s'.lied = s.lied /\ s'.res = "true"
    BY <2>1, <2>2, <2>3, WithRes
  <2>5. Placed(s')  BY <1>0, <2>4 DEF Placed, Core, Asked, AllUp
  <2> QED BY <2>4, <2>5 DEF IInv
<1>5. CASE Launch
  <2>1. PICK o \in LaunchOutcomes[s.left] : Afterwards(o, Final(LaunchCmdOp(s, o), "S2"))
    BY <1>5 DEF Launch
  <2>2. Cost(o) \in Nat /\ Cost(o) <= s.left
    BY <1>0, <2>1, FaultsAreFinite, CostFacts DEF LaunchOutcomes
  <2>3. s.st = "S1"  BY <1>5 DEF Launch, MayCall
  <2>4. Launched(LaunchCmdOp(s, o)) /\ LaunchCmdOp(s, o).left = s.left
    BY <1>0, <2>3, LaunchCmdKeeps
  <2> QED BY <1>1, <2>1, <2>2, <2>4, FinalIsPlaced
<1>6. ASSUME NEW p \in Projects, NEW d \in DMs \cup {None, Unknown}, NEW ids \in IdSets,
             RunProject(p, d, ids)
      PROVE  IInv'
  <2>1. PICK o \in LaunchOutcomes[s.left] :
          Afterwards(o, Final(RunProjectOp(s, p, d, ids, o), "S2"))
    BY <1>6 DEF RunProject
  <2>2. Cost(o) \in Nat /\ Cost(o) <= s.left
    BY <1>0, <2>1, FaultsAreFinite, CostFacts DEF LaunchOutcomes
  <2>3. Launched(RunProjectOp(s, p, d, ids, o)) /\ RunProjectOp(s, p, d, ids, o).left = s.left
    BY <1>0, RunProjectKeeps
  <2> QED BY <1>1, <2>1, <2>2, <2>3, FinalIsPlaced
<1>7. CASE ReloadDm
  <2>1. PICK o \in DmOutcomes[s.left] : Afterwards(o, ReloadDmOp(s, s.dm, o))
    BY <1>7 DEF ReloadDm
  <2>2. Cost(o) \in Nat /\ Cost(o) <= s.left
    BY <1>0, <2>1, FaultsAreFinite, CostFacts DEF DmOutcomes
  <2>3. s.dm \in DMs \cup {Unknown, None}  BY <1>0 DEF Situations
  <2>4. DmMoved(s, ReloadDmOp(s, s.dm, o))  BY <1>0, <2>3, ReloadDmKeeps
  <2> QED BY <1>0, <1>1, <2>1, <2>2, <2>4, MovedIsPlaced DEF DmMoved
<1>8. ASSUME NEW ids \in IdSets \cup {{}}, ReloadAll(ids)  PROVE IInv'
  <2>1. PICK o \in ReloadOutcomes[s.left] : Afterwards(o, ReloadAllOp(s, ids, o))
    BY <1>8 DEF ReloadAll
  <2>2. Cost(o) \in Nat /\ Cost(o) <= s.left
    BY <1>0, <2>1, FaultsAreFinite, CostFacts DEF ReloadOutcomes
  <2>3. s.st = "S2" /\ s.made[s.prj[1]] < MaxReloads[s.prj[1]]
    BY <1>8 DEF ReloadAll, MayCall
  <2> DEFINE q == ReloadAllOp(s, ids, o)
  <2>4. Sound(q) /\ Placed(q) /\ q.left = s.left
    <3> DEFINE x == q
    <3>1. x = ReloadAllOp(s, ids, o)  OBVIOUS
    <3> HIDE DEF x
    <3>2. Sound(x) /\ Placed(x) /\ x.left = s.left
      BY ONLY <1>0, <1>8, <2>3, <3>1, ReloadAllKeeps
    <3> QED BY <3>1, <3>2
  <2> HIDE DEF q
  <2> QED BY <1>1, <2>1, <2>2, <2>4 DEF q
<1>9. CASE Exit
  <2>1. PICK o \in StopOutcomes[s.left] : Afterwards(o, Final(StopPlumbing(s, o), "off"))
    BY <1>9 DEF Exit
  <2>2. Cost(o) \in Nat /\ Cost(o) <= s.left
    BY <1>0, <2>1, FaultsAreFinite, CostFacts DEF StopOutcomes
  <2> DEFINE q == StopPlumbing(s, o)
             f == Final(q, "off")
  <2>3. /\ Sound(q) /\ q.prj = s.prj /\ q.lg = s.lg /\ Asked(q) = Asked(s)
        /\ q.st = s.st /\ q.left = s.left /\ (q.started => s.started)
        /\ \/ q.res = "true" /\ ~q.started
           \/ q.res = "raised" /\ q.half
    BY <1>0, StopKeeps
  <2> HIDE DEF q
  <2>4. CASE q.res = "raised"
    <3>1. f = q  BY <2>4 DEF Final
    <3>2. Placed(q)  BY <1>0, <2>3, <2>4, HalfwayIsPlaced
    <3> QED BY <1>1, <2>1, <2>2, <2>3, <3>1, <3>2 DEF q
  <2>5. CASE q.res = "true" /\ ~q.started
    <3>1. q \in Situations  BY <2>3 DEF Sound, Steady
    <3>2. f = [q EXCEPT !.st = "off"]  BY <2>5 DEF Final
    <3> HIDE DEF f
    <3>3. /\ f \in Situations /\ Core(f) = Core(q) /\ f.ids = q.ids /\ f.left = q.left
          /\ f.silent = q.silent /\ f.st = "off"
      BY <3>1, <3>2 DEF Situations, Core, States
    <3>4. Sound(f)  BY <2>3, <3>3, SameCore DEF Sound, Steady
    <3>5. Placed(f)  BY <2>5, <3>3 DEF Placed, Core
    <3> QED BY <1>1, <2>1, <2>2, <2>3, <3>3, <3>4, <3>5 DEF f, q
  <2> QED BY <2>3, <2>4, <2>5
<1>10. CASE UNCHANGED vars
  BY <1>10 DEF vars, IInv
<1> QED BY <1>2, <1>3, <1>4, <1>5, <1>6, <1>7, <1>8, <1>9, <1>10 DEF Next

LEMMA InitIsRight == Init => IInv
<1> SUFFICES ASSUME Init PROVE IInv
  OBVIOUS
<1>1. s \in Situations
  <2> DEFINE counts == [p \in Projects |-> 0]
             h == [p \in Objects |-> "none"]
  <2>1. counts \in [Projects -> Nat] /\ h \in [Objects -> HandlerStates]
    BY DEF HandlerStates
  <2>2. MaxFaults \in 0..MaxFaults  BY LaunchAssumption DEF LaunchAssumption
  <2> HIDE DEF counts, h
  <2>3. s = [st |-> "load_prj", prj |-> None, lg |-> None, dm |-> None,
             made |-> counts, ids |-> {0}, targets |-> {},
             started |-> FALSE, enabled |-> FALSE, error |-> FALSE,
             toReload |-> FALSE, lost |-> {}, up |-> {}, left |-> MaxFaults,
             handler |-> h, res |-> "true", leaked |-> {}, orphans |-> {}, lied |-> FALSE,
             half |-> FALSE, wanted |-> None, silent |-> FALSE]
    BY DEF Init, counts, h
  <2> QED BY <2>1, <2>2, <2>3 DEF Situations, States, HandlerStates
<1>2. /\ s.st = "load_prj" /\ s.prj = None /\ s.lg = None /\ ~s.started /\ s.up = {}
      /\ s.ids = {0} /\ s.res = "true"
      /\ \A p \in Projects : s.made[p] = 0
      /\ \A p \in Objects : s.handler[p] = "none"
  BY DEF Init
<1>3. Bounded(s)  BY <1>2, LaunchAssumption DEF LaunchAssumption, Bounded
<1>4. OneProject(s) /\ Traced(s)  BY <1>2, ObjectFacts DEF OneProject, Traced
<1>5. Sound(s)  BY <1>1, <1>2, <1>3, <1>4, ObjectFacts DEF Sound, Steady
<1> QED BY <1>2, <1>5 DEF IInv, Placed

LEMMA Inductive == Spec => []IInv
BY InitIsRight, NextKeeps, PTL DEF Spec

-----------------------------------------------------------------------------
(* The theorems.                                                           *)

\* Between two operations every field has its type, and the current targets are those of
\* one project, whatever was loaded, reloaded and went wrong.
THEOREM TypeCorrect == Spec => []TypeOK
<1>1. IInv => TypeOK
  BY DEF IInv, Sound, Steady, Bounded, OneProject, TypeOK
<1> QED BY <1>1, Inductive, PTL

\* Where data can be sent everything is up, for any projects and targets, except after
\* what a launch() or a reload_all() hides and what an exception leaves half-way
\* (plumbing.py:630-680, 1606-1687).
THEOREM EverythingIsUp == Spec => []ReadyToSend
<1>1. IInv => ReadyToSend  BY DEF IInv, Placed, AllUp, ReadyToSend
<1> QED BY <1>1, Inductive, PTL

\* What a stopped framework leaves running was left behind by a failure that is known
\* (plumbing.py:1162-1260).
THEOREM StoppedIsQuiet == Spec => []NothingLeftRunning
<1>1. IInv => NothingLeftRunning
  BY DEF IInv, Sound, Steady, Traced, NothingLeftRunning
<1> QED BY <1>1, Inductive, PTL

\* What runs is what was last asked for, unless a module could not be imported
\* (plumbing.py:549-606, 633-680).
THEOREM WhatWasAskedRuns == Spec => []RunsWhatWasAsked
<1>1. IInv => RunsWhatWasAsked
  BY DEF IInv, Sound, Steady, Placed, RunsWhatWasAsked
<1> QED BY <1>1, Inductive, PTL
-----------------------------------------------------------------------------
(***************************************************************************)
(* The tasks of the framework (FmkTasks), for any set of task ids and any  *)
(* number of tasks: no running task is ever beyond the reach of a cleanup  *)
(* or of a callback, and a cleanup that runs to its end has told every     *)
(* running task to stop.                                                   *)
(*                                                                         *)
(* NoOrphan is not inductive: whether the task found under an id is the    *)
(* task meant depends on what the dictionary holds (Listed), on the task   *)
(* being registered not having run (Fresh), and the cleanup, which takes   *)
(* no lock, on what it has visited so far (Visited).                       *)
(***************************************************************************)
\* What the dictionary holds was created for that id, and was started.
Listed ==
    \A i \in TaskIds : list[i] # NoTask =>
        /\ list[i] <= made
        /\ idOf[list[i]] = i
        /\ pcT[list[i]] \notin {"none", "ignored"}

\* The tasks created so far are numbered 1..made; the one being registered
\* has not run.
Fresh ==
    /\ \A t \in Pool!Tasks : IF t <= made THEN idOf[t] \in TaskIds ELSE pcT[t] = "none"
    /\ pcF = "register" => made \in Pool!Tasks /\ pcT[made] = "none"

\* What the cleanup has visited is stopped or gone.
Visited ==
    /\ pcF \in {"next", "stop"} =>
         \A i \in seen : list[i] # NoTask => stop[list[i]] \/
         (pcF = "stop" /\ i = cur)
    /\ pcF = "stop" => cur \in TaskIds
    /\ pcF = "reset" => \A i \in TaskIds : list[i] # NoTask => stop[list[i]]
    /\ pcF = "cleaned" => \A i \in TaskIds : list[i] = NoTask

TasksInv == Pool!TypeOK /\ Listed /\ Fresh /\ Pool!NoOrphan /\ Visited

-----------------------------------------------------------------------------
\* Counting, as the instance does it.
LEMMA SameCount == \A S : Pool!Cardinality(S) = Cardinality(S)
  BY DEF Pool!Cardinality, Cardinality

\* The number of entries of the dictionary is bounded by the number of ids.
LEMMA EntriesBounded == Pool!Entries \in 0..Cardinality(TaskIds)
  <1>1. IsFiniteSet(TaskIds)  BY TaskPoolAssumption
  <1>2. Pool!Registered \subseteq TaskIds  BY DEF Pool!Registered
  <1>3. /\ IsFiniteSet(Pool!Registered)
        /\ Cardinality(Pool!Registered) <= Cardinality(TaskIds)
    BY <1>1, <1>2, FS_Subset
  <1>4. Cardinality(Pool!Registered) \in Nat /\ Cardinality(TaskIds) \in Nat
    BY <1>1, <1>3, FS_CardinalityType
  <1> QED  BY <1>3, <1>4, SameCount DEF Pool!Entries

LEMMA TasksInit == Pool!Init => TasksInv
  <1> SUFFICES ASSUME Pool!Init PROVE TasksInv  OBVIOUS
  <1> USE TaskPoolAssumption
  <1>1. IsFiniteSet(TaskIds)  OBVIOUS
  <1>2. Cardinality(TaskIds) \in Nat  BY <1>1, FS_CardinalityType
  <1>3. Pool!TypeOK 
    BY <1>2, SameCount DEF Pool!Init, Pool!TypeOK, Pool!Tasks, Pool!TaskStates,
                           Pool!FmkStates
  <1>4. Listed /\ Fresh /\ Pool!NoOrphan /\ Visited
    BY DEF Pool!Init, Listed, Fresh, Pool!NoOrphan, Visited, Pool!Running,
           Pool!Tasks
  <1> QED  BY <1>3, <1>4 DEF TasksInv

-----------------------------------------------------------------------------
\* The framework thread hands a new task over, then registers or ignores it.
LEMMA CreateStep ==
  ASSUME TasksInv, NEW i \in TaskIds, Pool!Create(i)
  PROVE  TasksInv'
<1> USE TaskPoolAssumption DEF Pool!Create, TasksInv, Pool!taskVars
<1>1. Pool!TypeOK'  BY DEF Pool!TypeOK, Pool!Tasks, Pool!FmkStates
<1>2. Listed'
  <2> SUFFICES ASSUME NEW j \in TaskIds, list[j] # NoTask
               PROVE  list[j] <= made' /\ idOf'[list[j]] = j
                      /\ pcT[list[j]] \notin {"none", "ignored"}
    BY DEF Listed
  <2>1. list[j] \in Pool!Tasks /\ list[j] <= made /\ idOf[list[j]] = j
        /\ pcT[list[j]] \notin {"none", "ignored"}
    BY DEF Pool!TypeOK, Listed
  <2> QED BY <2>1 DEF Pool!TypeOK, Pool!Tasks
<1>3. Fresh'
  <2>1. made' = made + 1 /\ made' \in Pool!Tasks  BY DEF Pool!TypeOK, Pool!Tasks
  <2>2. pcT[made'] = "none"  BY <2>1 DEF Fresh, Pool!TypeOK, Pool!Tasks
  <2>3. \A t \in Pool!Tasks : IF t <= made + 1 THEN idOf'[t] \in TaskIds ELSE pcT'[t] = "none"
    <3> TAKE t \in Pool!Tasks
    <3>1. CASE t <= made  BY <3>1 DEF Fresh, Pool!TypeOK, Pool!Tasks
    <3>2. CASE t = made + 1  BY <3>2 DEF Pool!TypeOK, Pool!Tasks
    <3>3. CASE t > made + 1  BY <3>3 DEF Fresh, Pool!TypeOK, Pool!Tasks
    <3> QED BY <3>1, <3>2, <3>3 DEF Pool!TypeOK, Pool!Tasks
  <2> QED BY <2>1, <2>2, <2>3 DEF Fresh
<1>4. Pool!NoOrphan'
  <2> SUFFICES ASSUME NEW t \in Pool!Tasks, Pool!Running(t), ~stop[t]
               PROVE  list[idOf'[t]] = t
    BY DEF Pool!NoOrphan, Pool!Running
  <2>1. list[idOf[t]] = t  BY DEF Pool!NoOrphan
  <2>2. t <= made  BY DEF Fresh, Pool!Running
  <2> QED BY <2>1, <2>2 DEF Pool!TypeOK, Pool!Tasks
<1>5. Visited'  BY DEF Visited
<1> QED BY <1>1, <1>2, <1>3, <1>4, <1>5

LEMMA RegisterStep ==
  ASSUME TasksInv, Pool!Register
  PROVE  TasksInv'
<1> USE TaskPoolAssumption DEF Pool!Register, TasksInv, Pool!madeVars, Pool!IdIsFree
<1> DEFINE i == idOf[made]
<1>1. made \in Pool!Tasks /\ pcT[made] = "none" /\ i \in TaskIds
  BY DEF Fresh, Pool!TypeOK, Pool!Tasks
<1>2. Pool!TypeOK'  BY <1>1 DEF Pool!TypeOK, Pool!TaskStates, Pool!FmkStates
<1>3. Fresh'  BY <1>1 DEF Fresh, Pool!TypeOK, Pool!Tasks
<1>4. Visited'  BY DEF Visited
<1>5. CASE list[i] = NoTask
  <2>1. Listed'  BY <1>1, <1>5 DEF Listed, Pool!TypeOK, Pool!Tasks
  <2>2. Pool!NoOrphan'
    <3> SUFFICES ASSUME NEW t \in Pool!Tasks, Pool!Running(t)', ~stop[t]
                 PROVE  list'[idOf[t]] = t
      BY DEF Pool!NoOrphan
    <3>1. CASE t = made  BY <1>1, <1>5, <3>1 DEF Pool!TypeOK
    <3>2. CASE t # made
      <4>1. Pool!Running(t)  BY <1>1, <1>5, <3>2 DEF Pool!Running, Pool!TypeOK
      <4>2. list[idOf[t]] = t  BY <4>1 DEF Pool!NoOrphan
      <4>3. idOf[t] # i  BY <1>5, <4>2 DEF Pool!Tasks
      <4>4. list' = [list EXCEPT ![i] = made]  BY <1>5
      <4>5. idOf[t] \in TaskIds
        <5>1. t <= made  BY <4>1 DEF Fresh, Pool!Running
        <5> QED BY <5>1 DEF Fresh
      <4> QED BY <4>2, <4>3, <4>4, <4>5 DEF Pool!TypeOK
    <3> QED BY <3>1, <3>2
  <2> QED BY <1>2, <1>3, <1>4, <2>1, <2>2
<1>6. CASE list[i] # NoTask
  <2>1. Listed'
    <3>1. /\ list' = list /\ made' = made /\ idOf' = idOf
          /\ pcT' = [pcT EXCEPT ![made] = "ignored"]
      BY <1>6
    <3>2. \A j \in TaskIds : list[j] # NoTask => list[j] \in Pool!Tasks /\ list[j] # made
      BY <1>1 DEF Listed, Pool!TypeOK
    <3> QED BY <3>1, <3>2 DEF Listed, Pool!TypeOK
  <2>2. Pool!NoOrphan'
    <3> SUFFICES ASSUME NEW t \in Pool!Tasks, Pool!Running(t)', ~stop[t]
                 PROVE  list[idOf[t]] = t
      BY <1>6 DEF Pool!NoOrphan
    <3>1. pcT' = [pcT EXCEPT ![made] = "ignored"]  BY <1>6
    <3>2. Pool!Running(t)  BY <1>1, <3>1 DEF Pool!Running, Pool!TypeOK
    <3> QED BY <3>2 DEF Pool!NoOrphan
  <2> QED BY <1>2, <1>3, <1>4, <2>1, <2>2
<1> QED BY <1>5, <1>6

\* Forgetting a task that is told to stop, from any state: what NoOrphan and
\* Listed need.
LEMMA RemoveKeeps ==
  ASSUME TasksInv, NEW i \in TaskIds, list[i] # NoTask, Pool!Remove(i),
  UNCHANGED <<made, idOf>>,
         \A t \in Pool!Tasks : Pool!Running(t)' => Pool!Running(t),
         \A t \in Pool!Tasks : pcT'[t] \in {"none", "ignored"} => pcT[t] = pcT'[t]
  PROVE  Listed' /\ Pool!NoOrphan'
<1> USE TaskPoolAssumption DEF TasksInv, Pool!Remove, Pool!TellToStop
<1>1. list[i] \in Pool!Tasks /\ idOf[list[i]] = i  BY DEF Pool!TypeOK, Listed
<1>2. Listed'
  BY DEF Listed, Pool!TypeOK
<1>3. Pool!NoOrphan'
  <2> SUFFICES ASSUME NEW t \in Pool!Tasks, Pool!Running(t)', ~stop'[t]
               PROVE  list'[idOf[t]] = t
    BY DEF Pool!NoOrphan
  <2>1. t # list[i] /\ ~stop[t]  BY <1>1 DEF Pool!TypeOK
  <2>2. list[idOf[t]] = t /\ Pool!Running(t)  BY <2>1 DEF Pool!NoOrphan
  <2>3. idOf[t] # i  BY <2>1, <2>2
  <2> QED BY <2>2, <2>3 DEF Pool!TypeOK
<1> QED BY <1>2, <1>3

\* _unregister_task, and the loop of _cleanup_tasks, by the framework thread.
LEMMA UnregisterStep ==
  ASSUME TasksInv, NEW i \in TaskIds, Pool!Unregister(i)
  PROVE  TasksInv'
<1> USE TaskPoolAssumption DEF Pool!Unregister, TasksInv, Pool!fmkVars,
                               Pool!madeVars
<1>1. list[i] \in Pool!Tasks  BY DEF Pool!TypeOK
<1>2. Pool!TypeOK'  BY <1>1 DEF Pool!TypeOK, Pool!Remove, Pool!TellToStop
<1>3. Listed' /\ Pool!NoOrphan'
  <2>1. \A t \in Pool!Tasks : Pool!Running(t)' => Pool!Running(t) 
    BY DEF Pool!Running
  <2> QED BY <2>1, RemoveKeeps
<1>4. Fresh'  BY DEF Fresh
<1>5. Visited'  BY DEF Visited
<1> QED BY <1>2, <1>3, <1>4, <1>5

LEMMA CleanupStep ==
  ASSUME TasksInv,
         \/ Pool!Cleanup \/ Pool!NextFails \/ Pool!NoMoreId \/ Pool!Return
         \/ \E i \in TaskIds : Pool!NextId(i)
  PROVE  TasksInv'
<1> USE TaskPoolAssumption
        DEF TasksInv, Pool!Cleanup, Pool!NextFails, Pool!NoMoreId, Pool!Return,
            Pool!NextId, Pool!taskVars, Pool!madeVars
<1>1. Pool!TypeOK'
  <2>1. Cardinality(TaskIds) \in Nat  BY FS_CardinalityType
  <2> QED BY <2>1, EntriesBounded, SameCount DEF Pool!TypeOK, Pool!FmkStates
<1>2. Listed' /\ Pool!NoOrphan'  BY DEF Listed, Pool!NoOrphan, Pool!Running
<1>3. Fresh'  BY DEF Fresh
<1>4. Visited'
  <2>1. CASE Pool!NoMoreId
    <3>1. \A i \in TaskIds : list[i] # NoTask => i \in seen 
      BY <2>1 DEF Pool!Registered
    <3> QED BY <2>1, <3>1 DEF Visited
  <2>2. CASE Pool!Cleanup \/ Pool!NextFails \/ Pool!Return  BY <2>2 DEF Visited
  <2>3. CASE \E i \in TaskIds : Pool!NextId(i)  BY <2>3 DEF Visited
  <2> QED BY <2>1, <2>2, <2>3
<1> QED BY <1>1, <1>2, <1>3, <1>4

LEMMA StopStep ==
  ASSUME TasksInv, Pool!StopCurrent
  PROVE  TasksInv'
<1> USE TaskPoolAssumption DEF TasksInv, Pool!StopCurrent, Pool!StopTask,
                               Pool!madeVars
<1>1. cur \in TaskIds /\ list[cur] \in Pool!Tasks \cup {NoTask} 
  BY DEF Visited, Pool!TypeOK
<1>2. Pool!TypeOK'  BY <1>1 DEF Pool!TypeOK, Pool!FmkStates
<1>3. Listed' /\ Fresh'  BY DEF Listed, Fresh
<1>4. Pool!NoOrphan'  BY <1>1 DEF Pool!NoOrphan, Pool!Running, Pool!TypeOK
<1>5. Visited'
  <2>1. CASE list[cur] = NoTask  BY <2>1 DEF Visited
  <2>2. CASE list[cur] # NoTask
    <3> SUFFICES ASSUME NEW i \in seen, list[i] # NoTask  PROVE stop'[list[i]]
      BY <2>2 DEF Visited
    <3>1. list[i] \in Pool!Tasks /\ (stop[list[i]] \/ i = cur) 
      BY DEF Visited, Pool!TypeOK
    <3> QED BY <1>1, <2>2, <3>1 DEF Pool!TypeOK
  <2> QED BY <2>1, <2>2
<1> QED BY <1>2, <1>3, <1>4, <1>5

\* The dictionary is replaced once every task it holds is stopped.
LEMMA ResetStep ==
  ASSUME TasksInv, Pool!Reset
  PROVE  TasksInv'
<1> USE TaskPoolAssumption DEF TasksInv, Pool!Reset, Pool!taskVars, Pool!madeVars
<1>1. Pool!TypeOK'  BY DEF Pool!TypeOK, Pool!FmkStates
<1>2. Listed' /\ Fresh' /\ Visited'  BY DEF Listed, Fresh, Visited
<1>3. Pool!NoOrphan'
  <2> SUFFICES ASSUME NEW t \in Pool!Tasks, Pool!Running(t), ~stop[t]  PROVE FALSE
    BY DEF Pool!NoOrphan, Pool!Running
  <2>1. list[idOf[t]] = t  BY DEF Pool!NoOrphan
  <2>2. idOf[t] \in TaskIds  BY DEF Fresh, Pool!Running
  <2>3. t # NoTask  BY DEF Pool!Tasks
  <2> QED BY <2>1, <2>2, <2>3 DEF Visited
<1> QED BY <1>1, <1>2, <1>3

-----------------------------------------------------------------------------
\* The steps of a task: only RemoveSelf touches the dictionary.
LEMMA QuietTaskStep ==
  ASSUME TasksInv, NEW t \in Pool!Tasks,
         \/ Pool!Setup(t) \/ Pool!Test(t) \/ Pool!FuncReturns(t)
         \/ Pool!FuncRaises(t) \/ Pool!Lock(t) \/ Pool!Check(t)
  PROVE  TasksInv'
<1> USE TaskPoolAssumption
        DEF TasksInv, Pool!Setup, Pool!Test, Pool!FuncReturns, Pool!FuncRaises,
            Pool!Lock, Pool!Check, Pool!Goto, Pool!fmkVars,
            Pool!madeVars
<1>1. /\ UNCHANGED <<list, stop, made, idOf, hook, pcF, seen, cur, size>>
      /\ pcT' \in [Pool!Tasks -> Pool!TaskStates] /\ lock' \in Pool!Tasks \cup {NoTask}
      /\ \A u \in Pool!Tasks \ {t} : pcT'[u] = pcT[u]
      /\ Pool!Running(t)' => Pool!Running(t)
      /\ pcT[t] \notin {"none", "ignored"} /\ pcT'[t] \notin {"none", "ignored"}
  BY DEF Pool!TypeOK, Pool!TaskStates, Pool!Running
<1>2. Pool!TypeOK'  BY <1>1 DEF Pool!TypeOK
<1>3. Listed'  BY <1>1 DEF Listed, Pool!TypeOK
<1>4. Fresh'  BY <1>1 DEF Fresh
<1>5. Pool!NoOrphan'  BY <1>1 DEF Pool!NoOrphan, Pool!Running
<1>6. Visited'  BY <1>1 DEF Visited
<1> QED BY <1>2, <1>3, <1>4, <1>5, <1>6

LEMMA RemoveSelfStep ==
  ASSUME TasksInv, NEW t \in Pool!Tasks, Pool!RemoveSelf(t)
  PROVE  TasksInv'
<1> USE TaskPoolAssumption DEF TasksInv, Pool!RemoveSelf, Pool!Goto,
                               Pool!fmkVars, Pool!madeVars
<1> DEFINE i == idOf[t]
<1>1. /\ pcT[t] = "remove" /\ pcT' = [pcT EXCEPT ![t] = "ended"]
      /\ UNCHANGED <<made, idOf, hook, pcF, seen, cur, size>>
  OBVIOUS
<1>2. i \in TaskIds  BY <1>1 DEF Fresh
<1>3. Fresh'  BY <1>1 DEF Fresh, Pool!TypeOK
<1>4. \A u \in Pool!Tasks : Pool!Running(u)' => Pool!Running(u) 
  BY <1>1 DEF Pool!Running, Pool!TypeOK
<1>5. \A u \in Pool!Tasks : pcT'[u] \in {"none", "ignored"} => pcT[u] = pcT'[u]
  BY <1>1 DEF Pool!TypeOK
<1>6. CASE list[i] = NoTask
  <2>1. UNCHANGED <<list, stop>>  BY <1>6
  <2>2. Pool!TypeOK'  BY <1>1, <2>1 DEF Pool!TypeOK, Pool!TaskStates
  <2>3. Listed'  BY <1>1, <1>5, <2>1 DEF Listed, Pool!TypeOK
  <2>4. Pool!NoOrphan'  BY <1>1, <1>4, <2>1 DEF Pool!NoOrphan
  <2>5. Visited'  BY <1>1, <2>1 DEF Visited
  <2> QED BY <1>3, <2>2, <2>3, <2>4, <2>5
<1>7. CASE list[i] # NoTask
  <2>1. Pool!Remove(i)  BY <1>7
  <2>2. list[i] \in Pool!Tasks  BY <1>2, <1>7 DEF Pool!TypeOK
  <2>3. Pool!TypeOK' 
    BY <1>1, <1>2, <2>1, <2>2 DEF Pool!TypeOK, Pool!TaskStates, Pool!Remove,
                                  Pool!TellToStop
  <2>4. Listed' /\ Pool!NoOrphan' 
    BY <1>1, <1>2, <1>4, <1>5, <1>7, <2>1, RemoveKeeps
  <2>5. Visited'
    <3>1. \A j \in TaskIds : list'[j] # NoTask => list'[j] = list[j] /\ list[j] # NoTask
      BY <1>2, <2>1 DEF Pool!Remove, Pool!TypeOK
    <3>2. \A u \in Pool!Tasks : stop[u] => stop'[u]
      BY <2>1, <2>2 DEF Pool!Remove, Pool!TellToStop, Pool!TypeOK
    <3>3. \A j \in TaskIds : list[j] # NoTask => list[j] \in Pool!Tasks
      BY DEF Pool!TypeOK
    <3>4. seen \subseteq TaskIds  BY DEF Pool!TypeOK
    <3>5. pcF = "cleaned" => \A j \in TaskIds : list'[j] = NoTask
      BY <1>2, <1>7 DEF Visited
    <3> QED BY <1>1, <3>1, <3>2, <3>3, <3>4, <3>5 DEF Visited
  <2> QED BY <1>3, <2>3, <2>4, <2>5
<1> QED BY <1>6, <1>7

LEMMA TasksStep == ASSUME TasksInv, [Pool!Next]_(Pool!vars) PROVE TasksInv'
<1>1. CASE Pool!Fmk
  <2> QED BY <1>1, CreateStep, RegisterStep, UnregisterStep, CleanupStep, StopStep,
             ResetStep DEF Pool!Fmk
<1>2. ASSUME NEW t \in Pool!Tasks, Pool!TaskCode(t) PROVE TasksInv'
  BY <1>2, QuietTaskStep, RemoveSelfStep DEF Pool!TaskCode
<1>3. CASE UNCHANGED Pool!vars
  BY <1>3 DEF Pool!vars, Pool!taskVars, Pool!fmkVars, Pool!madeVars, TasksInv,
              Pool!TypeOK, Listed, Fresh, Pool!NoOrphan,
              Pool!Running, Visited
<1> QED BY <1>1, <1>2, <1>3 DEF Pool!Next

\* The variables keep their types.
THEOREM TaskTypes == Pool!Spec => []Pool!TypeOK
<1>1. TasksInv => Pool!TypeOK  BY DEF TasksInv
<1> QED BY <1>1, TasksInit, TasksStep, PTL DEF Pool!Spec

\* However registrations, self-removals and lock-free cleanups interleave, a
\* task that runs and was not told to stop is in _task_list under its id.
THEOREM NoTaskIsLost == Pool!Spec => []NoOrphan
<1>1. TasksInv => NoOrphan  BY DEF TasksInv, NoOrphan
<1> QED BY <1>1, TasksInit, TasksStep, PTL DEF Pool!Spec

\* When _cleanup_tasks forgets the tasks, all that run were told to stop.
THEOREM CleanupReachesAll == Pool!Spec => []Pool!CleanupStops
<1>1. TasksInv => Pool!CleanupStops
  <2> SUFFICES ASSUME TasksInv, pcF \in {"reset", "cleaned"},
                      NEW t \in Pool!Tasks, Pool!Running(t), ~stop[t]
               PROVE  FALSE
    BY DEF Pool!CleanupStops
  <2>1. list[idOf[t]] = t  BY DEF TasksInv, Pool!NoOrphan
  <2>2. idOf[t] \in TaskIds  BY DEF TasksInv, Fresh, Pool!Running
  <2>3. t # NoTask  BY TaskPoolAssumption DEF Pool!Tasks
  <2> QED BY <2>1, <2>2, <2>3 DEF TasksInv, Visited
<1> QED BY <1>1, TasksInit, TasksStep, PTL DEF Pool!Spec
=============================================================================
