----------------------------- MODULE FmkLaunch -----------------------------
(***************************************************************************)
(* How a project is loaded, launched, reloaded and stopped                 *)
(* (src/framework/plumbing.py), with the automaton EnforceOrder that says  *)
(* which operation may be called, and the thread of the logger that every  *)
(* launch needs (src/framework/logger.py).                                 *)
(*                                                                         *)
(* Reloading everything makes new objects, so a project, its logger and    *)
(* its targets are named by <<project, generation>>.  An operation is a    *)
(* function from a record to a record, in the order of its calls; what the *)
(* user's files and objects do meanwhile is given by a record o of         *)
(* Outcomes.  r.res is what the operation returns: "true", "false" or      *)
(* "raised".                                                               *)
(***************************************************************************)
EXTENDS Naturals, FiniteSets

CONSTANTS Projects,     \* the projects that were found
          DMs,          \* the data models that were found
          Highest,      \* the last target of each project (0: EmptyTarget)
          IdSets,       \* the sets of target ids a user asks for
          MaxReloads,   \* bounds on the reloads of each project
          MaxFaults,    \* bound on what goes wrong altogether
          None, Unknown \* no data model; a name nobody has

Objects == UNION { {p} \X (0..MaxReloads[p]) : p \in Projects }
Targets == UNION { {p} \X (0..Highest[p[1]]) : p \in Objects }
Ids == UNION IdSets
States == {"load_prj", "load_dm", "S1", "S2", "off"}

ASSUME LaunchAssumption ==
    /\ Highest \in [Projects -> Nat]
    /\ {} \notin IdSets /\ Ids \subseteq Nat /\ IsFiniteSet(Ids)
    /\ MaxReloads \in [Projects -> Nat]
    /\ MaxFaults \in Nat
    /\ {None, Unknown} \cap DMs = {} /\ None # Unknown /\ None \notin Objects

\* What can go wrong during one operation: the module of the data model or
\* of the project cannot be imported; the data model cannot be loaded; one of
\* the targets with an id of refused refuses to start or raises; starting the
\* project raises once the targets are up; a task removes itself under
\* _cleanup_tasks; the targets with an id of unstopped are the one that
\* raises in its stop() and those that were to follow; a feedback handler of
\* the project raises in its stop().
DmFaults == {"dmImport", "dmLoad"}
StartFaults == {"dmLoad", "start"}
StopFaults == {"tasks", "prjStop"}
Faults == DmFaults \cup StartFaults \cup StopFaults \cup {"prjImport"}
Cost(o) ==
    Cardinality(o.faults) + Cardinality(o.refused) + Cardinality(o.unstopped)
OutcomesOf(fs, refused, unstopped) ==
    [n \in 0..MaxFaults |->
        { o \in [faults : SUBSET fs, refused : SUBSET refused,
                 unstopped : SUBSET unstopped] : Cost(o) <= n }]
StopOutcomes == OutcomesOf(StopFaults, {}, Ids)
DmOutcomes == OutcomesOf(DmFaults, {}, {})
LaunchOutcomes == OutcomesOf(Faults \ {"prjImport"}, Ids, Ids)
ReloadOutcomes == OutcomesOf(Faults, Ids, Ids)
Fault(o, f) == f \in o.faults

VARIABLE s
vars == <<s>>

Init ==
    s = [st |-> "load_prj", prj |-> None, lg |-> None, dm |-> None,
         made |-> [p \in Projects |-> 0], ids |-> {0}, targets |-> {},
         started |-> FALSE, enabled |-> FALSE, error |-> FALSE,
         toReload |-> FALSE, lost |-> {}, up |-> {}, left |-> MaxFaults,
         handler |-> [p \in Objects |-> "none"],
         res |-> "true",
         \* history: what explains the states the properties except
         leaked |-> {}, orphans |-> {}, lied |-> FALSE, half |-> FALSE,
         wanted |-> None, silent |-> FALSE]

----------------------------------------------------------------------------
(* The pieces.                                                             *)

\* Defect: reloading leaves the old object under the name.
FirstMade(r, p) == <<p, 0>>
\* The project object that is found under a name.
Newest(r, p) == <<p, r.made[p]>>
IsRegistered(r) == r.prj = <<r.prj[1], r.made[r.prj[1]]>>

Raise(r) == [r EXCEPT !.res = "raised"]
RaiseHalfway(r) == [r EXCEPT !.res = "raised", !.half = TRUE]
Return(r, ok) == [r EXCEPT !.res = IF ok THEN "true" ELSE "false"]

\* _load_data_model(): a failure is remembered in _dm_to_be_reloaded, and
\* makes __dyngenerators_created lose the data model; loading one that is
\* lost ends in a KeyError.
LoadedDm(r, o) ==
    CASE Fault(o, "dmLoad") ->
            Return([r EXCEPT !.toReload = TRUE, !.lost = @ \cup {r.dm},
                             !.error = TRUE], FALSE)
      [] ~Fault(o, "dmLoad") /\ r.dm \in r.lost -> Raise(r)
      [] OTHER -> Return([r EXCEPT !.toReload = FALSE], TRUE)

Fits(p, ids) == \A i \in ids : i <= Highest[p[1]]

\* The targets _init_fmk_internals_step1 takes: EmptyTarget alone when one of
\* the ids does not exist in this project.
TargetsFor(p, ids) == {p} \X (IF Fits(p, ids) THEN ids ELSE {0})

\* _init_fmk_internals_step1(): the logger and the targets of project p
\* become the current ones, even when others are up.
InitStep1(r, p) ==
    LET ts == TargetsFor(p, r.ids) IN
    [r EXCEPT !.prj = p, !.lg = p, !.targets = ts,
              !.ids = IF Fits(p, @) THEN @ ELSE {0},
              !.error = @ \/ ~Fits(p, r.ids),
              !.leaked = @ \cup (IF r.started THEN r.up \ ts ELSE {})]

\* Logger.start(): the thread that displays what is submitted is made once in
\* the life of a logger.
LoggerStart(r) ==
    [r EXCEPT !.handler[r.lg] = IF @ = "none" THEN "running" ELSE @]

\* Logger.stop(): the thread displays what is left and is joined.
LoggerStop(r) ==
    [r EXCEPT !.handler[r.lg] = "ended", !.orphans = @ \ {r.lg}]

\* _start_fmk_plumbing(): a data model that cannot be loaded leaves before
\* the framework is marked as started; a target that does not start leaves
\* after it.
StartPlumbing(r, o) ==
    LET r1 == Return(LoggerStart(r), TRUE)
        r2 == LoadedDm(r1, o)
        up == { t \in r.targets : t[2] \notin o.refused }
    IN  IF r.started THEN r
        ELSE IF r2.res # "true"
        THEN [r2 EXCEPT !.orphans = @ \cup {r.lg},
                        !.half = r2.res = "raised"]
        ELSE IF up # r.targets
        THEN [r2 EXCEPT !.error = TRUE, !.up = @ \cup up, !.started = TRUE,
                        !.leaked = @ \cup up]
        ELSE LET r3 == [r2 EXCEPT !.up = @ \cup up, !.started = TRUE,
                                  !.enabled = TRUE, !.lied = FALSE, !.half = FALSE]
             IN  IF Fault(o, "start") THEN RaiseHalfway(r3) ELSE r3

\* Defect: only the first target is stopped.
StoppedFirst(r, o) ==
    { t \in r.targets : r.enabled /\ t[2] = 0 /\ 0 \notin o.unstopped }
\* The targets that _stop_fmk_plumbing() stops: those before the first that
\* raises, and none when the targets were not enabled.
Stopped(r, o) ==
    IF r.enabled THEN { t \in r.targets : t[2] \notin o.unstopped } ELSE {}

\* _stop_fmk_plumbing().
StopPlumbing(r, o) ==
    LET r1 == [r EXCEPT !.error = FALSE, !.res = "true"]
        left == { t \in r.targets : r.enabled /\ t[2] \in o.unstopped }
        r2 == LoggerStop([r1 EXCEPT !.up = @ \ Stopped(r, o),
                                    !.leaked = @ \cup left,
                                    !.error = left # {}, !.enabled = FALSE])
    IN  IF ~r.started THEN r1
        ELSE IF Fault(o, "tasks") THEN RaiseHalfway(r1)
        ELSE IF Fault(o, "prjStop") THEN RaiseHalfway(r2)
        ELSE [r2 EXCEPT !.started = FALSE, !.half = FALSE]

\* Defect: the error is not looked at.
NeverFailed(r) == FALSE
\* is_not_ok() after a start.
Failed(r) == r.error

\* _launch().
LaunchOp(r, o) ==
    LET r1 == StartPlumbing(InitStep1(r, r.prj), o) IN
    IF r1.res = "raised" THEN r1
    ELSE IF ~Failed(r1) THEN Return(r1, TRUE)
    ELSE LET r2 == StopPlumbing(r1, o)
         IN  IF r2.res = "raised" THEN r2 ELSE Return(r2, FALSE)

\* EnforceOrder: the state after an operation that was accepted, by its
\* final state; nothing moves when it returned False or raised.
Final(r, st) == IF r.res = "true" THEN [r EXCEPT !.st = st] ELSE r
DmChosen(r) == IF r.st = "load_dm" THEN Final(r, "S1") ELSE r

----------------------------------------------------------------------------
(* The operations.                                                         *)

LoadProjectOp(r, p, o) ==
    LET r1 == StopPlumbing(r, o) IN
    IF r1.res = "raised" THEN r1
    ELSE Final([r1 EXCEPT !.prj = Newest(r, p), !.silent = FALSE,
                          !.lied = FALSE, !.half = FALSE], "load_dm")

\* load_data_model(): the data model is taken before it is loaded, and
\* loaded only if the framework is started.
LoadDmOp(r, d, o) ==
    LET r1 == [r EXCEPT !.dm = d, !.wanted = d, !.res = "true"] IN
    IF d = Unknown THEN Return([r EXCEPT !.error = TRUE], FALSE)
    ELSE DmChosen(IF r.started THEN LoadedDm(r1, o) ELSE r1)

\* load_targets(): the targets of a project that a newer one replaced are
\* unknown (KeyError).
LoadTargetsOp(r, ids) ==
    CASE ~IsRegistered(r) -> Raise(r)
      [] IsRegistered(r) /\ Fits(r.prj, ids) ->
            Return([r EXCEPT !.ids = ids], TRUE)
      [] OTHER -> Return([r EXCEPT !.error = TRUE], FALSE)

\* _reload_dm() of a data model that is not composed.  A module that cannot
\* be imported is not an error of the framework, and the current data model
\* is lost even when another one is reloaded.
ReloadDmOp(r, d, o) ==
    LET r1 == [r EXCEPT !.dm = d, !.wanted = d, !.res = "true",
                        !.lost = (@ \cup {r.dm}) \ {d}] IN
    IF d = Unknown \/ r.dm = None THEN Raise(r)
    ELSE IF Fault(o, "dmImport")
    THEN Return([r EXCEPT !.wanted = d, !.silent = TRUE], FALSE)
    ELSE DmChosen(IF r.started THEN LoadedDm(r1, o) ELSE r1)

\* launch(): when the data model was to be reloaded, neither the reloading
\* nor the launch decides what is returned.
LaunchCmdOp(r, o) ==
    IF ~r.toReload THEN LaunchOp(r, o)
    ELSE LET r1 == ReloadDmOp([r EXCEPT !.toReload = FALSE], r.dm, o)
             r2 == LaunchOp(Return(r1, TRUE), o)
         IN  IF r1.res = "raised" THEN r1
             ELSE IF r2.res = "raised" THEN r2
             ELSE Return([r2 EXCEPT !.lied = r2.res = "false"], TRUE)

\* run_project() after its load_project(): the data model, the targets, the
\* launch.
RunRestOp(r, d, ids, o) ==
    LET r1 == IF r.toReload THEN ReloadDmOp(r, d, o) ELSE LoadDmOp(r, d, o)
        ok == IF r.toReload THEN ~r1.error ELSE r1.res = "true"
        r2 == LoadTargetsOp([r1 EXCEPT !.toReload = FALSE], ids)
    IN  IF r1.res = "raised" THEN r1
        ELSE IF ok THEN LaunchOp(Return(r2, TRUE), o)
        ELSE Return([r1 EXCEPT !.toReload = TRUE], FALSE)

RunProjectOp(r, p, d, ids, o) ==
    LET r1 == LoadProjectOp(r, p, o) IN
    IF r1.res = "raised" THEN r1
    ELSE IF d = None THEN Return([r1 EXCEPT !.error = TRUE], FALSE)
    ELSE RunRestOp(r1, d, ids, o)

\* _add_project() of what _import_project() returned: the old objects are
\* forgotten by every dictionary.
AddProject(r) == [r EXCEPT !.made[r.prj[1]] = @ + 1]

\* The middle of _reload_all(): the new objects are taken only if both
\* modules could be imported.
Reimport(r, o) ==
    LET r1 == AddProject(r) IN
    CASE Fault(o, "prjImport") -> [r EXCEPT !.silent = TRUE]
      [] ~Fault(o, "prjImport") /\ Fault(o, "dmImport") -> [r1 EXCEPT !.silent = TRUE]
      [] OTHER -> InitStep1([r1 EXCEPT !.lost = @ \ {r.dm}],
                            Newest(r1, r.prj[1]))

ReloadAllOp(r, ids, o) ==
    LET r1 == StopPlumbing(r, o)
        r2 == IF ids = {} THEN r1 ELSE LoadTargetsOp(r1, ids)
        r3 == StartPlumbing(Reimport(r2, o), o)
        r4 == StopPlumbing(r3, o)
    IN  IF ~IsRegistered(r) THEN Raise(r)
        ELSE IF r1.res = "raised" THEN r1
        ELSE IF r3.res = "raised" THEN r3
        ELSE IF ~Failed(r3) THEN Return(r3, TRUE)
        ELSE IF r4.res = "raised" THEN r4
        ELSE Return([r4 EXCEPT !.lied = TRUE], FALSE)

----------------------------------------------------------------------------
(* The actions: one per operation EnforceOrder accepts in the state.       *)

MayCall(sts) == s.st \in sts
AnyProject == {"load_prj", "load_dm", "S1", "S2"}

\* The operation is over; what went wrong is taken from the bound.
Afterwards(o, r) == s' = [r EXCEPT !.res = "true", !.left = @ - Cost(o)]

LoadProject(p) ==
    /\ MayCall(AnyProject)
    /\ \E o \in StopOutcomes[s.left] : Afterwards(o, LoadProjectOp(s, p, o))

LoadDataModel(d) ==
    /\ MayCall({"load_dm", "S1", "S2"})
    /\ \E o \in DmOutcomes[s.left] : Afterwards(o, LoadDmOp(s, d, o))

LoadTargets(ids) ==
    /\ MayCall({"load_dm", "S1", "S2"})
    /\ s' = [LoadTargetsOp(s, ids) EXCEPT !.res = "true"]

Launch ==
    /\ MayCall({"S1"})
    /\ \E o \in LaunchOutcomes[s.left] : Afterwards(o, Final(LaunchCmdOp(s, o), "S2"))

RunProject(p, d, ids) ==
    /\ MayCall(AnyProject)
    /\ \E o \in LaunchOutcomes[s.left] :
            Afterwards(o, Final(RunProjectOp(s, p, d, ids, o), "S2"))

ReloadDm ==
    /\ MayCall({"S2"})
    /\ \E o \in DmOutcomes[s.left] : Afterwards(o, ReloadDmOp(s, s.dm, o))

ReloadAll(ids) ==
    /\ MayCall({"S2"})
    /\ s.made[s.prj[1]] < MaxReloads[s.prj[1]]
    /\ \E o \in ReloadOutcomes[s.left] : Afterwards(o, ReloadAllOp(s, ids, o))

\* stop() of the framework.
Exit ==
    /\ MayCall(AnyProject)
    /\ \E o \in StopOutcomes[s.left] : Afterwards(o, Final(StopPlumbing(s, o), "off"))

Next ==
    \/ \E p \in Projects : LoadProject(p)
    \/ \E d \in DMs \cup {Unknown} : LoadDataModel(d)
    \/ \E ids \in IdSets : LoadTargets(ids)
    \/ Launch
    \/ \E p \in Projects, d \in DMs \cup {None, Unknown}, ids \in IdSets :
            RunProject(p, d, ids)
    \/ ReloadDm
    \/ \E ids \in IdSets \cup {{}} : ReloadAll(ids)
    \/ Exit

Spec == Init /\ [][Next]_vars

----------------------------------------------------------------------------
(* Properties.                                                             *)

Situations ==
    [st : States, prj : Objects \cup {None}, lg : Objects \cup {None},
     dm : DMs \cup {None}, made : [Projects -> Nat], ids : SUBSET (Ids \cup {0}),
     targets : SUBSET Targets, started : BOOLEAN, enabled : BOOLEAN, error : BOOLEAN,
     toReload : BOOLEAN, lost : SUBSET (DMs \cup {None}), up : SUBSET Targets,
     left : 0..MaxFaults, handler : [Objects -> {"none", "running", "ended"}],
     res : {"true", "false", "raised"}, leaked : SUBSET Targets,
     orphans : SUBSET Objects, lied : BOOLEAN, half : BOOLEAN,
     wanted : DMs \cup {None}, silent : BOOLEAN]

\* Every field has its type; the current targets exist, belong to one
\* object and are never none once there is a logger.
TypeOK ==
    /\ s \in Situations /\ s.res = "true" /\ s.ids # {}
    /\ \A p \in Projects : s.made[p] <= MaxReloads[p]
    /\ s.lg \in Objects => s.targets # {} /\ \A t \in s.targets : t[1] = s.lg

\* In the state where data can be sent, the framework is started, with its
\* monitor's hooks, and all the current targets are up and report to the
\* logger of the project; the exceptions are a launch() that ignored a
\* failure, a reload_all() that failed, and an operation that an exception
\* left half-way.  Every check and every path of launch, run_project and
\* reload_all matters (plumbing.py:630-680, 1606-1687).
ReadyToSend ==
    s.st = "S2" /\ ~s.lied /\ ~s.half =>
        s.started /\ s.enabled /\ s.targets \subseteq s.up /\ s.lg = s.prj

\* When the framework is stopped, the targets that are still up and the
\* logger threads that still run are only those of a start that failed
\* half-way, of a target's stop() that raised, or of a data model that was
\* not loaded (plumbing.py:1162-1260).
NothingLeftRunning ==
    ~s.started =>
        /\ s.up \subseteq s.leaked
        /\ \A p \in Objects : s.handler[p] = "running" => p \in s.orphans

\* What runs is what was asked for: the newest objects of the project and
\* the data model that was last asked for, unless a module could not be
\* imported, which no operation reports (plumbing.py:549-606, 633-680).
RunsWhatWasAsked ==
    s.started /\ ~s.silent => IsRegistered(s) /\ s.dm = s.wanted

============================================================
