# fuddly in TLA+

fuddly is a fuzzing framework: it produces data from models of formats and
protocols, sends them to one or several targets, watches the targets with
probes, collects their feedback and records everything in a database. This
directory holds TLA+ models of its core (the sending loop and the threads around
it, scenarios and data makers, recording, launching, and the algorithms by which
a graph of nodes is walked through its structures and values, and by which a node
absorbs data), the TLC configurations that
check them, and TLAPS proofs about them. Paths below are relative to the
repository (`src/` in `PROJECT.json`); line numbers are in `PROJECT.json`
under `map`, definition by definition.

    cd tla
    tlc -config MCProbeSync.cfg MCProbeSync.tla     # one run
    tlapm ProbeSyncProofs.tla                       # one proof module

## 1. Inventory

### Threads and what they share

One *framework thread* (the shell, `fuddly_shell.py`) drives everything:
`FmkPlumbing` launches a project, produces data, sends them, waits for the
targets and the probes, and logs. Around it run

| thread | made by | shares with the others |
|---|---|---|
| a probe | `ProbeUser.start` | seven `threading.Event`s, `Probe._started`, `Probe.status` |
| a task | `FmkPlumbing._register_task` | `_task_list` and its lock, the stop events |
| the SQL handler | `Database.start` | `_sql_stmt_list`, one outcome slot, one event, `_sync_lock` |
| the logger handler | `Logger.start` | a list of log entries, the same hand-over as the SQL handler |
| the feedback of a project | `Project.start` | a queue of feedback entries |
| feedback collectors, servers | `NetworkTarget` | sockets, counters, two locks |

### Components

For each: state; operations; who it talks to; what is hard; what makes it right.

**Monitor and probes** (`framework/monitor.py`). State: per probe the events
(`_arm`, `_armed`, `_blocking`, `_continue`, `_probe_status`, `_started`,
`_stop`), the thread, the flag `_started`, the last status. Operations: start,
wait for initialisation, arm, notify the sending / the feedback retrieval / an
error, wait for the status, stop, join. Called by the sending loop; calls user
code (`start`, `arm`, `main`, `stop`, `reset`). Hard: events left over by an
earlier round, errors that cut a round short, probes that crash or hang, two
threads in `Probe._stop`. Right when: data is sent only once every live probe
is armed; `main()` runs once per sending and only after it; the status read is
of this round; rounds end; a started probe is stopped.

**Sending loop** (`framework/plumbing.py`). State: `_sending_error`,
`_recovered_tgs`, burst countdown, current data list, workspace, data bank.
Operations: `send_data_and_log`, `_send_data`, readiness and recovery of
targets, residual feedback, callbacks before and after the sending,
`launch_operator`. Hard: early returns at every stage, errors of one target
among several, state kept from one round to the next. Right when: every round
that arms the probes releases them; what is logged is what was sent; a target that cannot be recovered ends the work; bursts keep their size.

**Framework tasks** (`FmkTask`, `libs/utils.py`). State: `_task_list`, one
thread and one stop event per task. Operations: register, unregister (by a
callback, by a one-shot task itself), cleanup. Hard: the cleanup iterates
without the lock. Right when: no running task is out of reach.

**Framework states** (`EnforceOrder` in plumbing). Loading a project, launching
and stopping it. Right when: each command is accepted in the states where it
makes sense, and what launching started, stopping stops.

**Data production** (`process_data`, `framework/tactics_helpers.py`). State: the
chain of generators and disruptors, their setup flags, their hand-over and
activation state, the registries of clones and weights. Right when: what a
chain delivers went through all of it, a disruptor that yields hands over to the
nearest one on its left that still has cases, and no chain waits for data nobody
will make.

**Scenarios** (`framework/scenario.py`, `ScenarioDMaker`). State: the current
step and transition, callbacks triggered at hooks of a send cycle, tasks of
each step. Right when: the first transition that can be crossed is crossed,
whatever the hook it is evaluated at, only a step that was played is left, and
the resolution of a DataProcess ends.

**Database** (`framework/database.py`, `fmk_db.sql`). State: the list of
statements, the outcome slot, `enabled`, `_data_id`, the feedback windows.
Operations: `submit_sql_stmt` and its callers, start, stop, feedback
insertion. Hard: one slot and one event for all callers, ids guessed without an
answer, `stop()` in the middle. Right when: statements run in the order of
their submission, an outcome goes to whom asked, references are to real rows.

**Logger** (`framework/logger.py`): a second hand-over thread, acknowledgement
dates, ids of the last data per target. **Project** (`framework/project.py`):
its feedback thread and queue. **Knowledge and feedback**
(`framework/knowledge/`): a lock-protected collector, trust counters.

**Targets** (`framework/target_helpers.py`, `framework/targets/`). State: pending
data, the sending lock, connections; for `NetworkTarget` the collector threads
and their counters. Right when: readiness is reported once all the collectors
that were launched have ended, also after errors.

**Node graph, values, data models, disruptors** (`framework/node.py`,
`value_types.py`, `node_builder.py`, `fuzzing_primitives.py`,
`generic_data_makers.py`, `data_models/`): the largest part of the text,
sequential, over trees of unbounded shape, with a state in every node that each
freezing, re-evaluation or absorption moves. Right when: walking shows every
structure and every value, each once, and ends, a re-evaluation gives the same structure back, absorption accepts
what the model generates and loses nothing.

**The rest** - backends (I/O), configuration and display, shell, tools,
evolutionary scenarios, the shipped projects: see `components` in
`PROJECT.json`, with the reason for each part that is left out.

The hazards of all these parts, each at its line, are under `hazards`.

## 2. Plan

The order in which the modules were written, the sending round first because
everything else hangs on it:

1. `ProbeSync` (proofs in `ProbeSyncProofs`), `ProbeLifecycle` with its
   instance `ProbeLives` (proofs in the same module): rounds and lives of probes.
2. `SqlService` (abstract), `SqlHandler` (detailed; proofs in `SqlHandlerProofs`): the
   database thread.
3. `FmkTasks` with its instance `FmkTaskPool` (proofs in `FmkLaunchProofs`).
4. `NetTarget` (proofs in `NetTargetProofs`): the network target, its collectors and its counters.
5. `SendCycle` (proofs in `SendCycleProofs`): a whole round in both loops.
6. `DmakerChain`, and `Scenario` that extends it (proofs of both in
   `ScenarioProofs`): what is sent, and in which order.
7. `NodeShape`: the structures of a non-terminal node; `TypedValues`: the values of
   a terminal one; `ModelWalk`, that extends both: the walk over a graph.
8. `Recording` (proofs in `RecordingProofs`): which row of the database each thing is
   attached to.
9. `FmkLaunch` (proofs in `FmkLaunchProofs`): loading, launching, reloading, stopping.
10. `Absorption`: how a non-terminal node absorbs data.
11. `ShmemTarget` (proofs in `ShmemTargetProofs`): the test targets that share memory.

Left, in the order of what they would add:

- proofs: `NothingLostNorMade` of `Absorption`, whose loop over copies would have to be a recursive function;
- the other consumers of the walk (alternative configurations, separators), nodes
  that are not mutable, an order by weight, existence conditions in a graph;
- value types: random mode, and the values that fuzzing adds to each of them;
- absorption through several levels (a postponed node handed to the next level).

## 3. What is modelled

### ProbeSync - a sending round

The framework thread is `pcF` with the loop it is in: `todo` are the probes
its current `for` over `probe_users` has still to visit, `left` the targets its
sending loop has still to visit, `outcome` is `_sending_error`. A probe thread is
`pcP[p]`, the place in `BlockingProbeUser._run`. The five events are functions
from probes to BOOLEAN; `stop[p]` also stands for "the ProbeUser has forgotten
its thread", which `stop()` does in the same call.

| code | actions |
|---|---|
| `send_data_and_log`, `_send_data` | `BeginRound RejectData StartSending AbandonData SendToTarget SendFails EndSending Report` |
| `notify_imminent_data_sending` | `NotifyReady WaitUntilArmed ArmTimeout` |
| `notify_data_sending_event`, `notify_target_feedback_retrieval` | `NotifySend NotifyFbk` |
| `notify_error` | `NotifyError` |
| `wait_for_probe_status_retrieval` | `WaitUntilReady StatusTimeout` |
| `stop_probe`, `stop_all_probes` | `StopProbe` |
| `_wait_for_data_ready` | `SeeArm SeeStop ClearArm` |
| `_wait_for_fmk_sync` | `SeeBlocking MissBlocking SeeError MissError` |
| `arm()`, `main()` | `ArmReturns MainReturns Crash` |

Each test or write of an event is a step, except pairs next to each other in one
thread that commute with all the steps of the others; `event.wait(1)` is the
return to the polling state. The order in which a loop visits the probes is
arbitrary (the dictionary's order is fixed but unknown), which only adds
behaviours. `sent` and `runs` are history variables. A timeout is a choice of
the framework while the probe is inside user code or cannot move
(`EarlyTimeout = FALSE`): a probe that is merely slow to be scheduled is not
given up. The framework may stay idle for ever.

### SqlService, SqlHandler - the database thread

`SqlService` is what callers rely on: a queue; statements executed one at a time
in order, each committed or rolled back; a caller that asks for the outcome gets
the one of its own statement. `SqlHandler` is the code: `pcT` for the callers
in `submit_sql_stmt` and `stop()`, `pcH` for `_sql_handler`, `_sync_lock`, the
list, the outcome slot and the two events. A critical section of the inner lock
is one step. The handler executes a whole batch and publishes one outcome, of
the last statement; it may find the statement of another caller behind it only
if nobody waits, because a waiting caller keeps `_sync_lock`. A statement is a
record of its number, its table and the row it refers to; SQL text and values
are left out. Refinement (`ImplementsService`): `pending <- batch \o list`,
`asked` is the statement of each caller that waits.

### FmkTasks - tasks and their registry

`list` is `_task_list`; `hook` is the `stop_event` attribute of each Task object;
`pcT` is the place in `FmkTask.run`, `pcF` the place of the framework in
`_register_task`, `_unregister_task` (one step: it runs under the lock) and
`_cleanup_tasks` (one step per visit: it takes no lock, and a dictionary that
changes its size under the iteration raises). A periodic data is registered in
the same way and has no `stop_event` attribute; it is not distinguished.

### ProbeLifecycle - the lives of a probe

One ProbeUser. `made` threads were made by `start()`, `cur` is `_thread` (0 for
None), `started` is `Probe._started`, `startedEvt` and `stopEvt` the events.
`Probe._stop` - test the flag, call the user's `stop()`, reset the flag - is
three steps for the framework (`FmkStopTest FmkStopCall FmkStopReset`) and for the
thread (`StopTest StopCall StopReset`), in any interleaving. Any user method may
raise. What `ProbeSync` details is one state here, "main". `join()` is no step:
`stop()` has set `_thread` to None, so `is_alive()` is FALSE and `join()` returns
at once. The probe can therefore be started again while its last thread is in its
`stop()`, or never noticed that it was told to stop. Four histories tell what that
does: `late` is who had called the user's `stop()` and was about to reset the mark when
the next `start()` set it, `torn` says that one of them reset it since, `spoilt` that a
thread of an earlier life did since the last start, and `overlap` that the probe was
ever started while an earlier thread was running. Neither property has any other
exception; see section 5.
`ProbeLives` is the instance that the run checks: its names do not clash with those
of `ProbeSync`, so that one module holds the proofs about both.

### NetTarget - the network target and its counters

`is_target_ready_for_new_data` compares two counters: `toLaunch`
(`_fbk_collector_to_launch_cpt`), incremented without a lock while interfaces are
opened and decremented when a sending breaks, and `finished`. `running` counts
the collector threads that have not counted themselves yet; `reg` holds what a
thread in the middle of an unlocked `+=` or `-=` has read. `order` is the target:
the sequence of its interfaces. The framework thread is `pc`, with `at` the next
interface to open; `pcS[<<s, n>>]` is the thread that the n-th start made for the
server-mode interface `s`. `stop()` joins nothing, so threads and collectors of an
earlier life go on.

| code | actions |
|---|---|
| `start`, `stop` | `Start Stop` |
| `Target.send_(multiple_)data_sync`, `_before_sending_data` | `Send Before` |
| `send_multiple_data`, `_connect_to_target`, `_listen_to_target` | `Connect Refused BindFails Listen ListenAgain CountRead CountWrite NothingToSend TakeLock Return` |
| `_send_data`, `_start_fbk_collector` | `MainSends MainBreaks MainDrops` |
| `_server_main`, `_raw_server_main`, `_handle_target_connection` | `Accept SeesStop Wake Receive ReceiveTimesOut Handle ServerSends ServerBreaks ServerDrops` |
| `_collect_feedback_from` | `Obsolete Complete` |

A collector may take any time, a client may connect at any moment or never.
Bytes and the additional feedback interfaces are left out. `trouble` and
`served` are history: what went wrong in the last sending of the framework and
which servers launched a collector in it.

### SendCycle - a whole round, in both loops

The two loops that make rounds (`process_data_and_send` around
`send_data_and_log`, and `launch_operator`) do the same steps in different
orders: `Follow` is that order, `pc` the step, `stage` whether the step is the one
before or after the sending, `i` the target that a step's loop is at. `pending`
is `_pending_data` of the targets, `recovered` is `_recovered_tgs`, `sendErr` and
`stopSend` are `_sending_error` and `_stop_sending`.

| code | actions |
|---|---|
| the shell, `launch_operator` | `Launch PlanData PlanStop OperatorCrashes Report EndRound SetBurst` |
| `_do_sending_and_logging_init`, `_collect_residual_feedback` | `BeginRound Collect Decide` |
| `retrieve_and_log_target_feedback` | `Feedback SkipFeedback FeedbackEnds` |
| `wait_for_target_readiness` | `WaitReady WaitTimeout WaitEnds WaitCancelled Settle` |
| `_recover_target` | `Recover` (an operator of `WaitTimeout`, `Feedback`, `Probes`) |
| `monitor_probes` | `Probes ProbesEnd` |
| `send_data_and_log`, `_send_data`, `Target.add_pending_data` | `NothingLeft RejectData DataYields Misdirect SendData Unsolicited` |
| `_delay_sending`, `_log_data` | `Delay Log` |

A verdict is dropped by the code where a loop overwrites it with that of the
next target (`LastVerdict`) and where its caller does not look at it; `masked`
records the targets concerned, `since` the sendings since feedback was
retrieved. Data come from a set of destinations; what they contain, the workspace
and the data bank are left out.

### DmakerChain and Scenario - what is sent, in which order

`DmakerChain` is `process_data`: one call walks the chain from left to right
(`pos`), skips what is not active (`Skip`), sets up what is not initialised
(`SetUp`), generates (`Generate`), disrupts (`Disrupt`); a stateful disruptor that
takes data in disables all on its left, and one without a case left yields
(`Yield`) and hands over to the nearest one on its left (`HandedOver`). `active`,
`needSeed` and `init` are the attributes of `tactics_helpers.py`; `made`, `src`
and `case` stand for the state of the data makers themselves, which are user
code. `Call`, `Decline`, `Exhausted`, `Starve`, `Crash`, `CrashFed`, `Clean`, `Reset` are the other
exits. A datum is the sequence of the choices that made it, which is all that the
properties need.

`Scenario` extends it: the walk of `DynGeneratorFromScenario` and the callbacks
that `_handle_data_callbacks` runs at each hook. `cur` is the current step, `sel`,
`pend` and `calls` are `tr_selected_idx`, `pending_tr_eval` and
`_callbacks_pending`; `idx`, `done`, `outcome` belong to the DataProcess of the
step. `NewData StepOne StepTwo StepTwoBlocks Replace` lead to the sending,
`Unusable NotSent Send SendFails Feedback Final` are what follows; `InChain` and
`ChainReturns` resolve the DataProcess with the actions of `DmakerChain`;
`UserResets` is `cleanup_dmaker` or `cleanup_all_dmakers`. User callbacks return anything
(`truth`). History variables: `hurt` (a disruptor that had disabled its left could
not be fed, was reset alone, or was left in the middle by another chain that shares
it; until everything that the chain uses starts again), `hit` (a failure lost a case), `played`,
`leftover` (the DataProcess was left completed by an earlier visit), `stale` (the
counter of a transition was left in the middle).

### NodeShape - the structures of a node

The state of a non-terminal node is a record of `nonterm`, whose fields are the
attributes of `NodeInternals_NonTerm`, named in the module; `attrs` is `NodeAttrs`
of each child, whose quantities are tried in the order default, maximum, minimum.
What a method does to a node in determinist and finite mode is an operator from
record to record, so that `ModelWalk` can use it on each node of a graph:

| code | operators | actions of a node used alone |
|---|---|---|
| `get_subnodes_with_csts` | `Frozen`, with `NextShape`, `Pass`, `Passed` | `Freeze` |
| `unfreeze` | `Unfrozen` | `Unfreeze` |
| `unfreeze(reevaluate_constraints=True)` | `Undone`, with `Unroll` | `Reevaluate` |
| `reset_state`, `_reset_state_info` | `New` | `ResetState` |
| `make_private_subnodes` | | `CopyFrozen` |

A copy shares nothing and takes over all that the enumeration reads: the walk of
the copy is that of the original, which is why `CopyFrozen` changes nothing but
its count. The operators were compared with the real classes, walk by walk, on
each of the 567 nodes of the run.

### TypedValues - the values of a terminal node

How `String`, `INT` (listed values, or a range too wide to be listed) and
`BitField` go through their values in determinist mode (`Draw`), start over
(`FreshCursor`) and go back by one (`Rewind`). The index of a bit field is a sequence
with one entry per subfield: one subfield at a time moves, the others keep
their default. `Promised` is the reference: what a lap over the values shows.

### ModelWalk - the walk over a graph

`walk_graph_rec` is a recursive generator that suspends itself at each case. Its
activations are the frames of `stack`: the list of nodes they go through, the place in
it (`at`), the place in the code (`pc`), and the set `consumed_nodes`, which belongs to
the frame that created it and is shared by those below (`set`). `nonterm` and
`terminal` are the states of the nodes, `memory` the variables of the consumer.

| code | actions |
|---|---|
| step 1: freeze, recursive call on the children | `Enter` |
| step 2: `node_consumer_helper`, `_do_if_not_interested` | `Offer Reset Give Resume` |
| step 2 skipped after a reset | `Skip` |
| what follows a case, side effects on the siblings | `Shown` |
| end of step 2, `structure_has_changed` | `After` |
| end of the list | `Return` |

Four consumers are modelled: `NodeConsumerStub`, `BasicVisitor` (tWALK), `NonTermVisitor`
(tWALK with `nt_only`), `TypedNodeDisruption` (tTYPE), each as a case of `SaveAndConsume`,
`NeedReset`, `RecoverNode`, `WaitForExhaustion`. A case is the values of all the
terminal nodes of the data and the structures it shows; one whose node is not part
of the data is dropped, as `__iter__` does. `shown` and `repeated` are history.

Freezing, unfreezing and the value of a graph (`FreezeAll`, `UndoAll`, `ValueOf`) are
recursive over the graph. All the nodes are mutable and finite, and a structure has
at most one copy of each child. The model was compared with the real code on 252
walks without and 252 walks with side effects on the siblings, case by case
(consumed node, values), including those that fail or do not end.

### Recording - rows and references

`pc` follows the framework through a round (`Begin GiveIds Sent NotReady Stuck
SendingFailed SendingDone Wait LogData RetrieveFeedback EndRound`; the shell waits for
its targets before `LogData`, operators after it), the targets' and the users' threads may `Collect` feedback or `SendAsync` at any moment,
`OperatorFeedback` logs what an operator reports, `Stop` and `Relaunch` restart
the project. `rows` is the table DATA; the ids given to the targets before the
insertion (`nextId`, `est`, `pendingId`) are guesses. Feedback and async data carry
the number of the datum they answer (`born`, `data`), so that a wrong reference
can be seen. What the framework itself records about a datum that has no row yet
(`TargetStuck` in `Stuck`, a target not ready in time in the `Wait` of the shell) goes to
the last row there is; `over`, the number of the last datum that was logged or given up
at that moment, tells such a remark from an answer. `missing`, `unrecorded` and `drift` are the known reasons for one.
Insertions succeed here; `SqlHandler` has those that fail.

### FmkLaunch - the life of a project

One variable, the record `s`: the state of the automaton (`st`), the project and
its generation (`prj`, `made`: reloading makes new objects), the data model, the
targets chosen and those that are up, the logger threads, the flags. An
operation is a function from record to record in the order of the calls of the
code, an exception being a result like any other (`res`). `LoadProject
LoadDataModel LoadTargets Launch RunProject ReloadDm ReloadAll Exit` are the
actions; `MayCall` is `EnforceOrder`, `Afterwards` what it does with the result.
What goes wrong in one operation is a record of outcomes, drawn by the action.
`leaked`, `orphans`, `lied`, `half`, `silent` are history: what the code is known
to leave behind or to keep quiet.

### Absorption - how a node absorbs data

One absorption is one behaviour: `NextShape` (next best shape, by weight),
`NextSection`, then one step per child that is offered the rest of the data:
`OrderedNode`, `RandomNode`, `MixedRound`, `PickNode`, `Postpone`; `EndShape`
accepts or goes to the next shape. `at` holds what the code moves forward and
rolls back (rest of the data, size consumed, frozen nodes, quantities drawn).
The children read one symbol of their own, or anything between two lengths when
they are free. `made` is the reference: the shapes that describe the data,
computed from the grammar alone (`Structures`), not from the algorithm.

The code loses data that its node describes in ten situations, which the model
names as they happen (`mishaps`): a shape tried on what an aborted one left
(*moved*), an optional child of an unordered section whose only turn came too
early (*dropped*), a pick that is content with an optional alternative that read
nothing (*settled*), a child that must not exist and is waited for (*absent*), a
quantity overwritten by a later void attempt (*forgotten*), an existence or
quantity read from a child not absorbed yet (*early*), a postponed alternative of a
pick (*deferred*), no data where a separator is expected (*empty*), a free child that
took more than its filling (*greedy*), a postponed child that is given up
(*unplaced*). The model was compared with the real code on 90 024 pairs of a node
and a string, the result, the size consumed and what each child holds: no
difference.

### ShmemTarget - targets that hear each other through shared memory

`status`, `flags`, `dlen` and `data` are the block of each target, `block` whether it
exists. A setup says what the user does: `links` are the calls to
`add_feedback_sources`, each a step before anything is started, which gives the
consumer its index (`fbk_sources`, `consumers`); the targets each one controls; how
many data are sent. Nothing protects the block: each
read and each write of it is a step, except the loop over the flags, which only the
sender lowers.

| code | actions |
|---|---|
| `add_feedback_sources`, `get_consumer_idx` | `AddFeedbackSource` |
| `start`, `stop` | `Start`, `AskStop SeeExit Close` |
| `send_data_sync`, `send_data` | `FmkSends` or `Forward`, then `ClearFinished SeeStop RejectData Accept SeeReady IgnoreData ResetFlags WriteLength WriteData Publish` |
| `_map_input_shmem`, `_collect_fbk_loop` | `Begin MapSource Mapped GiveUp`, `LeaveLoop Wake ReadStatus ReadFlag ReadLength ReadData Collect Fail Acknowledge EndPass` |
| `_forward_data` | `TakeQueue Forward` |

`sender`, `to` and `pc` are who holds the lock of `Target.send_data_sync` and where it is: the lock is an
attribute of the class, so one sending is under way at a time in the process.
Targets start once, and stop one after the other, as `stop_project` does.
`sent`, `got` and `noticed` are history: what was written to each block, what each
consumer took from it, and how many data were in the block when it saw the status.

## 4. What the runs show

| run | instance | shows |
|---|---|---|
| `probe_sync` | 2 probes, one released by the sending and one by the feedback; one may hang, the other may be stopped; 1 target | framework and probes agree on how far the round has come (`InStep`); a probe is given up only inside the method the message names (`StuckMethodIsRight`); rounds end (`RoundEnds`) |
| `sql_handler` | 2 threads, 4 statements, any may fail | the handler implements `SqlService` (`ImplementsService`); guessed ids are rows while nothing fails; who asks is answered; `stop()` returns |
| `fmk_tasks` | a one-shot and a periodic id, 3 tasks | no running task is out of reach (`NoOrphan`); a stopped task ends |
| `probe_lifecycle` | 3 starts, the second thread may hang | a `stop()` that is owed stays possible (`OwedStopIsPossible`), also when lives overlap unless an earlier life resets the mark late; a stopped thread ends unless the probe is started again |
| `net_target` | two clients; a client and a stream server; a server that holds its client; a datagram server; 2 sendings, 2 clients per server, 2 starts | the assertion of `_before_sending_data` only fails at a target that is lost because of a surplus collector (`AssertFailsOnlyIfLost`); a target that stays unready has one of four reasons (`NotReadyIsExplained`); the framework thread returns from each sending (`SendReturns`) |
| `send_cycle` | 2 targets, one of them without residual feedback; bursts of 1 and 3, both loops | bursts keep their size (`BurstIsBounded`); no data is left for a later round (`NothingLeftPending`); a failed recovery ends the loop, but where the code drops its verdict (`VerdictsAreKept`); rounds end |
| `scenario` | 6 scenarios (callbacks at both hooks and a NoDataStep; a DataProcess of two chains; nested disruptors with `auto_regen`; a seed with `reset_dmakers`; chains that share disruptors; a chain without memory), 2 data, 2 cases, 3 failures or resets | data went through the whole chain, and the disruptors are nested loops (`InOrder`); `FirstTransition`, `LeavesAfterPlaying`; the DataProcess is resolved (`ResolveEnds`) |
| `model_walk` | 567 nodes used alone, 2 re-evaluations of a structure (in the default mode only), 2 resets or copies; 16 graphs of one to three levels, 4 consumers, with or without a limit of runs, deep or not, with siblings where no structure changes | of a node: each lap of its walk shows all that it promises, nothing twice, and is like the one before (`LapsAreComplete`), and a re-evaluation gives the same structure back (`ReevaluationKeepsStructure`); of a walk: it ends (`WalkEnds`) and has then shown every structure with all the values of its terminal nodes, no case twice (`EveryCaseOnce`), the other nodes at their default in each case (`OthersAtDefault`) |
| `recording` | 2 targets, bursts of 2, lists of one or two data, 3 data, 2 feedbacks pending, 1 async datum | feedback and async data are attached to the row they answer, remarks on data without a row to the row before (`RowsAreRight`); callbacks see no old feedback (`CallbacksSeeFresh`) |
| `fmk_launch` | 2 projects, one with 2 targets that may be reloaded once; 2 data models (symmetric); one fault | `ReadyToSend`, `NothingLeftRunning`, `RunsWhatWasAsked` |
| `absorption` | 744 nodes, all the strings of up to 4 symbols | nothing read is lost or made up (`NothingLostNorMade`); data that a shape describes is absorbed (`RoundTrip`); what is absorbed stands as the shape asks (`AbsorbedFits`); each step brings the absorption nearer to its end (`AbsorptionEnds`) |
| `shmem_target` | a block with two consumers; two targets that hear each other, one of which forwards, with data that are too long; a target with two sources; 2 data | each data is answered by one reading by each consumer that mapped its sources once, before the next is written; it is that data if its status was seen, and made of that data and the one before if the status was that of the one before (`ReadOnceNoticed`); no block is written after it was closed (`NoUseAfterClose`); what is sent is read unless the consumer is stopped or died (`SentIsRead`); `stop()` returns but in two named cases (`StopReturns`) |

Several properties are conditional on a history variable, because the code is
known to break the simpler statement. The variable is set by the one action
concerned, so that anything else that breaks the property is still found; what is
excepted is described in section 5.

Why the bounds are enough for what they are asked. Two probes are one of each
kind, and probes only meet through the framework thread; rounds are not bounded.
With four statements a batch of two can form behind a waiting caller, with
`stop()` and a failure anywhere. Three tasks over two ids give a task, its
replacement and one more behind a cleanup. Three starts give a life before and a
life after the one that hangs or crashes. Two sendings over two starts let a
collector, a client and a thread of the first meet the second. Two targets let the
verdict of one hide that of the other; bursts of three have a first, a middle and
a last sending, and `since` is bounded one above. A chain of four data makers has
nested stateful disruptors around a stateless one; two cases are a first and a
last. Three data are one before, one in and one after what went wrong. Four
children and three forms are all the positions of a cursor; strings of four
symbols overfill each node by at least one symbol, except those without a maximum,
and structures of up to five copies (`MaxCopies`) are enough to describe them.
The graphs that are walked have a changing node at each depth, before, after and
beside a steady one, two of them side by side and one above the other; three values
are a first, a middle and a last one, three subfields let the one in the middle
be skipped; a walk has no bound but its own end.

Fairness. Python threads are scheduled, so every thread has weak fairness on its
own code; user code has it too, except where it is allowed to hang (`Hanging`).
What the user of the shell does next has none: the idle states may last. `stop()`
of a probe, called by the framework without a timeout, is assumed to return. In
`SqlHandler` weak fairness on the lock is enough because the number of
statements is bounded; with endless statements the lock, which is not fair,
could starve a caller. In `NetTarget` the framework thread has weak fairness,
strong fairness where it takes the lock that server threads take again and
again, and a thread that holds the lock goes on (its socket calls have
timeouts); clients, collectors and users owe nothing. In `SendCycle` and
`Scenario` the one thread runs (`WF(Round)`, `WF(Resolve)`): a target need not
settle, an operator need not end, nobody presses Ctrl-C. `AbsorptionEnds` needs
no fairness: it is a variant that each step decreases. In `ModelWalk` whoever takes
the cases goes on until there are none left (`WF(Walk)`), as `send_loop -1` does; the
run `model_walk` states this fairness without ENABLED (`MCWalkSpec`), which TLC
evaluates slowly, and checks by its deadlock test that a walk that goes on can move.
In `ShmemTarget` the collecting threads, the sender and `stop()` run; the mapping of
sources gives up at its deadline once it does not advance any more.

Deadlock is checked everywhere but in `net_target`, `fmk_launch` and `shmem_target`, whose
ends (`MaxRounds`, the state "off", all targets stopped) are real.

## 5. Disagreements with the repository's own words

All of this was met while modelling. Where a property would be broken by it, a
history variable or a named case excepts it.

*A walk without end.* With `consider_side_effects_on_sibbling`, which tWALK sets by
default (`consider_sibbling_change`), the parent of each node is evaluated again at the
end of step 2 (`fuzzing_primitives.py:287`). The root is its own parent: once it was
reset to go to its next structure, it is rolled back to the previous one, is not
exhausted, and is reset again, for ever. `ModelWalker` says "We walk through all states
of the model", and `tutorial.rst:362` tells the user to send all its cases with
`send_loop -1`. Without siblings, or where no structure changes, walks end. With
`SiblingPlans` instead of `MCPlans`, `MCModelWalk` violates `WalkEnds`. The same
evaluation may remove from the list a node that is not in it (line 256, ValueError).

*Shared memory.* A consumer reads the status of a block and then its flag, the
producer resets them in that order: a consumer that sees the old status and the new
flag collects the old data a second time, or a mixture, and marks the new one as read,
which it then never reads (`debug.py:195`; the comment at 298 takes such a data for
"consumed on time"): this is the second case of `ReadAsNoticed`. `get_consumer_idx` accepts one consumer more than the block has
flags for (line 248, against 53-56), whose flag lies in the data: with
`MaxConsumer = 1` and without `Fits`, `Chain` violates `ReadOnceNoticed`. A target whose
second source starts later maps the first one twice: it takes what comes from the second
entry for the feedback of its second source (`fbk_sources[tg_idx]`, line 203; without
`MappedOnce`, `ReadOnceNoticed` is violated), or its thread dies of an IndexError for whose
end `stop()` waits for ever, although line 247 says that linked targets may live in
different instances; a data that is too long leaves the end of its sending
unsignalled, for which `stop()` waits too (`Stranded`).

*Probes and tasks.* `_send_data` signals the sending once per target: the second
signal outlives the round, and `main()` of the next round starts before its data is
sent, against `monitor.py:621-622` (`MainAfterSending` is violated with two targets).
The properties of the rendezvous are therefore stated for one target. A probe restarted right after `stop()` may run in two
threads: `stop()` forgets the thread and `start()` clears its stop event, so that the
old thread goes on with `main()` (`StoppedEnds` leaves this case out). A thread of the
earlier life that had called the user's `stop()` then resets the mark of the new one:
the new life works unmarked and no `Probe._stop` calls its `stop()` (`torn`, `spoilt`;
`OwedStopIsPossible` and `WorkingIsStarted` without them are violated by
`ProbeLifecycle`). The comment
in `Probe._start` promises a `stop()` after a crash, which nobody calls.
`Monitor.stop_probe` hands a name where pairs are expected. `is_stuck` looks at a
thread that `stop()` has forgotten. `_wait_for_specific_probes` adds the elapsed
time to its timeout (`monitor.py:471`). A Task that is started again while it runs
loses its `stop_event` (`plumbing.py:232`).

*Database and recording.* `insert_data` counts rows whose insertion may fail;
later references are then off, against the REFERENCES clauses of `fmk_db.sql`
(`NoFailure`). The ids estimated for async data drift once a datum is not
recorded or has several targets (`drift`); feedback of a round that failed or was
not recorded is attached to an older row (`missing`, `unrecorded`). What the framework
remarks on a datum before it is logged is attached to the row of the datum before:
`TargetStuck` (`plumbing.py:2574`), and in the shell, which waits for its targets
before it logs (`plumbing.py:2473`), that one was not ready in time (`plumbing.py:2864`);
operators log first (`plumbing.py:3279`). A target
that is not ready drops its data, which is logged as sent (`target_helpers.py:331`).

*Sending.* The verdict of a recovery is overwritten by that of the next target
in `monitor_probes` and `wait_for_target_readiness`, and ignored for residual
feedback (`masked`). Data sent along with data for an unknown target stays
pending (`misled`). An operator that crashes between the sending and the delay
stops the countdown of its burst (`crashed`). When no target gives residual feedback,
a burst whose last sending fails is never cut: the countdown starts again although
nothing was retrieved, hence the condition of `BurstIsBounded`. `_sending_error` of an earlier round
is still set when `_send_data` returns early (`plumbing.py:2414`).

*Network target.* Collectors that server-mode interfaces launch beyond those
counted make the counters differ for good, since they are compared with `==`;
the assertion of `_before_sending_data` then fails when the surplus collector
ends between the two tests. A server thread that meets an exception dies and
its interface is served no more. `stop()` joins nothing.

*Launching.* `launch()` returns True although starting failed (`lied`);
`reload_all` that fails leaves the automaton in a state with nothing started
(`half`); a failed re-import runs another data model and returns True
(`silent`); a start that fails half-way leaves targets up (`leaked`), a data
model that cannot be loaded leaves the logger thread (`orphans`). Reloading a data
model removes its entry of `__dyngenerators_created`, so that loading it again
raises KeyError (`lost`).

*Data makers and scenarios.* A stateful disruptor that fails after it has
disabled its left, or is reset alone, leaves a chain that makes partial data or
nothing (`hurt`). So does a chain of a DataProcess that shares a stateful disruptor with
the one before it, and finds it disabled or in the middle of a data of the other chain. `dp_completed` left TRUE skips the DataProcess at the next visit
(`leftover`), and it is set at the first intermediate yield, against
`scenario.rst:446-458`. A transition whose callbacks were not all called is
evaluated from the middle at the next visit (`stale`), against
`scenario.rst:269-274`.

*Nodes and values.* Re-evaluation in stick mode takes the next structure, and in
full combinatory mode it repeats structures, which is why the run `model_walk`
re-evaluates in the default mode; tWALK with `nt_only` raises ValueError when a
structure that was evaluated again has not the node that was walked any more
(`fuzzing_primitives.py:256`, the outcome "failed"); the values of a wide integer
range, or of a subfield, that are below its default are not shown in the first
lap (`value_types.py:1555`); a structure freezes the children it has no copy of, so
that their values move; copies keep their quantities, against `data_manip.rst:217-218`; a
pick with one alternative after another pick raises IndexError
(`node.py:3258-3268`). `data_model.rst:1538-1540` says that a data model absorbs
the data that comply to its grammar: the ten mishaps of `Absorption` are where it
does not, each confirmed with the real code, for instance a first shape `a b` and
a second `a c` on data `a c` (*moved*), or an unordered section of an optional `a`
and a `b` on data `b a` (*dropped*).

## 6. What is proved

Checked by TLAPS for every value of the constants that satisfies the named
assumption of each module (`ProbeSyncAssumption`, `TaskPoolAssumption`,
`LifeAssumption`, `SendCycleAssumption`, `SqlHandlerAssumption`, `NetTargetAssumption`,
`ShmemAssumption`, `RecordingAssumption`, `LaunchAssumption`, `DmakerChainAssumption`,
`ScenarioAssumption`). They only type the
constants (`LaunchAssumption`: also that an identifier list is neither empty nor infinite, and
that `None` and the unknown data model are no names of data models); the number of probes, rounds, tasks, starts, threads, statements, targets, interfaces, consumers and
data, the lists of data and the sizes of bursts are arbitrary.
The bounds that cut a run short (`MaxMapped`, `MaxRounds`...) are
constants too, of any value. Each inductive invariant was first checked by TLC on
the instance of the run.

**ProbeSyncProofs.** `TypeCorrect` for any number of targets. With
`NTargets = 1`: `Rendezvous` (`Spec => []InStep`), and from it `ArmedFirst`,
`MainFollows` and `FreshStatus`: data is sent once the live probes are armed,
`main()` follows the sending, the status read is of this round. `InStep` says,
for each place of the framework thread, where a live probe can be and which
events are set (`Resting`, `Asked`, `Ready`, `Released`, `Retrieved`); the three
safety properties are readings of it, which is why the run checks only `InStep`.
It is inductive together with `SendingShape`, which says that `left` and `outcome`
agree with the place. With `NTargets = 2` TLC finds it violated: the hypothesis is needed.
The proof holds for either value of `EarlyTimeout`: a probe that is given up is
no longer live. `NoMutualWait` (`StuckMethodIsRight`) needs `EarlyTimeout = FALSE`: a
wait then times out only on a probe that cannot go on by itself, and `Asked` and
`Released` leave `arm()` and `main()` as the only places for it.

The same module proves the lives of one probe, the instance `Life` of
`ProbeLifecycle` that `ProbeLives` declares: `LifeTypes`, `OwedStop`, `Working`, for
any number of restarts and with any number of its threads alive at a time. The mark is
reset by a step that looked at it two steps before. `Harmless` says that whoever is about
to reset it has called a `stop()` that no `start()` followed, unless he is late;
`Marked` gives both properties up to `torn` and `spoilt`; and `Alone`, which holds
until the first overlap, says that there is one thread and that the framework and this
thread never test the mark for different lives, so that neither case happens without
an overlap.

**SendCycleProofs.** `TypeCorrect`, `PendingIsEmptied` (`[]NothingLeftPending`),
`RecoveriesCount` (`[]VerdictsAreKept`), `BurstsKeepTheirSize` (`[]BurstIsBounded`).
None of the three is inductive: the first looks at idle states only and becomes
`NothingPending`, at every step; the second looks at the end of a round, and `Kept`
says what the verdicts are worth in the loops over the targets too. `Placed` (which
step belongs to which part of a round) and `WellSoFar` (a round goes to the sending
only while all is well) complete their invariant. For the third, `CountInv` compares
what was sent since feedback was retrieved with what the countdown says
(`Counted`): the shell counts after the sending and the operator before it, so that
the first is one ahead between two steps of one loop and one behind in the other, and
each step of a round has its own inequality (`InBetween`, `InShell`, `InOperator`).
It needs `Silent # Targets`, without which the property says nothing.

**SqlHandlerProofs.** `Implements`: each step of the handler thread and of its callers
is a step of `SqlService` or a stutter, under `pending <- batch \o list`
(`ImplementsService`); `EachItsAnswer`; `GuessesAreRows` (`[]GuessedIdsAreRows`). The
invariant has three layers: `Placed` (who holds which lock, and that no more
statements are under way than were submitted, counted with cardinalities), `Served`
(the caller that waits is the last of the queue and the outcome slot is its own or
empty) and `Guessed` (while nothing failed, the data rows are those submitted so far).

**NetTargetProofs.** `TypeCorrect`, `LostOnlyToSurplus` (`[]AssertFailsOnlyIfLost`),
`MissingIsExplained` (`[]NotReadyIsExplained`). The counters are written without a
lock from values read before, and the proof is what nevertheless remains: a thread
that gives back what a broken connection took holds the network lock, so that its
late write never raises the counter (`GivesBack`); only the framework thread adds to
it, once in a round, before its own sockets are used (`NotCountedYet`); so that
readiness once checked is only lost to a collector that was not counted (`StillReady`).

**RecordingProofs.** `TypeCorrect`, `RowsRight` (`[]RowsAreRight`), `CallbacksFresh`
(`[]CallbacksSeeFresh`), for any lists of data, each for any set of targets. Data are
logged in the order in which they were made, so the rows are sorted by data and every
data that is over has a row, or was lost or not to be recorded (`RowsFacts`). The last
row of a target is never older than the last data it took, unless that one is lost or
still to be logged (`IdsFacts`): feedback about a target finds a row that is right, and a
remark of the framework on a datum that has no row yet finds the last row of all. The
ids that async data receive are guessed before the data are logged. As long as nothing
made the count drift, ids and numbers of data are the same thing (`Straight`); a guess
made then stays right whatever comes later, a drift included, because the row it names
is there or is the next to be written for that data (`AsyncFacts`). `TypeOK` bounds
neither rows nor ids: that they agree is what the rest of the invariant says.

**ShmemTargetProofs.** `TypeCorrect`, `NoWriteToClosed` (`[]NoUseAfterClose`),
`NoticedIsRead` (`[]ReadOnceNoticed`), in layers. `Stopping` and `Announced`: `stop()`
and `send_data()` each write their event before they read the other's. `Indexed`,
`Distinct` and `Configured`: every consumer has a flag of its own. `Blocks`: a status
is raised only over data, all flags are up when the sender lowers them, and while it
writes the block holds the last data or the one before. `Seen`: a consumer that found
its flag down keeps it down, and the data cannot be replaced until it acknowledges.
`Noticed`: a status is down while its data are written, so that a consumer that saw the
status of the last data finds that data, and one that saw the status of the data before
is at most one behind, because its flag is then down. From these, `Agreed` counts: what
was collected from a source is what was written, less one while the flag is down and not
being acknowledged, and each reading is one of the two kinds.

**FmkLaunchProofs.** `TypeCorrect`, `EverythingIsUp` (`[]ReadyToSend`), `StoppedIsQuiet`
(`[]NothingLeftRunning`), `WhatWasAskedRuns` (`[]RunsWhatWasAsked`), for any projects,
targets, data models and identifier lists. Each action is a whole operation of the
plumbing, composed of calls that change the situation one after the other, some of
which fail half-way. `Sound` is what every call keeps, however the one before it ended:
the current targets are those of the object that has the logger (`OneProject`), what is
up or runs belongs to what is started or is known to have been left behind (`Traced`),
and, unless a re-import failed silently, the registered objects are the newest.
`Placed` holds between operations only and says what each state of the automaton is
worth. `DmMoved` and `Launched` describe the situations that loading a data model and
launching leave to the rest of the operation. The proof has a lemma per call that takes
`Sound` to `Sound`, and one per operation that takes `Sound` and `Placed` to `Placed`.

The same module proves the tasks, the instance `Pool` of `FmkTasks` that `FmkTaskPool`
declares: `TaskTypes`; `NoTaskIsLost` (`[]NoOrphan`);
`CleanupReachesAll` (`[]CleanupStops`: when the cleanup drops the dictionary,
every running task was told to stop). The inductive invariant adds `Listed`
(what is in the dictionary was created for that id and started), `Fresh` (the
task being registered has not run) and `Visited` (what the cleanup has passed is
stopped or gone).

**ScenarioProofs.** `TypeCorrect`, `LeavesPlayed` (`[]LeavesAfterPlaying`),
`FirstIsCrossed` (`[]FirstTransition`), for any scenarios, any number of transitions
with callbacks at any hooks, and any data makers. `TypeInv` adds to the types that a
chain is run only in a step that hosts a DataProcess. `EndsInv` says what ends a round
that plays nothing: a guard, or a DataProcess left completed, known since the first
hook. `RoundsInv` follows a round from hook to hook: before the sending nothing with
callbacks has been tried; after it, what was tried and refused, what is still pending
and precedes the choice, and the value each counter has then (`AtRest`), unless the
round started with a counter in the middle (`stale`). `FirstTry` and `NextTry` say what
one evaluation does to the choice: a revision takes the first transition that a later
hook allows among those before it.

`DataInOrder` (`[]InOrder`, of `DmakerChain`) holds for any chains, stocks and numbers of
cases, whatever fails, is reset, or runs in between. What it compares, two data delivered
one after the other, is not in the attributes that the code keeps, so `OrderInv` says what
these stand for. While a chain is not `hurt`, one data maker, the `Owner`, goes on next:
what is on its left is disabled and at work, what is on its right waits for a data, and the
seed of each one at work begins with what those on its left made last (`Seeds`, `Mark`).
As long as the owner has not gone on, the last data is up to its mark, and no disruptor on
its right can go on in it (`NotYet`); once it has, the data in the chain comes after the
last one, choice by choice (`Ahead`). The steps pass the ownership on: `OwnerYields` to the
nearest one on the left, `FedOrder` to a disruptor that takes data in, `HeadGenerates` and
`Recovers` to the head. `Restorable` says what a chain that is hurt keeps, so that cleaning
everything up, or starting again from the head, gives it an owner back; with
`Reset_DMakers` every chain starts from its beginning (`Restarted`). Looking for this
invariant showed three situations that `hurt` has to count, all of which happen in the code:
a chain finds a disruptor that another chain left in the middle; nothing in a chain
remembers what it delivered last; and a data maker that starts again while one on its
right is disabled puts nothing in order.

Only model-checked:

- liveness and what needs ENABLED, out of the prover's reach: `RoundEnds`,
  `CallersGoOn`, `StoppedTaskEnds`, `StoppedEnds`, `SendReturns`, `ResolveEnds`, `WalkEnds`,
  `SentIsRead`, `StopReturns`;
- `NodeShape`, `TypedValues`, `ModelWalk` and `Absorption`: their enumerations and
  references fold or recurse over data, and what a fold computes for every input would
  need induction over data (the action property `AbsorptionEnds` among them).

## 7. What is not modelled

Left aside inside the modelled parts:

- everywhere: clocks (a timeout is a choice), wording, display, the contents of
  data where no property is about them;
- `ProbeSync`, `ProbeLifecycle`: `Monitor.disable_hooks`, the caching of
  `target_status`; `FmkTasks`: the functions that tasks run; `SqlHandler`: SQL text;
- `NetTarget`: the additional feedback interfaces;
- `SendCycle`: workspace, data bank, the length of delays, shell commands that
  bypass the loop;
- `DmakerChain`: the registries of `Tactics`, clones, weights, inputs of the user;
- `Scenario`: the alterations of scenarios (`data_fuzz`, `cond_fuzz`,
  `ignore_timing`, `stutter`), crashes of data callbacks, graphs, user contexts,
  `produced_seed`, cloning;
- `NodeShape`: random mode, existence conditions, separators, entanglement, picks
  with one alternative, nodes that are not mutable;
- `TypedValues`: random mode, encodings, the values that fuzzing adds;
- `ModelWalk`: several copies of one child, nodes that are not mutable, the order by
  weight, existence conditions, generator nodes and CSPs, `max_steps` and
  `initial_step`, `AltConfConsumer` and `SeparatorDisruption`, the choice of the
  fuzzed values (`FuzzedTypes` stands for it);
- `Recording`: failing insertions (see `SqlHandler`), blocked and misdirected data,
  comments, the trail of feedback, the queue of a project's handlers;
- `FmkLaunch`: composed data models, what starting the monitor does, switching the
  database, the scenarios of a project;
- `ShmemTarget`: targets in several processes, targets that are restarted;
- `Absorption`: several levels, several values per leaf, encoders, bit fields,
  synchronised sizes, user-defined absorption helpers, a child twice in a shape.

Left out as a whole: the edits that disruptors make to a tree and the graph builder (large and
sequential; section 2 says what comes next), the shipped data models (content),
backends and the drivers of local, SSH, serial and printer targets (I/O),
evolutionary scenarios and knowledge (user-defined functions around a list),
configuration, display and tools.
