# A TLA+ model of dleyna-core

dleyna-core is the C library under the dLeyna daemons (server, renderer, ...).
It gives a daemon a main loop, a connection to the bus through a loadable
connector, settings and logging, and the *task processor*: queues of tasks, most
of which wait for the answer of a UPnP device on the network. This directory
holds TLA+ modules for the parts of it whose correctness depends on the order of
events, the TLC configurations that check them, and TLAPS proofs.

All sources named here are in `src/libdleyna/core/`.

## Inventory

| Part | State | Operations | Status |
|---|---|---|---|
| task processor (`task-processor.c`) | table of queues (tasks, current task, `idle_id`, `cancelled`, `defer_remove`, flags), `running_tasks`, `quitting` | add, look up, start, cancel and remove queues, add and complete tasks, quit | modelled, but for the opaque `user_data` |
| service tasks (`service-task.c`) | callback, `p_action` (the UPnP action in flight), weak pointer to the proxy; the counter and the buffer of `create_source` | create a source, add, process, cancel, delete, the answer of the device | modelled, but for the opaque `user_data` |
| main loop (`main-loop.c`) | connector, connection, error, the GLib main loop | start, connector acquired, name lost, quit, teardown | modelled; settings and log are in `Settings` |
| settings (`settings.c`) | files, keyfile, values | choose and copy the file, read, setters that save | modelled |
| white list (`white-list.c`) | the GUPnP white list | enable, add, remove, clear | modelled |
| log (`log.c`, `log.h`) | mask, flags, type; the process's syslog mask and GLib handler | init, update, trace, handler, finalize | modelled |
| connector manager (`connector-mgr.c`) | table from connectors to modules | load, release | modelled |
| UDN conversion (`core.c`) | none | a loop over a string | modelled |
| error domain (`error.c`) | none | a constant | not modelled: no behaviour |
| `connector.h`, `control-point.h` | none | interfaces that other packages implement | modelled as environment |

How they interact. `dleyna_main_loop_start` creates the settings, the task
processor and the connector, gives them to the control point (the daemon's own
code), and runs the GLib main loop. Calls from the bus reach the control point,
which creates queues and adds tasks. The processor schedules one GLib idle source
per queue that has something to do; `prv_process_task` runs the next task of the
queue through the callbacks of the queue. There are two kinds:

* *service* queues, whose callbacks are those of `service-task.c`: chains of UPnP
  actions with which the control point constructs a device, flag `AUTO_REMOVE`,
  started explicitly, each with a source of its own (`create_source`);
* *client* queues, whose callbacks belong to the control point: one per client
  and device, flag `AUTO_START`. A task may be completed before its callback
  returns, or later.

Everything runs in one thread. The hard part is *reentrance*: the processor calls
a callback, the callback calls the processor, and the queue that the outer
function is using may be gone when the inner one returns. Cancelling a service
task completes it on the spot; a completion may remove the queue, and the last
one, when quitting, all queues. Sources, answers from the network and weak
pointers are references to queues and tasks that nothing counts.

What makes each part correct:

* task processor and service tasks: no freed queue or task is ever used; each
  queue runs one task at a time, in order; each task is processed or cancelled,
  and deleted once; what was cancelled never runs; `running_tasks` is right; a
  quit ends with no queue and one `on_quit_cb`; deferred removals happen;
* main loop: the quit callback and the control point's `free` meet an empty
  processor; every path gives back what it took; a quit ends the program;
* settings and white list: accessors, keyfile, file, log and white list agree, also
  after a save that failed, and the next start reads what was saved;
* log: what is printed is what was asked for and compiled in, and the process gets
  back what the log changed of it;
* connector manager: a connector that is held stays loaded, one that is released is
  closed;
* UDN conversion: the result has the characters of a path element, fits in the space
  that is reserved for it, and two devices do not share one.

`PROJECT.json` lists the hazards one by one, each at its line, with the
properties that would notice.

## Modules

| Module | What it is |
|---|---|
| `TaskProcessor` | the processor and the service tasks: state, operators, actions, properties |
| `TaskProcessorInv` | the inductive invariants `IInv`, `AccountInv` and `FullInv` |
| `TaskProcessorSafety` | what the operators do to a sound heap, one lemma per action, and the theorems on memory |
| `TaskProcessorPromise` | the theorems on counters, fates and `finally_cb`, and that `SerialQueues` is implemented |
| `SerialQueues` | the abstract specification: what a control point may rely on |
| `TaskProcessorRefinement` | the refinement mapping from `TaskProcessor` to it |
| `MainLoop`, `MainLoopProofs` | `main-loop.c`, which extends `TaskProcessor`: both share the state; its theorems |
| `ChainSources` | the sources that `create_source` gives to chains |
| `Log`, `LogProofs` | the log, and its theorems |
| `Settings`, `SettingsProofs` | the settings over several starts, which extends `Log`; theorems on it and on `WhiteList` |
| `WhiteList` | the white list as a control point keeps it, which extends `Settings` |
| `ConnectorMgr`, `ConnectorMgrProofs` | the connector manager, and its theorems |
| `UdnPath` | the UDN conversion |
| `NamesProofs` | the theorems on `UdnPath` and `ChainSources`: names that must be distinct |
| `Induction` | induction and recursion over the natural numbers, in a form the provers can use |
| `MC...` | instances of the module of that name |

### TaskProcessor

Every C function that other functions call is an operator from a heap (a record of
the queues, the tasks, `running_tasks`, the pending sources and the first fault)
to a heap: `Cancel` is `prv_cancel`, `TaskCompleted` is
`dleyna_task_queue_task_completed`, and so on. An action is one event of the main
loop, or one call into the processor, with all the nested calls it makes, so that
reentrance is composition: `ServiceTaskDone` is `dleyna_service_task_begin_action_cb`
with the callback that may cancel its own queue and the completion after it. What
the code reads again after a nested call is read again from the later heap.

Memory is part of the state. `queue[k].mem` and `task[t].mem` are "unused",
"live" or "freed"; an access through a pointer to a freed one sets `fault` to the
kind of access, and the model stops, as the behaviour of the program is then
undefined. A handle and a task are allocated once in a behaviour; a queue that is
created again has another handle.

| Variable | Code |
|---|---|
| `queue[k]` | `dleyna_task_queue_t`; `idle` is `idle_id != 0`, `current` is `current_task`, `defer` is `defer_remove`, `finally` is whether `finally_cb` is set, `told` what it was told |
| `task[t]` | the atom and its `dleyna_service_task_t`; `qid` is `base.queue_id`, `paction` is `p_action != NULL`, `proxy` the weak pointer |
| `task[t].inflight` | the operation that runs on the network and will call back |
| `task[t].fate` | history: waiting, started, cancelled, done, dropped |
| `running`, `quitting` | `running_tasks`, a `guint` that wraps at `MaxUInt`, and `quitting` |
| `onQuit` | how often `on_quit_cb` was given to `g_idle_add` |
| `sources[k]` | the pending `prv_process_task` sources of `k` in the main loop |
| `walk` | the `g_hash_table_foreach_remove` in progress, and what it has still to visit |

The two walks over the table (`set_quitting`, `remove_queues_for_*`) are one step
per entry, in any order, and no event comes between the steps. GLib compares the
table's version after each callback: if the callback removed an entry, GLib
prints a warning and gives up the walk in the builds that check, and goes on over
a table it should not in the others. `VisitToQuit` then leaves any subset of the
entries to visit.

Operators that begin with the comment "Slip" are plausible mistakes, each beside
the operator it distorts. The specification does not use them: put in the place
of that operator, each makes one property fail, which `PROJECT.json` records
under "mutants".

### The contract of the callers

Nothing in the processor checks its callers. Eight rules make it safe. One is a guard
of the actions in every run: the handle that is given to `set_finally`, `add_task`, `start`
or `cancel_queue` is that of a queue that exists, as the functions use what they look up
without a check. A caller that keeps a handle has to notice that its queue is gone, through
`finally_cb` or by looking it up. The constant `Contract` says which of the other seven
a run assumes:

| Clause | Rule | Why it is needed |
|---|---|---|
| `lookup_first` | a queue is created only if `lookup_queue` found none | `g_hash_table_insert` of an equal key frees the old queue and the new key (line 168) |
| `start_idle` | `start` is not called on a queue that runs its last task | it removes an `AUTO_REMOVE` queue that has no waiting task, running or not (line 410) |
| `removal_scope` | `remove_queues_for_*` matches no `AUTO_REMOVE` queue and no queue of service tasks | `defer_remove` is read from a queue that `prv_cancel` removed (lines 292, 327) |
| `failed_null` | an action that fails starts no UPnP action | the task is completed by the cancellation and read again (`service-task.c:96`) |
| `no_stale` | removal and quit meet no queue that was cancelled and refilled, and not processed since | `prv_cancel_only` takes it for cancelled (line 188) |
| `quiet_quit` | quit finds nothing running, or one service task and no idle source | finding 1, and the ways beside it that are named there |
| `closed_quit` | after quit, no queue is created and no task added | nothing cancels them (lines 168, 430) |

Four of these are habits of the dLeyna daemons. `no_stale`, `quiet_quit` and
`closed_quit` are not in a daemon's hands, as a client may call or a quit may come
at any time: `quit_walk` drops `quiet_quit`, and the end of "Findings" says with which
constants the other two fail.

### MainLoop

`Start` is `dleyna_main_loop_start` up to `g_main_loop_run`, `LoopReturns` the rest
of it with `prv_context_free`. Between them the callbacks of the connector, the
quit requests (each an idle source that calls `set_quitting`), the quit callback
with its timer of one second, and the steps of the processor interleave. The
control point calls the processor only while its service is started. `held` remembers,
for `ServiceStopped`, how many quit callbacks had run when the connection was made and
when it was lost.

Assumed of the environment: the connector calls back from the main loop, acquires
the connection at most once and not after it lost it; the `delete`, `free_func` and
`finally` callbacks of a control point do not call the processor; cancelling the
task of a control point does not complete it inside the call; only an answer
without a disposed proxy arrives (GUPnP drops the actions of a proxy with it).

### SerialQueues

A queue is `life`, `waiting`, `active`; an event of the program is one `Advance`, in
which each queue begins its next task, runs it to its end, ends the one it runs, drops
those that wait, or is removed with everything in it. The mapping of
`TaskProcessorRefinement`: `life` is `mem`, `waiting` the array, `active`
`current_task`, `ended` the deleted tasks, `done` those whose fate is "done", `closed`
is `quitting`. Because an action of `TaskProcessor` is a whole event with all its nested
calls, the refinement says that reentrance is invisible: no task overtakes another,
runs beside one of its queue, leaves twice, or outlives its queue, and none begins
after `set_quitting`, except to be dropped.

### ChainSources

`CreateSource` prints the counter into the static buffer, `AddChain` copies the buffer
into the key of the queue, `EndChain` frees it. `later` counts how many sources were
made since, which is what distinctness depends on when the counter wraps.

### Log

Masks and flags are sets of levels. `context` is `s_log_context`; `sysmask` and `handler`
belong to the process, and `before` remembers them. `Initialise`, `UpdateTypeLevel`
and `Finalize` are the three functions of `log.c` with the messages they send
themselves; `Trace` is a `DLEYNA_LOG_*` macro, which exists only for levels that are
compiled in; `OtherMessage` comes from a library with another log domain. Two rules of
the libraries matter: `setlogmask(0)` changes nothing, and GLib adds the fatal flag
before it calls `prv_handler`. A fatal message ends the process (`aborted`).

### Settings

A key of a file is `<<>>`, absent or unreadable, or `<<value>>`. `disk` holds the file of
the user (`local`) and the one of the system, each absent, malformed or good; `New` is
`dleyna_settings_new`: it may make the directory and copy the system's file, loads the
first of the two that parses, reads its keys and tells the log; each of making and
copying may fail. `SetKey` is the common body of the three setters: the keyfile is
changed, saved (`Saved`, which may fail), and then the value that the accessors show.
`Delete`, which also closes the log, is the end of a run, and `OpenLog` and `New` are the
beginning of the next one. `asked` and `expected` remember, for the
properties, what was set and what the last save that succeeded made durable.

What the code does and the properties state as it is: a setter whose save fails leaves
the new value in the keyfile, so that the next save of another key writes it although
the accessors never show it (`settings.c:504`); a setter of a daemon that found no
file takes the value and reports no error, but saves nothing (`settings.c:488`).

### WhiteList

`filter` is the `GUPnPWhiteList`. `Enable`, `AddEntries`, `RemoveEntries` and `Clear`
are the functions of `white-list.c`. Who calls them is a control point, outside this
repository, and no code of the library calls both the white list and the settings: that
`Fill` fills the white list from the accessors, and that `ChangeEnabled`, `Replace`,
`Allow` and `Revoke` call the setter first and the white list only if it succeeded, is an
assumption, which `FilterSurvivesRestart` and its theorem depend on. Where GUPnP has no
white list, `dleyna_white_list_new` returns NULL, and the other functions read through it
(lines 80, 95, 115, 130): the first call, in `Fill`, ends the process, and so does the
model's behaviour (`wl = "null"`).

### ConnectorMgr

`connectors` is the table `g_connectors`, `refs` GModule's count of each file, and `held` the
loads less the releases. A connector that is loaded twice has one entry: the module's
count is right for both, but only one release closes it, and a release that finds no
table is refused by GLib (`refused`). The properties say what is left: a connector that
is held is never unloaded, and one that is not shared is closed.

### UdnPath

One turn of the loop is one step, and a character is a byte. `Escaped` is "_%02x", in
lowercase, where the examples of the comment (lines 44-45) are in uppercase; a `char` that
is negative is printed as eight digits. The result is written into `DestLen` + 1 bytes.
`g_snprintf` is told that all of them are left, wherever it writes (line 64), and `i` grows
by what it would have written, so that a turn that does not fit (`TurnBeyond`) writes out of
bounds, with the NUL at the latest; `overrun` records it and the model stops. There are two
ways to it: a negative character, whose escape is three times as long as line 54 counts
(finding 4), and a limit that cuts the result, when an escape begins one or two characters
below it. The second takes a UDN of some 700 MB with the real limit; `MCUdnSpace.cfg` with
`SignedChar = FALSE` and `Limit = 7` shows it with three characters that are escaped. So
`SpaceSuffices` says what is left of the claim: the space is enough for a UDN without negative
characters (`Regular`) that the limit does not cut (`Whole`). `Reversible` is about UDNs
without '_', which `Kept` leaves alone though it starts an escape: "_2d" and "-" have the
same path. An empty UDN gives an empty path element, which `ValidPath` does not look at.

## Runs

| Run | Instance | States | Shows |
|---|---|---|---|
| `task_processor` | two service queues, two client queues, two tasks, whole contract | 169,477 | the safety of the processor, `FullInv`, and that it implements `SerialQueues` |
| `task_processor_live` | one service queue, one client queue, two tasks | 6,120 | liveness |
| `main_loop` | the same queues, two tasks, two quit requests | 36,114 | the safety of the daemon around the processor; a quit ends the program |
| `chain_sources` | three chains, a counter of three bits | 17,552 | chains that exist at once have distinct sources, though the counter wraps |
| `log` | all sets of levels, both types, a build with levels 2,5,6 | 878 | what was selected is printed; the process gets its mask and handler back |
| `settings` | `WhiteList`: two paths, files in three states, saves that fail, restarts | 568,972 | file, keyfile, accessors, log and white list agree |
| `connector_mgr` | two connectors, one module without entry point, up to four loads of each | 920 | held connectors stay loaded, others are closed |
| `udn_path` | strings of up to five characters of six kinds, limit 10 | 47,743 | valid and distinct paths; when the space is enough |
| `quit_walk` | two service queues, no `quiet_quit` | violation | finding 1 |
| `quit_twice` | whole contract | violation | finding 2 |
| `udn_space` | the same strings, limit 30 | violation | finding 4 |
| `settings_edit` | one change of a file by a user | violation | finding 3 |

Of the processor: `NoFault` (no use of freed memory), `IdleSourcesTracked` (`idle_id` and
the pending sources agree), `RunningAccounted` (`running_tasks` counts the queues with
a current task), `SlotsHoldLiveTasks`, `NoTaskLeaks`, `InFlightIsCurrent` (one
operation per queue, and every current task has something that ends it),
`FinallyTruthful` (a chain is told "not cancelled" only if all its tasks ran to
completion or a quit dropped them), `QuitDrains` (after `set_quitting` nothing is left), `EndedNeverRuns`,
`ImplementsSerialQueues`. Of the daemon: `NoCallbackAfterFree`, `ReturnsCleanly`,
`ServiceStopped` (the quit callbacks that ran while the connection was there, and no others,
disconnected and stopped the service: one that still runs at the end was acquired after the
last of them, or its connection was lost before the first), `QueuesRemovedBeforeOnQuit`. Liveness:
`QuitCompletes`,
`DeferredRemoved`, `AutoStartedTasksEnd`, `StartedChainsEnd`, `QuittingReturns`.

Of the settings: `RestartKeepsSettings` (a start reads what the last successful save
wrote, whichever file was used or copied since), `AccessorsFollowFile` (an accessor
changes only to what the file then holds), `SingleLevelsWin` (the rule for lists of log
levels, `settings.c:215`), `LogFollowsSettings`, `FilterSurvivesRestart` (the networks let
through are those of the accessors and of the file).

`FinallyTruthful` has an exception that the code makes and no document speaks of. When a
quit cancels the last running service task, its completion removes all queues
(`task-processor.c:464`, called below the walk of line 244), also those that `prv_cancel_cb`
had not reached: they were not cancelled, so `finally_cb` is told that they were not, although their waiting tasks
are dropped. It takes two chains to see it, one that runs and one that does not.

The bounds. Queues interact only through the table, `running_tasks` and quit, so
two of each kind meet every interaction of a pair, also that of a walk with a third
queue. Two tasks fill a queue with a current and a waiting task, or run in two
queues. Two larger instances were checked once and are not kept as runs, without an error
either: the same queues with three tasks (805,435 states), and two chains, one client and
three tasks (79,004 states). `MaxUInt` = 9 is above the number of queues, as
`BoundAssumption` wants, and an underflow still shows as a `running` that differs
from the count. `MaxOnQuit` bounds how often a quit may find nothing running,
`MaxRequests` the calls of `dleyna_main_loop_quit`; two of each is a quit during a
quit. Tasks are interchangeable, and so are queues of one kind when none is special to the
run, so the safety run uses them as a symmetry; the runs with liveness do not.

`MaxUnsigned` = 7 lets the counter of three chains wrap several times while a chain
lives. The white list has two entries, one of them empty, and lists of up to two, so
that they contain an empty entry, a duplicate, or nothing; `MaxGuint` = 7 is below the port
in the file. The file in which everything is read has a list of levels with values of
both kinds. `MaxEdits` bounds the changes a user makes, which only `settings_edit` has
and only it needs. `MaxRefs` = 4 lets a connector be loaded again between two releases.
`Limit` = 10 is reached by strings of four characters, and by an escape that begins below it
and ends beyond it; strings of up to three are not cut.

`CHECK_DEADLOCK FALSE`: a behaviour ends when all handles
and tasks are used up, when the program
has returned or aborted, or when a UDN is converted.

Fairness. `FairSpec`: the walk goes on (it is a loop); GLib dispatches an idle
source that stays pending; a UPnP action whose proxy exists is answered, as GUPnP
reports an error at a timeout; an operation of a control point ends. Nothing is
assumed of callers, and a disposed proxy's action is never answered, which is why
`StartedChainsEnd` allows for a chain that is orphaned. `MainFairSpec`: the walk
(`WalkGoesOn` is what the steps of `Walk` do to the variable `walk`), the quit callback,
the timer and the return of `g_main_loop_run`.

## Findings

1. `quit_walk`: one chain runs, another is only scheduled. Quit cancels the task that
   runs, which completes below the walk of `prv_cancel_all_queues` (line 244); as it was the
   last, its completion empties the table (line 464). The idle source of the other chain is
   not removed, and is dispatched with a freed queue. With one step more, two chains run:
   the first completion removes its queue (line 476), the walk is given up, line 260 frees
   the second queue, and the answer to its action finds it freed.
2. `quit_twice`: `on_quit_cb` is scheduled by every `set_quitting` that finds nothing
   running (line 256), which the ChangeLog says was fixed.
3. `settings_edit`: `doc/logging.txt` says that changes of the configuration file are
   applied immediately. The file is read once, and a setter writes back what was read.
4. `udn_space`: the comment of `core.c` (line 46) says that a converted UDN has at most three
   times its size. The escape of a negative character has nine characters, and the result
   does not fit in the space reserved for it.

The contract's other clauses on quitting hide two more ways to reach what finding 1
reaches. `MCQuitWalk.cfg` shows them with other constants: with `Keys = {c1}`, quit frees
the queue of a client task that was asked to cancel and will complete later (line
260); with `Keys = {c1}` and `Contract <- StaleQuit`, a queue that was cancelled and
refilled is not cancelled by quit (line 188), and its idle source is dispatched after the
queue was freed. `MCQuitTwice.cfg` with `Contract <- OpenQuit` and the property
`QueuesRemovedBeforeOnQuit` shows a queue that is created between `set_quitting` and
`on_quit_cb`, which the ChangeLog says was fixed.

The log prints more than was selected, in two ways. `doc/logging.txt` says that with
level 2 only critical messages are printed; but the fatal flag, which GLib sets for an error,
stays in `flags` at any level (`log.c:78`, `log.c:124`), so that the GLib log prints error
messages too. And the syslog prints the message that `dleyna_log_update_type_level` itself
sends under the mask it is about to replace (`log.c:129`). `SelectedPrinted` allows for both;
`OnlySelectedPrinted` does not, and `MCLog.cfg` shows either with `Compiled <- Levels7`,
`Requests <- OneLevel`, and `RequestTypes = {"glib"}` or `{"syslog"}`.

## Proofs

Every invariant and every action property of the passing runs is a theorem, for all
values of the constants that satisfy the assumptions below. What remains to TLC is
liveness.

**Memory.** `TaskProcessorSafety` proves for all sets of queues and tasks, all sources,
sinks and flags, that if `Contract = Clauses` then `Spec` implies `[]IInv`, and with it
`TypeOK`, `NoFault`, `IdleSourcesTracked`, `SlotsHoldLiveTasks`, `NoTaskLeaks` and
`InFlightIsCurrent`. The assumptions are `ConstantsAssumption` (the constants have
their types) and `BoundAssumption` (there are fewer queues than `G_MAXUINT`), which
TLC evaluates in the runs.

None of the properties is inductive. That a completion finds its queue
depends on every operation in flight belonging to a current task; that a queue is
freed safely depends on what is pending for it; and inside an event both are
false for a moment, when a task's operation has ended and it is still current.
`Sound(h, x)` is therefore stated on a heap, with `x` the queue that is in the middle
of a completion (`None` between events). `QueueOK` relates the queue, its source
and its slots, `TaskOK` the task and what may call it back. Each operator has a
lemma that leads from one sound heap to another, saying what becomes of `x`:
`EndCurrent` leads from `Sound(h, k)` to `Sound(h, None)`, `TaskCompleted` keeps it
whatever it removes, `Cancel` of a service queue goes through the middle state and
back. An action is the composition of its operators' lemmas.

`IInv` adds two parts. `ServiceNotCancelled`: a service queue that runs a task is
not cancelled, as its cancellation would have ended the task. `WalkOK`: what a
walk has visited neither runs nor is about to run a task, and what it has still to
visit is not stale; so what `set_quitting` frees at the end (`EndWalk`) has no
operation and no source left. This is where `quiet_quit` and `no_stale` are used,
and the runs without them show that it does not hold otherwise.

**The promise of the processor.** `TaskProcessorPromise` proves, from `IInv` and under the
same hypothesis, `RunningAccounted`, `QuitDrains`, `EndedNeverRuns` and the refinement
`ImplementsSerialQueues`. `AccountInv` adds to `IInv` that the fate of a task agrees with
its memory and its slot (`Fated`), that `running_tasks` is the number of queues with a
current task (`Counted`), and that a quitting processor that runs nothing has scheduled
`on_quit_cb` (`Armed`). An event passes through many heaps, and none of these parts, nor the
steps of `SerialQueues`, can be seen on the last one alone. So the proofs relate heaps:
`Leads` relates the heap before a call to the heap after it, which may cancel and delete
tasks, free queues and end what runs, but never adds, reorders or revives; it is
transitive, each operator has a lemma that it leads, and an action leads from its first
heap to its last through those of its calls. Only `TakeNext`, and the actions that add a queue or a
task, do something else, and they do it once. In the refinement each queue then makes a
step of `SerialQueues`, or stutters.

`FinallyTruthful` needs `Truthful`, what a queue of service tasks may have been told and what
became of its tasks, which together with `AccountInv` is `FullInv`. It is proved under one more
hypothesis, `Service \subseteq AutoRemove`: queues of service tasks remove themselves. All
chains of the daemons do; without the flag such a queue could be cancelled, refilled and
started again, and `finally_cb` would be told of its second life only
(`prv_process_task` resets the flag, `task-processor.c:378`).

**The daemon.** `MainLoopProofs` proves all safety properties of `MainLoop` under
`Contract = Clauses`, for any number of quit requests. `MainInv` joins `AccountInv` with what each
step of the teardown follows (`Teardown`: the timer follows `on_quit_cb`, which follows the
quit; only a started service gives work to the processor; what was disconnected is what
`Notified` counts) and with what
`dleyna_main_loop_start` holds where it is (`Stages`). The processor enters through three
facts on its steps: what schedules `on_quit_cb`, that a drained processor stays drained, and
that without a service it has no queue.

**Names.** `NamesProofs` proves for every set of strings of any length, every limit, and
either signedness of `char`, the properties of `UdnPath`. `UdnInv` counts what was read and
what was written, says that only characters of a path were written, and that the path consists of one
piece for each character read (`Pieces`, with the ends of the pieces as witness). `SpaceSuffices`
follows from the count: each character of a `Regular` UDN has been given three bytes.
`Reversible` then is an induction over the pieces: when `Decode` has read to the end of a
piece it has given back that many characters of the UDN. For `ChainSources` it proves
`SourcesDistinct` for a counter of any width: the source
of a chain is the counter less the number of sources made later, modulo the width, so that
two of them are equal only if these numbers are.

**Settings.** `SettingsProofs` proves `LogFollowsSettings`, `RestartKeepsSettings`,
`AccessorsFollowFile` and `SingleLevelsWin` of `SettingsSpec` and of `WhiteListSpec`, and
`WhiteListTypeOK` and `FilterSurvivesRestart` of the latter, under its assumption on the
control point, for all lists, all contents
of the files and any number of starts and of changes by a user. The invariant extends
`LogInv`. `Stored` says that every key of `expected` is in the file that the next start
will read (`Content`, which a copy of the system's file does not change). A setter that
saves writes the whole keyfile, other keys included; so `InMemory` says of the keyfile that
a key which was set since the start holds what was asked for, and every other key that is
expected what the file holds. It needs the last part also when saves fail. `Unset`: a value that no
setter changes is the one that was read, so that `SingleLevelsWin` is a property of
`ToLogLevel`, proved by induction over the list. `Linked`: the white list is exactly that of the
accessors from the moment it exists. That the file has the same networks follows from `Stored`
and from what `Without` computes, the other induction. `SettingsAssumption` says that a keyfile
gives back values of the type that was asked for, and that the defaults of the settings are
those the log was compiled with, as both come from `DLEYNA_LOG_TYPE` and `DLEYNA_LOG_LEVEL`.

**Log.** `LogProofs` proves for all sets of levels compiled in, requested and made fatal that
`LogSpec` implies `LogTypeOK`, `SelectedPrinted` and `GivesBack`. `SelectedPrinted` speaks of
the last message, so the invariant `LogInv` says of the state what makes every message
right: between `Initialise` and `Finalize` the context is what `Select` gives for
`selected`, and the process's mask is that of the context, unless that is empty, when
`setlogmask` did nothing; before and after, the mask and the handler are those of
`before`. `GivesBack` rests on the old mask in the context being that of `before`.

**Connectors.** `ConnectorMgrProofs` proves `ConnectorTypeOK`, `HeldStaysLoaded` and
`AloneIsClean` for all sets of connectors and any bound. `HeldStaysLoaded` becomes inductive
with: a connector that is in the table has a module that is open, and one that was never
shared is held at most once.

**Induction.** The library states induction for an operator, which the provers cannot
instantiate. `Induction` states it for a set (`SetInduction`, from the well-foundedness of
`<`), and derives that a function can be defined by a first value and a step
(`Recursion`), which is what unfolds the recursive functions `Decode`, `ToLogLevel` and
`Without`: the model writes each as a fold from the left for that reason.

Only model-checked: liveness (`QuitCompletes`, `DeferredRemoved`, `AutoStartedTasksEnd`,
`StartedChainsEnd`, `QuittingReturns`), as the provers reason neither about fairness nor
about `ENABLED`. The theorems on the processor assume the whole contract; what happens
without a clause is only shown by the violation runs.

## Not modelled

`user_data` of queues and tasks and `get_source`, which the library only hands back; the
contents of messages and UPnP actions; callbacks that a connector would make inside
`connect`, before `g_main_loop_run` (those that exist call from the main loop);
`DLEYNA_LOG_TYPE_FILE`, to which no setting leads and which prints nothing; the text of
messages, paths and comments in the keyfile; the error domain, which is a constant; the
build system.

## Plan

1. Theorems for callers that keep less than the whole contract: which properties survive
   without `closed_quit`, `quiet_quit` or `no_stale`, as these are not in a daemon's hands.
2. The parts of the liveness arguments that are safety: for each leads-to, the state
   predicate under which the helpful action is enabled, and that no other step falsifies it.
