--------------------------- MODULE TaskProcessor ---------------------------
(***************************************************************************)
(* The task processor of dleyna-core (task-processor.c) together with the  *)
(* service tasks that run on it (service-task.c).                          *)
(*                                                                         *)
(* The program is one GLib main loop: every entry point runs to its end    *)
(* before the next event is dispatched.  What makes it hard is reentrance: *)
(* the processor calls the callbacks of a task, and a callback calls the   *)
(* processor back, so a queue can be freed below a function that is still  *)
(* using it.  Each C function is therefore an operator that takes the      *)
(* state of the heap and returns the next one, and an action is the        *)
(* composition of all the calls one event makes.  The walk that GLib makes *)
(* over the table of queues is one step per queue, during which no other   *)
(* event can happen, because its order is not known.                       *)
(*                                                                         *)
(* Memory is explicit: a queue or a task is "unused", "live" or "freed",   *)
(* and touching a freed one sets fault.  What the program does after a     *)
(* fault is undefined, and the model stops there.                          *)
(*                                                                         *)
(* An operator whose comment begins with "Slip" is not the code: it is a   *)
(* plausible mistake in the operator that follows it, kept to show that a  *)
(* property would notice.                                                  *)
(***************************************************************************)
EXTENDS Naturals, Sequences, FiniteSets, Functions

CONSTANTS
    Keys,        \* queue handles (dleyna_task_queue_key_t *), allocated once
    Tasks,       \* task atoms, allocated once
    Service,     \* the handles whose callbacks are those of service-task.c;
                 \* the callbacks of the others belong to the control point
    AutoStart,   \* the handles created with FLAG_AUTO_START
    AutoRemove,  \* the handles created with FLAG_AUTO_REMOVE
    Source,      \* the source string of each handle
    Sink,        \* the sink string of each handle
    None,        \* the NULL pointer
    MaxUInt,     \* G_MAXUINT, the largest value of running_tasks
    MaxOnQuit,   \* bound on the number of times on_quit_cb is scheduled
    Contract     \* the rules the callers of the processor keep, see below

(***************************************************************************)
(* The rules a caller can keep.  Nothing in the processor enforces them;   *)
(* the runs and the theorems say which of them its safety needs.           *)
(*   lookup_first   a queue is created only if lookup_queue found none     *)
(*   start_idle     start is not called on a queue that runs its last task *)
(*   removal_scope  remove_queues_for_* matches no queue that removes      *)
(*                  itself, and none whose tasks are service tasks         *)
(*   failed_null    an action function that fails starts no UPnP action    *)
(*   no_stale       removal and quit meet no queue that was refilled after *)
(*                  a cancellation and has not been processed since        *)
(*   quiet_quit     quit finds nothing running, or one service task only   *)
(*                  and no queue about to start one                        *)
(*   closed_quit    no queue is created and no task added after quit       *)
(***************************************************************************)
Clauses == {"lookup_first", "start_idle", "removal_scope", "failed_null",
            "no_stale", "quiet_quit", "closed_quit"}

Kept(clause) == clause \in Contract

ASSUME ConstantsAssumption ==
    /\ Service \subseteq Keys
    /\ AutoStart \subseteq Keys
    /\ AutoRemove \subseteq Keys
    /\ DOMAIN Source = Keys
    /\ DOMAIN Sink = Keys
    /\ None \notin Tasks
    /\ None \notin Keys
    /\ MaxOnQuit \in Nat
    /\ Contract \subseteq Clauses

(* running_tasks counts queues, so it never wraps unless the heap holds    *)
(* more than G_MAXUINT of them.                                            *)
ASSUME BoundAssumption ==
    /\ MaxUInt \in Nat
    /\ IsFiniteSet(Keys)
    /\ Cardinality(Keys) < MaxUInt

VARIABLES
    queue,     \* dleyna_task_queue_t of each handle
    task,      \* dleyna_task_atom_t of each task, with its dleyna_service_task_t
    running,   \* processor->running_tasks
    quitting,  \* processor->quitting
    onQuit,    \* how often on_quit_cb was given to g_idle_add
    sources,   \* pending prv_process_task sources of the main loop, per handle
    walk,      \* the g_hash_table_foreach_remove in progress
    fault      \* "none", or the first use of freed memory

vars == <<queue, task, running, quitting, onQuit, sources, walk, fault>>

Memory == {"unused", "live", "freed"}

Faults == {"none", "duplicate_queue", "idle_on_freed_queue", "empty_queue",
           "completed_on_freed_queue", "read_of_freed_queue",
           "read_of_freed_task", "double_delete", "weak_pointer_to_freed_task"}

(* What finally_cb was told: nothing yet, or its cancelled argument.       *)
Told == {"nothing", "finished", "cancelled"}

(* How far a task got: added, given to process_cb, given to cancel_cb,     *)
(* deleted after its completion, deleted without any of them.              *)
Fates == {"none", "waiting", "started", "cancelled", "done", "dropped"}

Queue == [mem : Memory, tasks : Seq(Tasks), current : Tasks \cup {None},
          idle : BOOLEAN, defer : BOOLEAN, cancelled : BOOLEAN,
          finally : BOOLEAN, told : Told]

Task == [mem : Memory, qid : Keys \cup {None}, paction : BOOLEAN,
         inflight : BOOLEAN, proxy : BOOLEAN, fate : Fates]

NoQueue == [mem |-> "unused", tasks |-> <<>>, current |-> None, idle |-> FALSE,
            defer |-> FALSE, cancelled |-> FALSE, finally |-> FALSE,
            told |-> "nothing"]

NoTask == [mem |-> "unused", qid |-> None, paction |-> FALSE,
           inflight |-> FALSE, proxy |-> FALSE, fate |-> "none"]

NoWalk == [op |-> "none", todo |-> {}]

TypeOK ==
    /\ queue \in [Keys -> Queue]
    /\ task \in [Tasks -> Task]
    /\ running \in 0..MaxUInt
    /\ quitting \in BOOLEAN
    /\ onQuit \in Nat
    /\ sources \in [Keys -> Nat]
    /\ walk \in [op : {"none", "quit", "remove"}, todo : SUBSET Keys]
    /\ fault \in Faults

Init ==
    /\ queue = [k \in Keys |-> NoQueue]
    /\ task = [t \in Tasks |-> NoTask]
    /\ running = 0
    /\ quitting = FALSE
    /\ onQuit = 0
    /\ sources = [k \in Keys |-> 0]
    /\ walk = NoWalk
    /\ fault = "none"

-----------------------------------------------------------------------------
(***************************************************************************)
(* The heap as one value, so that operators can model nested C calls.      *)
(***************************************************************************)
Heap == [queue |-> queue, task |-> task, running |-> running,
         onQuit |-> onQuit, sources |-> sources, fault |-> fault]

(* h names the value of the computed heap, so that it is computed once.    *)
Become(heap) ==
    \E h \in {heap} :
        /\ queue' = h.queue
        /\ task' = h.task
        /\ running' = h.running
        /\ onQuit' = h.onQuit
        /\ sources' = h.sources
        /\ fault' = h.fault

Fail(h, what) == [h EXCEPT !.fault = what]

(* The entries of processor->task_queues.                                  *)
Live(h) == {k \in Keys : h.queue[k].mem = "live"}

(* dleyna_task_processor_lookup_queue: the table holds one entry for each  *)
(* pair of source and sink.                                                *)
Lookup(h, source, sink) ==
    {k \in Live(h) : Source[k] = source /\ Sink[k] = sink}

(* running_tasks is a guint.                                               *)
Increment(n) == IF n = MaxUInt THEN 0 ELSE n + 1
Decrement(n) == IF n = 0 THEN MaxUInt ELSE n - 1

(* What runs on the network for a task: the UPnP action whose handle is    *)
(* the p_action of a service task, the operation of another task.          *)
SetAction(h, t, action) ==
    [h EXCEPT !.task[t].paction = action, !.task[t].inflight = action]

BeginOperation(h, t) == [h EXCEPT !.task[t].inflight = TRUE]

EndOperation(h, t) == [h EXCEPT !.task[t].inflight = FALSE]

(* A task is appended to a queue.                                          *)
Enqueue(h, k, t, new) ==
    [h EXCEPT !.task[t] = new, !.queue[k].tasks = Append(@, t)]

(* The main loop drops a source that it dispatches.                        *)
DropSource(h, k) == [h EXCEPT !.sources[k] = @ - 1]

(* Slip: the id of the source is not kept.                                 *)
ScheduleProcessUnrecorded(h, k) == [h EXCEPT !.sources[k] = @ + 1]

(* g_idle_add(prv_process_task, queue_id), its id kept in idle_id.         *)
ScheduleProcess(h, k) ==
    [h EXCEPT !.queue[k].idle = TRUE, !.sources[k] = @ + 1]

(* g_idle_add(on_quit_cb): no record is kept that it is scheduled.         *)
ScheduleOnQuit(h) == [h EXCEPT !.onQuit = @ + 1]

-----------------------------------------------------------------------------
(***************************************************************************)
(* Freeing: tasks, queues, entries of the table.                           *)
(***************************************************************************)

(* The fate of a task when task_delete_cb is called on it.                 *)
DeletedFate(fate) ==
    IF fate = "started" THEN "done"
    ELSE IF fate = "waiting" THEN "dropped" ELSE fate

(* task_delete_cb on every task of T, dleyna_service_task_delete_cb for a  *)
(* service task: the weak pointer to the proxy is removed with the task.   *)
DeleteTasks(h, T) ==
    [h EXCEPT
        !.task = [t \in Tasks |->
                    IF t \in T
                    THEN [h.task[t] EXCEPT !.mem = "freed", !.proxy = FALSE,
                                           !.fate = DeletedFate(@)]
                    ELSE h.task[t]],
        !.fault = IF \E t \in T : h.task[t].mem = "freed"
                  THEN "double_delete" ELSE @]

(* prv_free_cb: what is left of the queue once finally_cb has been called  *)
(* with the queue's cancelled flag.                                        *)
FreedQueue(q) ==
    [NoQueue EXCEPT
        !.mem = "freed",
        !.told = IF ~q.finally THEN "nothing"
                 ELSE IF q.cancelled THEN "cancelled" ELSE "finished"]

(* Slip: the tasks that wait in a queue are not deleted with it.           *)
RemoveQueuesOnly(h, K) ==
    [h EXCEPT !.queue = [k \in Keys |-> IF k \in K THEN FreedQueue(@[k])
                                                   ELSE @[k]]]

(* Removing the handles of K from the table: prv_free_cb deletes the tasks *)
(* that wait in them, but neither the current task nor the idle source.    *)
RemoveQueues(h, K) ==
    LET d == DeleteTasks(h, UNION {Range(h.queue[k].tasks) : k \in K})
    IN  [d EXCEPT !.queue = [k \in Keys |-> IF k \in K
                                            THEN FreedQueue(h.queue[k])
                                            ELSE h.queue[k]]]

(* g_hash_table_remove_all.                                                *)
RemoveAll(h) == RemoveQueues(h, Live(h))

-----------------------------------------------------------------------------
(***************************************************************************)
(* Completion and cancellation.                                            *)
(***************************************************************************)

(* Slip: running_tasks is not decremented.                                 *)
EndCurrentUncounted(h, k) ==
    LET t == h.queue[k].current
        d == IF t = None THEN h ELSE DeleteTasks(h, {t})
    IN  [d EXCEPT !.queue[k].current = None]

(* dleyna_task_queue_task_completed up to its choice of what comes next:   *)
(* the current task is deleted and running_tasks decremented.              *)
EndCurrent(h, k) ==
    LET t == h.queue[k].current
        d == IF t = None THEN h ELSE DeleteTasks(h, {t})
    IN  [d EXCEPT !.queue[k].current = None, !.running = Decrement(@)]

(* Slips: the deferred removal, the next task or FLAG_AUTO_REMOVE is       *)
(* forgotten.                                                              *)
CompletedThen(e, k, defer, next, remove) ==
    IF quitting /\ e.running = 0 THEN RemoveAll(ScheduleOnQuit(e))
    ELSE IF defer /\ e.queue[k].defer THEN RemoveQueues(e, {k})
    ELSE IF e.queue[k].tasks # <<>>
    THEN IF next THEN ScheduleProcess(e, k) ELSE e
    ELSE IF remove /\ k \in AutoRemove THEN RemoveQueues(e, {k})
    ELSE e

TaskCompletedKeeps(h, k) ==
    CompletedThen(EndCurrent(h, k), k, FALSE, TRUE, TRUE)

TaskCompletedStops(h, k) ==
    CompletedThen(EndCurrent(h, k), k, TRUE, FALSE, TRUE)

TaskCompletedLeaves(h, k) ==
    CompletedThen(EndCurrent(h, k), k, TRUE, TRUE, FALSE)

(* dleyna_task_queue_task_completed.                                       *)
TaskCompleted(h, k) ==
    LET e == EndCurrent(h, k)
    IN  IF k \notin Live(h) THEN Fail(h, "completed_on_freed_queue")
        ELSE IF quitting /\ e.running = 0 THEN RemoveAll(ScheduleOnQuit(e))
        ELSE IF e.queue[k].defer THEN RemoveQueues(e, {k})
        ELSE IF e.queue[k].tasks # <<>> THEN ScheduleProcess(e, k)
        ELSE IF k \in AutoRemove THEN RemoveQueues(e, {k})
        ELSE e

(* Slip: the UPnP action is not cancelled before the task is completed.    *)
ServiceTaskCancelLate(h, t) ==
    IF h.task[t].paction
    THEN TaskCompleted([h EXCEPT !.task[t].paction = FALSE], h.task[t].qid)
    ELSE h

(* dleyna_service_task_cancel_cb: an action in flight is cancelled, if its *)
(* proxy still exists, and completed on the spot.                          *)
ServiceTaskCancel(h, t) ==
    LET a == h.task[t]
        i == IF a.proxy THEN FALSE ELSE a.inflight
    IN  IF a.paction
        THEN TaskCompleted([h EXCEPT !.task[t] = [a EXCEPT !.paction = FALSE,
                                                           !.inflight = i]],
                           a.qid)
        ELSE h

(* task_cancel_cb of every task of T, as far as the history is concerned.  *)
MarkCancelled(h, T) ==
    [h EXCEPT !.task = [t \in Tasks |->
                          IF t \in T
                          THEN [h.task[t] EXCEPT !.fate = "cancelled"]
                          ELSE h.task[t]]]

(* task_cancel_cb of the current task.  The callback of the control point  *)
(* only asks for the cancellation: the completion is reported later.       *)
CancelCurrent(h, k) ==
    LET t == h.queue[k].current
        m == MarkCancelled(h, {t})
    IN  IF k \in Service THEN ServiceTaskCancel(m, t) ELSE m

(* Slips: idle_id is not looked at before its source is removed, the array *)
(* of tasks is not emptied, cancelled is not set, or the tasks are only    *)
(* told of their cancellation.                                             *)
CancelWaitingUnchecked(h, k) ==
    LET q == h.queue[k]
        d == DeleteTasks(MarkCancelled(h, Range(q.tasks)), Range(q.tasks))
    IN  [d EXCEPT !.queue[k] = [q EXCEPT !.cancelled = TRUE, !.tasks = <<>>,
                                         !.idle = FALSE],
                  !.sources[k] = @ - 1]

CancelWaitingKeepsSlots(h, k) ==
    LET q == h.queue[k]
        d == DeleteTasks(MarkCancelled(h, Range(q.tasks)), Range(q.tasks))
    IN  [d EXCEPT !.queue[k] = [q EXCEPT !.cancelled = TRUE, !.idle = FALSE],
                  !.sources[k] = IF q.idle THEN @ - 1 ELSE @]

CancelWaitingUnmarked(h, k) ==
    LET q == h.queue[k]
        d == DeleteTasks(MarkCancelled(h, Range(q.tasks)), Range(q.tasks))
    IN  [d EXCEPT !.queue[k] = [q EXCEPT !.tasks = <<>>, !.idle = FALSE],
                  !.sources[k] = IF q.idle THEN @ - 1 ELSE @]

CancelWaitingKeepsTasks(h, k) ==
    LET q == h.queue[k]
    IN  [MarkCancelled(h, Range(q.tasks)) EXCEPT
            !.queue[k] = [q EXCEPT !.cancelled = TRUE, !.idle = FALSE],
            !.sources[k] = IF q.idle THEN @ - 1 ELSE @]

(* prv_cancel_only up to the current task: waiting tasks are cancelled and *)
(* deleted (task_cancel_cb has no effect of its own on a service task that *)
(* has no action in flight), and the idle source is removed.               *)
CancelWaiting(h, k) ==
    LET q == h.queue[k]
        d == DeleteTasks(MarkCancelled(h, Range(q.tasks)), Range(q.tasks))
    IN  [d EXCEPT !.queue[k] = [q EXCEPT !.cancelled = TRUE, !.tasks = <<>>,
                                         !.idle = FALSE],
                  !.sources[k] = IF q.idle THEN @ - 1 ELSE @]

(* prv_cancel_only, which does nothing to a queue already cancelled.       *)
CancelOnly(h, k) ==
    IF h.queue[k].cancelled THEN h
    ELSE IF h.queue[k].current # None THEN CancelCurrent(CancelWaiting(h, k), k)
    ELSE CancelWaiting(h, k)

(* The result of prv_cancel_only: the caller is to remove the queue.       *)
CancelRemoves(h, k) ==
    ~h.queue[k].cancelled /\ h.queue[k].current = None /\ k \in AutoRemove

(* prv_cancel.                                                             *)
Cancel(h, k) ==
    IF CancelRemoves(h, k) THEN RemoveQueues(CancelOnly(h, k), {k})
    ELSE CancelOnly(h, k)

(* prv_free_queue_for_source and prv_free_queue_for_sink on a queue that   *)
(* matches: defer_remove is read again after prv_cancel.                   *)
FreeQueueFor(h, k) ==
    LET busy == h.queue[k].current # None
        c == Cancel([h EXCEPT !.queue[k].defer = busy], k)
    IN  IF k \notin Live(c) THEN Fail(c, "read_of_freed_queue")
        ELSE IF c.queue[k].defer THEN c
        ELSE RemoveQueues(c, {k})

-----------------------------------------------------------------------------
(***************************************************************************)
(* Processing.                                                             *)
(***************************************************************************)

(* Slip: the task that was added last is taken.                            *)
TakeNextLast(h, k) ==
    LET q == h.queue[k]
        n == Len(q.tasks)
        t == q.tasks[n]
    IN  [h EXCEPT !.queue[k] = [q EXCEPT !.cancelled = FALSE, !.idle = FALSE,
                                         !.current = t, !.tasks = SubSeq(q.tasks, 1, n - 1)],
                  !.running = Increment(@), !.task[t].fate = "started"]

(* Slip: idle_id is not reset.                                             *)
TakeNextKeepsIdle(h, k) ==
    LET q == h.queue[k]
        t == Head(q.tasks)
    IN  [h EXCEPT !.queue[k] = [q EXCEPT !.cancelled = FALSE, !.current = t,
                                         !.tasks = Tail(q.tasks)],
                  !.running = Increment(@), !.task[t].fate = "started"]

(* prv_process_task up to task_process_cb.                                 *)
TakeNext(h, k) ==
    LET q == h.queue[k]
        t == Head(q.tasks)
    IN  [h EXCEPT !.queue[k] = [q EXCEPT !.cancelled = FALSE, !.idle = FALSE,
                                         !.current = t, !.tasks = Tail(q.tasks)],
                  !.running = Increment(@), !.task[t].fate = "started"]

(* dleyna_service_task_process_cb, when the action function of the task    *)
(* says whether it failed and whether it started a UPnP action.            *)
ServiceTaskProcess(h, k, t, failed, action) ==
    LET a == SetAction(h, t, action)
        c == IF failed THEN Cancel(a, k) ELSE a
    IN  IF c.task[t].mem = "freed" THEN Fail(c, "read_of_freed_task")
        ELSE IF action THEN c
        ELSE TaskCompleted(c, k)

(* task_process_cb of the control point: it reports the completion before  *)
(* it returns, or leaves an operation in flight that will report it.       *)
ClientTaskProcess(h, k, t, action) ==
    IF action THEN BeginOperation(h, t)
    ELSE TaskCompleted(h, k)

(* prv_process_task: the queue of the source's handle runs its next task.  *)
RunNext(h, k, failed, action) ==
    LET t == Head(h.queue[k].tasks)
    IN  IF k \notin Live(h) THEN Fail(h, "idle_on_freed_queue")
        ELSE IF h.queue[k].tasks = <<>> THEN Fail(h, "empty_queue")
        ELSE IF k \in Service
        THEN ServiceTaskProcess(TakeNext(h, k), k, t, failed, action)
        ELSE ClientTaskProcess(TakeNext(h, k), k, t, action)

-----------------------------------------------------------------------------
(***************************************************************************)
(* Events.  An event is dispatched when the previous one has returned, and *)
(* nothing is known of the program after a fault.                          *)
(***************************************************************************)
Dispatching == walk = NoWalk /\ fault = "none"

(* dleyna_task_processor_add_queue.  Inserting an equal key again frees    *)
(* the queue it replaces and the key that is returned to the caller.       *)
AddQueue(k) ==
    LET known == Lookup(Heap, Source[k], Sink[k])
    IN  /\ Dispatching
        /\ queue[k].mem = "unused"
        /\ Kept("lookup_first") => known = {}
        /\ Kept("closed_quit") => ~quitting
        /\ Become(IF known # {} THEN Fail(Heap, "duplicate_queue")
                  ELSE [Heap EXCEPT !.queue[k].mem = "live"])
        /\ UNCHANGED <<quitting, walk>>

(* dleyna_task_queue_set_finally.                                          *)
SetFinally(k) ==
    /\ Dispatching
    /\ queue[k].mem = "live"
    /\ ~queue[k].finally
    /\ Become([Heap EXCEPT !.queue[k].finally = TRUE])
    /\ UNCHANGED <<quitting, walk>>

(* dleyna_task_queue_add_task, and dleyna_service_task_add for a service   *)
(* task: its proxy may be NULL.                                            *)
AddTask(k, t, proxy) ==
    LET q == queue[k]
        n == [NoTask EXCEPT !.mem = "live", !.qid = k, !.proxy = proxy,
                            !.fate = "waiting"]
        h == Enqueue(Heap, k, t, n)
    IN  /\ Dispatching
        /\ q.mem = "live"
        /\ task[t].mem = "unused"
        /\ proxy => k \in Service
        /\ Kept("closed_quit") => ~quitting
        /\ Become(IF ~q.defer /\ k \in AutoStart /\ q.current = None /\ ~q.idle
                  THEN ScheduleProcess(h, k) ELSE h)
        /\ UNCHANGED <<quitting, walk>>

(* dleyna_task_queue_start.                                                *)
StartQueue(k) ==
    LET q == queue[k]
    IN  /\ Dispatching
        /\ q.mem = "live"
        /\ ~quitting /\ ~q.defer
        /\ Kept("start_idle") => (q.current = None \/ q.tasks # <<>>)
        /\ \/ /\ q.tasks # <<>>
              /\ q.current = None /\ ~q.idle
              /\ Become(ScheduleProcess(Heap, k))
           \/ /\ q.tasks = <<>>
              /\ k \in AutoRemove
              /\ Become(RemoveQueues(Heap, {k}))
        /\ UNCHANGED <<quitting, walk>>

(* dleyna_task_processor_cancel_queue.                                     *)
CancelQueue(k) ==
    /\ Dispatching
    /\ queue[k].mem = "live"
    /\ Become(Cancel(Heap, k))
    /\ UNCHANGED <<quitting, walk>>

(* prv_process_task, dispatched by the main loop, which drops the source.  *)
ProcessTask(k, failed, action) ==
    /\ Dispatching
    /\ sources[k] > 0
    /\ k \notin Service => ~failed
    /\ Kept("failed_null") => ~(failed /\ action)
    /\ k \in Service /\ action /\ queue[k].tasks # <<>>
            => task[Head(queue[k].tasks)].proxy
    /\ Become(RunNext(DropSource(Heap, k), k, failed, action))
    /\ UNCHANGED <<quitting, walk>>

(* Slip: p_action is reset after the callback of the task, not before.     *)
ServiceTaskDoneLate(t, cancels) ==
    LET k == task[t].qid
        c == IF cancels THEN Cancel(Heap, k) ELSE Heap
    IN  /\ Dispatching
        /\ task[t].inflight /\ k \in Service
        /\ Become(TaskCompleted(SetAction(c, t, FALSE), k))
        /\ UNCHANGED <<quitting, walk>>

(* dleyna_service_task_begin_action_cb: the answer to a UPnP action.  The  *)
(* callback of the task may cancel the queue it runs on.                   *)
ServiceTaskDone(t, cancels) ==
    LET k == task[t].qid
        a == SetAction(Heap, t, FALSE)
    IN  /\ Dispatching
        /\ task[t].inflight /\ k \in Service
        /\ cancels => k \in Live(Heap)
        /\ Become(IF task[t].mem = "freed" THEN Fail(a, "read_of_freed_task")
                  ELSE TaskCompleted(IF cancels THEN Cancel(a, k) ELSE a, k))
        /\ UNCHANGED <<quitting, walk>>

(* The operation a task of the control point left in flight is over, and   *)
(* its completion reported with dleyna_task_queue_task_completed.          *)
ClientTaskDone(t) ==
    LET k == task[t].qid
    IN  /\ Dispatching
        /\ task[t].inflight /\ k \notin Service
        /\ Become(TaskCompleted(EndOperation(Heap, t), k))
        /\ UNCHANGED <<quitting, walk>>

(* The proxy of a service task is disposed of: GUPnP drops its actions and *)
(* the weak pointer of the task is set to NULL.                            *)
ProxyLost(t) ==
    /\ Dispatching
    /\ task[t].proxy
    /\ Become(IF task[t].mem = "freed"
              THEN Fail(Heap, "weak_pointer_to_freed_task")
              ELSE [Heap EXCEPT !.task[t].proxy = FALSE,
                                !.task[t].inflight = FALSE])
    /\ UNCHANGED <<quitting, walk>>

-----------------------------------------------------------------------------
(***************************************************************************)
(* Walks over the table.                                                   *)
(***************************************************************************)
Busy == {k \in Live(Heap) : queue[k].current # None}

(* A queue that was refilled after a cancellation: prv_cancel_only will    *)
(* take it for cancelled although a task and an idle source wait.          *)
Stale(k) == queue[k].cancelled /\ queue[k].idle

Quiet ==
    \/ Busy = {}
    \/ \E k \in Service : Busy = {k} /\ \A j \in Live(Heap) : ~queue[j].idle

(* Slip: on_quit_cb is left to the last completion.                        *)
SetQuittingWaits ==
    /\ Dispatching
    /\ onQuit < MaxOnQuit
    /\ Kept("quiet_quit") => Quiet
    /\ Kept("no_stale") => \A k \in Live(Heap) : ~Stale(k)
    /\ quitting' = TRUE
    /\ walk' = [op |-> "quit", todo |-> Live(Heap)]
    /\ Become(Heap)

(* dleyna_task_processor_set_quitting up to prv_cancel_all_queues.         *)
SetQuitting ==
    /\ Dispatching
    /\ onQuit < MaxOnQuit
    /\ Kept("quiet_quit") => Quiet
    /\ Kept("no_stale") => \A k \in Live(Heap) : ~Stale(k)
    /\ quitting' = TRUE
    /\ walk' = [op |-> "quit", todo |-> Live(Heap)]
    /\ Become(IF running = 0 THEN ScheduleOnQuit(Heap) ELSE Heap)

(* dleyna_task_processor_remove_queues_for_source and _for_sink: the       *)
(* queues that do not match, or are deferred already, are left alone.      *)
BeginRemoval(matching) ==
    LET todo == {k \in matching \cap Live(Heap) : ~queue[k].defer}
    IN  /\ Dispatching
        /\ todo # {}
        /\ Kept("removal_scope") => todo \cap (AutoRemove \cup Service) = {}
        /\ Kept("no_stale") => \A k \in todo : ~Stale(k)
        /\ walk' = [op |-> "remove", todo |-> todo]
        /\ UNCHANGED <<queue, task, running, quitting, onQuit, sources, fault>>

RemoveQueuesForSource(source) ==
    BeginRemoval({k \in Keys : Source[k] = source})

RemoveQueuesForSink(sink) ==
    BeginRemoval({k \in Keys : Sink[k] = sink})

(* One call of prv_cancel_cb.  If the table was modified below the call,   *)
(* GLib gives up the walk or goes on with some of the remaining entries.   *)
VisitToQuit(k) ==
    LET c == CancelOnly(Heap, k)
        removes == CancelRemoves(Heap, k)
        h == IF removes THEN RemoveQueues(c, {k}) ELSE c
        rest == (walk.todo \ {k}) \cap Live(h)
        modified == Live(c) # Live(Heap)
    IN  /\ fault = "none"
        /\ walk.op = "quit" /\ k \in walk.todo
        /\ Become(h)
        /\ \E left \in IF modified THEN SUBSET rest ELSE {rest} :
              walk' = [walk EXCEPT !.todo = left]
        /\ UNCHANGED quitting

(* One call of prv_free_queue_for_source or prv_free_queue_for_sink.       *)
VisitToRemove(k) ==
    /\ fault = "none"
    /\ walk.op = "remove" /\ k \in walk.todo
    /\ Become(FreeQueueFor(Heap, k))
    /\ walk' = [walk EXCEPT !.todo = @ \ {k}]
    /\ UNCHANGED quitting

(* Slip: set_quitting cancels the queues and does not remove them.         *)
EndWalkKeepsQueues ==
    /\ fault = "none"
    /\ walk.op # "none" /\ walk.todo = {}
    /\ Become(Heap)
    /\ walk' = NoWalk
    /\ UNCHANGED quitting

(* The walk is over; set_quitting then removes all queues.                 *)
EndWalk ==
    /\ fault = "none"
    /\ walk.op # "none" /\ walk.todo = {}
    /\ Become(IF walk.op = "quit" THEN RemoveAll(Heap) ELSE Heap)
    /\ walk' = NoWalk
    /\ UNCHANGED quitting

-----------------------------------------------------------------------------
(* Calls made into the processor by its users.                             *)
Caller ==
    \/ \E k \in Keys : AddQueue(k) \/ SetFinally(k) \/ StartQueue(k)
                       \/ CancelQueue(k)
    \/ \E k \in Keys, t \in Tasks, proxy \in BOOLEAN : AddTask(k, t, proxy)
    \/ \E source \in Range(Source) : RemoveQueuesForSource(source)
    \/ \E sink \in Range(Sink) : RemoveQueuesForSink(sink)

(* A step of the walk in progress.                                         *)
Walk ==
    \/ \E k \in Keys : VisitToQuit(k) \/ VisitToRemove(k)
    \/ EndWalk

(* What the main loop and the walk in progress do on their own.            *)
Loop ==
    \/ \E k \in Keys, failed, action \in BOOLEAN : ProcessTask(k, failed, action)
    \/ Walk

(* What the network does.                                                  *)
Network ==
    \/ \E t \in Tasks, cancels \in BOOLEAN : ServiceTaskDone(t, cancels)
    \/ \E t \in Tasks : ClientTaskDone(t) \/ ProxyLost(t)

Next == Caller \/ SetQuitting \/ Loop \/ Network

Spec == Init /\ [][Next]_vars

(***************************************************************************)
(* Fairness.  The main loop dispatches every pending source, and a walk is *)
(* an ordinary loop.  A UPnP action whose proxy exists is answered, if     *)
(* only by a timeout; an operation of the control point ends, because its  *)
(* cancellation asks it to and because it is a network request otherwise.  *)
(***************************************************************************)
Fairness ==
    /\ WF_vars(Walk)
    /\ \A k \in Keys : WF_vars(\E failed, action \in BOOLEAN :
                                  ProcessTask(k, failed, action))
    /\ \A t \in Tasks :
          /\ WF_vars(\E cancels \in BOOLEAN : ServiceTaskDone(t, cancels))
          /\ WF_vars(ClientTaskDone(t))

FairSpec == Spec /\ Fairness

-----------------------------------------------------------------------------
(***************************************************************************)
(* Safety.                                                                 *)
(***************************************************************************)

(* No callback, completion, idle source or weak pointer ever reaches a     *)
(* queue or a task that has been freed, and no task is deleted twice: what *)
(* every function of task-processor.c and service-task.c takes for granted *)
(* when it dereferences the result of g_hash_table_lookup or its task.     *)
NoFault == fault = "none"

(* idle_id tells the truth: a prv_process_task source is pending exactly   *)
(* when idle_id is set on a live queue, never two for one queue, and then  *)
(* there is a task to take and none running (task-processor.c:406, 436 and *)
(* 469 schedule it in three places, 197 and 379 take it back).             *)
IdleSourcesTracked ==
    \A k \in Keys :
        /\ sources[k] = IF k \in Live(Heap) /\ queue[k].idle THEN 1 ELSE 0
        /\ queue[k].idle => queue[k].tasks # <<>> /\ queue[k].current = None

(* running_tasks, incremented in prv_process_task and decremented in       *)
(* task_completed, is the number of queues that have a current task: it    *)
(* never underflows, and reaches 0 at quit only when nothing runs.         *)
RunningAccounted == running = Cardinality(Busy)

(* A slot of a live queue, current or waiting, holds a live task of that   *)
(* queue, and no task is in two slots.                                     *)
SlotsHoldLiveTasks ==
    \A k \in Live(Heap) :
        LET q == queue[k]
        IN  /\ q.current # None =>
                  /\ task[q.current].mem = "live" /\ task[q.current].qid = k
                  /\ q.current \notin Range(q.tasks)
            /\ \A i \in DOMAIN q.tasks :
                  /\ task[q.tasks[i]].mem = "live" /\ task[q.tasks[i]].qid = k
                  /\ \A j \in DOMAIN q.tasks : q.tasks[i] = q.tasks[j] => i = j

(* No task is lost: a task that has not been deleted waits in, or is run   *)
(* by, a queue that still exists and will delete it.                       *)
NoTaskLeaks ==
    \A t \in Tasks : task[t].mem = "live" =>
        LET k == task[t].qid
        IN  /\ k \in Live(Heap)
            /\ queue[k].current = t \/ t \in Range(queue[k].tasks)

(* One operation per queue: what is in flight on the network belongs to    *)
(* the current task of a live queue, so its completion will find both; and *)
(* a current task always has something that ends it, an operation of the   *)
(* control point or the p_action that a cancellation completes.            *)
InFlightIsCurrent ==
    /\ \A t \in Tasks : task[t].inflight \/ task[t].paction =>
          task[t].qid \in Live(Heap) /\ queue[task[t].qid].current = t
    /\ \A k \in Busy : IF k \in Service
                       THEN task[queue[k].current].paction
                       ELSE task[queue[k].current].inflight

(* finally_cb of a queue of service tasks is told that the queue was not   *)
(* cancelled only if every task ever added to it ran to its completion,    *)
(* with one exception: when the last running task is completed below       *)
(* set_quitting, the queues that the walk had not visited are removed      *)
(* without having been cancelled, and their tasks are dropped.             *)
FinallyTruthful ==
    \A k \in Service : queue[k].told = "finished" =>
        \A t \in Tasks : task[t].qid = k =>
            \/ task[t].fate = "done"
            \/ quitting /\ task[t].fate = "dropped"

(* When set_quitting has returned, on_quit_cb is scheduled and everything  *)
(* is gone: queues, tasks, idle sources and running operations.            *)
QuitDrains ==
    quitting /\ walk = NoWalk =>
        /\ onQuit > 0 /\ running = 0
        /\ Live(Heap) = {}
        /\ \A k \in Keys : sources[k] = 0
        /\ \A t \in Tasks : task[t].mem # "live" /\ ~task[t].inflight

(* A task given to task_cancel_cb, or deleted, is never given to           *)
(* task_process_cb afterwards, whatever happens to its queue.              *)
EndedNeverRuns ==
    [][\A t \in Tasks : task[t].fate \in {"cancelled", "done", "dropped"}
                            => task'[t].fate = task[t].fate]_vars

(***************************************************************************)
(* Liveness.                                                               *)
(***************************************************************************)

(* A quit request leads to on_quit_cb being scheduled with no queue left.  *)
QuitCompletes == quitting ~> (onQuit > 0 /\ Live(Heap) = {})

(* A queue whose removal was deferred because it was running a task is     *)
(* removed in the end (task_completed, task-processor.c:465).              *)
DeferredRemoved ==
    \A k \in Keys : queue[k].defer ~> queue[k].mem = "freed"

(* A task added to a queue that starts by itself is deleted in the end.    *)
AutoStartedTasksEnd ==
    \A t \in Tasks :
        (task[t].mem = "live" /\ task[t].qid \in AutoStart \ Service)
            ~> task[t].mem = "freed"

(* A chain of service tasks that was started ends and is removed, unless   *)
(* it is orphaned: the proxy of its current task was disposed of, so that  *)
(* no answer will come and only a cancellation completes it.               *)
Orphaned(k) ==
    queue[k].current # None /\ task[queue[k].current].paction
                            /\ ~task[queue[k].current].inflight

StartedChainsEnd ==
    \A k \in Service \cap AutoRemove :
        (queue[k].idle \/ queue[k].current # None)
            ~> (queue[k].mem = "freed" \/ Orphaned(k))

(***************************************************************************)
(* What the ChangeLog says of shutdown.                                    *)
(***************************************************************************)

(* ChangeLog, version 0.0.2: "Fixed bug : dLeyna-renderer can crash on     *)
(* shutdown".                                                              *)
ShutdownSafe == quitting => fault = "none"

=============================================================================
