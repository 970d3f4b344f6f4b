-------------------------- MODULE TaskProcessorInv --------------------------
(***************************************************************************)
(* The inductive invariant behind the safety properties of TaskProcessor.  *)
(* It is stated on a heap rather than on the variables, because the calls  *)
(* that one event makes pass through heaps that no event ever sees: in the *)
(* middle of a completion, a queue still has a current task although       *)
(* nothing is left to end it.  x is the queue in that situation, or None.  *)
(***************************************************************************)
EXTENDS TaskProcessor

HeapType ==
    [queue : [Keys -> Queue], task : [Tasks -> Task], running : 0..MaxUInt,
     onQuit : Nat, sources : [Keys -> Nat], fault : Faults]

(* What ends the current task of queue k: the p_action of a service task,  *)
(* the operation of another one, nothing if it is being completed.         *)
HasEnd(h, k, x) ==
    LET t == h.task[h.queue[k].current]
    IN  IF k = x THEN ~t.paction /\ ~t.inflight
        ELSE IF k \in Service THEN t.paction ELSE t.inflight

(* A queue that is not live is empty; idle_id, the pending source and the  *)
(* slots of a live one agree, and its slots hold live tasks of its own,    *)
(* each once, of which only the current one has an operation.              *)
QueueOK(h, k, x) ==
    LET q == h.queue[k]
    IN  /\ q.mem # "live" =>
              q.tasks = <<>> /\ q.current = None /\ ~q.idle
        /\ h.sources[k] = IF q.idle THEN 1 ELSE 0
        /\ q.idle => q.tasks # <<>> /\ q.current = None
        /\ q.current # None =>
              /\ h.task[q.current].mem = "live"
              /\ h.task[q.current].qid = k
              /\ q.current \notin Range(q.tasks)
              /\ HasEnd(h, k, x)
        /\ \A t \in Range(q.tasks) :
              /\ h.task[t].mem = "live" /\ h.task[t].qid = k
              /\ ~h.task[t].paction /\ ~h.task[t].inflight
        /\ \A i, j \in DOMAIN q.tasks : q.tasks[i] = q.tasks[j] => i = j

(* A live task is in a slot of its queue; one that is not live has nothing *)
(* that could call it back.  A UPnP action needs its proxy and p_action.   *)
TaskOK(h, t) ==
    LET a == h.task[t]
    IN  /\ a.mem = "live" =>
              /\ a.qid \in Keys
              /\ h.queue[a.qid].mem = "live"
              /\ h.queue[a.qid].current = t \/ t \in Range(h.queue[a.qid].tasks)
        /\ a.mem # "live" => ~a.paction /\ ~a.inflight /\ ~a.proxy
        /\ a.paction \/ a.proxy => a.qid \in Service
        /\ a.inflight /\ a.qid \in Service => a.proxy /\ a.paction

Sound(h, x) ==
    /\ h \in HeapType
    /\ h.fault = "none"
    /\ \A k \in Keys : QueueOK(h, k, x)
    /\ \A t \in Tasks : TaskOK(h, t)

(* A service queue that runs a task is not cancelled: the cancellation     *)
(* would have completed the task on the spot.                              *)
ServiceNotCancelled ==
    \A k \in Service : queue[k].current # None => ~queue[k].cancelled

(* Where a walk is: what it has visited neither runs a task nor is about   *)
(* to, and what it has still to visit will not be taken for cancelled.     *)
WalkOK ==
    /\ walk \in [op : {"none", "quit", "remove"}, todo : SUBSET Keys]
    /\ walk.todo \subseteq Live(Heap)
    /\ \A k \in walk.todo : ~Stale(k)
    /\ walk.op = "none" => walk.todo = {}
    /\ walk.op = "quit" =>
          /\ quitting
          /\ Quiet
          /\ \A k \in Live(Heap) \ walk.todo :
                queue[k].current = None /\ ~queue[k].idle
    /\ walk.op = "remove" => walk.todo \cap (AutoRemove \cup Service) = {}
    /\ quitting /\ walk.op # "quit" => Live(Heap) = {}

(* The inductive invariant.  Together its parts say that the heap is sound *)
(* between any two events and at every step of a walk.                     *)
IInv ==
    /\ Sound(Heap, None)
    /\ ServiceNotCancelled
    /\ WalkOK
    /\ quitting \in BOOLEAN

-----------------------------------------------------------------------------
(***************************************************************************)
(* What the heap remembers of each task, and what the counters promise.    *)
(***************************************************************************)

(* The fate of a task agrees with its memory and with the slot it is in.   *)
Fated(h) ==
    /\ \A t \in Tasks :
          LET a == h.task[t]
          IN  /\ a.mem = "unused" <=> a.fate = "none"
              /\ a.mem = "live" => a.fate \in {"waiting", "started", "cancelled"}
              /\ a.mem = "freed" => a.fate \in {"cancelled", "done", "dropped"}
    /\ \A k \in Keys :
          LET q == h.queue[k]
          IN  /\ \A t \in Range(q.tasks) : h.task[t].fate = "waiting"
              /\ q.current # None =>
                    h.task[q.current].fate \in {"started", "cancelled"}

(* running_tasks is the number of queues that have a current task.         *)
Counted(h) ==
    h.running = Cardinality({k \in Keys : h.queue[k].current # None})

(* A processor that is quitting and runs nothing has scheduled on_quit_cb. *)
Armed(h) == quitting /\ h.running = 0 => h.onQuit > 0

(* A queue of service tasks is never deferred.  While it is not cancelled  *)
(* no task of its own is; x is the only one that can be cancelled, and it  *)
(* is empty then: it is on its way to be removed.                          *)
TellsTruth(h, k, x) ==
    LET q == h.queue[k]
        own == {t \in Tasks : h.task[t].qid = k}
    IN  /\ q.mem # "freed" =>
              /\ q.told = "nothing" /\ ~q.defer
              /\ q.cancelled => k = x /\ q.tasks = <<>>
              /\ ~q.cancelled => \A t \in own :
                    h.task[t].fate \in {"waiting", "started", "done"}
        /\ q.told = "finished" => \A t \in own :
              \/ h.task[t].fate = "done"
              \/ quitting /\ h.task[t].fate = "dropped"

Truthful(h, x) == \A k \in Service : TellsTruth(h, k, x)

(* The inductive invariant behind the order of tasks and the counters.     *)
AccountInv ==
    /\ IInv
    /\ Fated(Heap)
    /\ Counted(Heap)
    /\ Armed(Heap)

(* With the answers given to finally_cb, which need that every queue of    *)
(* service tasks removes itself.                                           *)
FullInv == AccountInv /\ Truthful(Heap, None)

=============================================================================
