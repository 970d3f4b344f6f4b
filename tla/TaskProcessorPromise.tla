------------------------ MODULE TaskProcessorPromise ------------------------
(***************************************************************************)
(* The task processor keeps the promise of SerialQueues, counts what runs, *)
(* drains when it quits, and tells finally_cb the truth.  The calls that   *)
(* one event makes are followed through the heaps they pass: Leads relates *)
(* the heap before a call to the heap after it, it is transitive, and a    *)
(* lemma named ...Leads proves it of an operator of TaskProcessor.         *)
(***************************************************************************)
EXTENDS TaskProcessorSafety, TaskProcessorRefinement, FiniteSetTheorems

(* What a call may do to a queue: drop the tasks that wait, end the one    *)
(* that runs, free the queue.                                              *)
QueueStep(p, q) ==
    /\ q.tasks \in {p.tasks, <<>>}
    /\ q.current \in {p.current, None}
    /\ q.mem = p.mem \/ (p.mem = "live" /\ q.mem = "freed")

(* What a call may do to a task: cancel it, delete it, or both.            *)
TaskStep(a, b) ==
    /\ b.qid = a.qid
    /\ \/ /\ b.mem = a.mem
          /\ b.fate = a.fate \/ (a.fate = "started" /\ b.fate = "cancelled")
       \/ /\ a.mem = "live" /\ b.mem = "freed"
          /\ \/ a.fate = "waiting" /\ b.fate \in {"cancelled", "dropped"}
             \/ a.fate = "started" /\ b.fate \in {"cancelled", "done"}
             \/ a.fate = "cancelled" /\ b.fate = "cancelled"

(* The calls made between h and g took no task and added none.             *)
Moves(h, g) ==
    /\ \A k \in Keys : QueueStep(h.queue[k], g.queue[k])
    /\ \A t \in Tasks : TaskStep(h.task[t], g.task[t])
    /\ Counted(h) => Counted(g)
    /\ g.onQuit = h.onQuit \/ (quitting /\ g.onQuit > h.onQuit)

(* They also left the scheduling of on_quit_cb in order.                   *)
Leads(h, g) == Moves(h, g) /\ (Armed(h) => Armed(g))

(* From h to g nothing changes that the promise speaks of.                 *)
Alike(h, g) ==
    /\ g.running = h.running /\ g.onQuit = h.onQuit
    /\ \A k \in Keys : /\ g.queue[k].mem = h.queue[k].mem
                       /\ g.queue[k].tasks = h.queue[k].tasks
                       /\ g.queue[k].current = h.queue[k].current
                       /\ g.queue[k].told = h.queue[k].told
                       /\ g.queue[k].cancelled <=> h.queue[k].cancelled
                       /\ k \in Service =>
                             (g.queue[k].defer <=> h.queue[k].defer)
    /\ \A t \in Tasks : /\ g.task[t].mem = h.task[t].mem
                        /\ g.task[t].qid = h.task[t].qid
                        /\ g.task[t].fate = h.task[t].fate

(* Steps follow one another.                                               *)
LEMMA MovesTransitive ==
    ASSUME NEW h \in HeapType, NEW g \in HeapType, NEW r \in HeapType,
           Moves(h, g), Moves(g, r)
    PROVE  Moves(h, r)
<1>1. ASSUME NEW k \in Keys PROVE QueueStep(h.queue[k], r.queue[k])
  BY DEF Moves, QueueStep
<1>2. ASSUME NEW t \in Tasks PROVE TaskStep(h.task[t], r.task[t])
  <2>1. TaskStep(h.task[t], g.task[t]) /\ TaskStep(g.task[t], r.task[t])
    BY DEF Moves
  <2> QED
    BY <2>1 DEF TaskStep
<1>3. r.onQuit = h.onQuit \/ (quitting /\ r.onQuit > h.onQuit)
  <2>1. h.onQuit \in Nat /\ g.onQuit \in Nat /\ r.onQuit \in Nat
    BY DEF HeapType
  <2> QED
    BY <2>1 DEF Moves
<1>4. Counted(h) => Counted(r)
  BY DEF Moves
<1> QED
  BY <1>1, <1>2, <1>3, <1>4 DEF Moves

LEMMA LeadsTransitive ==
    ASSUME NEW h \in HeapType, NEW g \in HeapType, NEW r \in HeapType,
           Leads(h, g), Leads(g, r)
    PROVE  Leads(h, r)
BY MovesTransitive DEF Leads

(* The count stays right if the same queues run a task.                    *)
LEMMA CountedFrame ==
    ASSUME NEW h, NEW g, g.running = h.running, Counted(h),
           \A k \in Keys : (g.queue[k].current = None)
                              <=> (h.queue[k].current = None)
    PROVE  Counted(g)
<1>1. {k \in Keys : g.queue[k].current # None}
         = {k \in Keys : h.queue[k].current # None}
  OBVIOUS
<1> QED
  BY <1>1 DEF Counted

(* The fates of the tasks agree with their slots after a step as well.     *)
LEMMA FatedAfter ==
    ASSUME NEW h, NEW x, Sound(h, x), NEW g, NEW y, Sound(g, y),
           Fated(h), Moves(h, g)
    PROVE  Fated(g)
<1>1. h \in HeapType /\ g \in HeapType
  BY DEF Sound
<1>2. ASSUME NEW t \in Tasks
      PROVE  /\ g.task[t].mem = "unused" <=> g.task[t].fate = "none"
             /\ g.task[t].mem = "live" =>
                   g.task[t].fate \in {"waiting", "started", "cancelled"}
             /\ g.task[t].mem = "freed" =>
                   g.task[t].fate \in {"cancelled", "done", "dropped"}
  <2>1. TaskStep(h.task[t], g.task[t])
    BY DEF Moves
  <2>2. /\ h.task[t].mem = "unused" <=> h.task[t].fate = "none"
        /\ h.task[t].mem = "live" =>
              h.task[t].fate \in {"waiting", "started", "cancelled"}
        /\ h.task[t].mem = "freed" =>
              h.task[t].fate \in {"cancelled", "done", "dropped"}
    BY DEF Fated
  <2>3. h.task[t].mem \in Memory
    BY <1>1 DEF HeapType, Task
  <2> QED
    BY <2>1, <2>2, <2>3 DEF TaskStep, Memory
<1>3. ASSUME NEW k \in Keys
      PROVE  /\ \A t \in Range(g.queue[k].tasks) : g.task[t].fate = "waiting"
             /\ g.queue[k].current # None =>
                   g.task[g.queue[k].current].fate \in {"started", "cancelled"}
  <2>1. QueueStep(h.queue[k], g.queue[k])
    BY DEF Moves
  <2>2. QueueOK(h, k, x) /\ QueueOK(g, k, y)
    BY DEF Sound
  <2>3. /\ \A t \in Range(h.queue[k].tasks) : h.task[t].fate = "waiting"
        /\ h.queue[k].current # None =>
              h.task[h.queue[k].current].fate \in {"started", "cancelled"}
    BY DEF Fated
  <2>4. ASSUME NEW t \in Range(g.queue[k].tasks)
        PROVE  g.task[t].fate = "waiting"
    <3>1. t \in Range(h.queue[k].tasks)
      BY <2>1 DEF QueueStep, Range
    <3>2. t \in Tasks
      BY <3>1, <1>1, WaitingAreTasks
    <3>3. h.task[t].mem = "live" /\ g.task[t].mem = "live"
      BY <3>1, <2>2 DEF QueueOK
    <3>4. TaskStep(h.task[t], g.task[t])
      BY <3>2 DEF Moves
    <3> QED
      BY <3>1, <3>3, <3>4, <2>3 DEF TaskStep
  <2>5. ASSUME g.queue[k].current # None
        PROVE  g.task[g.queue[k].current].fate \in {"started", "cancelled"}
    <3>1. g.queue[k].current = h.queue[k].current
      BY <2>1, <2>5 DEF QueueStep
    <3>2. h.queue[k].current \in Tasks
      BY <3>1, <2>5, <1>1 DEF HeapType, Queue
    <3>3. /\ h.task[h.queue[k].current].mem = "live"
          /\ g.task[h.queue[k].current].mem = "live"
      BY <3>1, <2>2, <2>5 DEF QueueOK
    <3>4. TaskStep(h.task[h.queue[k].current], g.task[h.queue[k].current])
      BY <3>2 DEF Moves
    <3> QED
      BY <3>1, <3>3, <3>4, <2>3, <2>5 DEF TaskStep
  <2> QED
    BY <2>4, <2>5
<1> QED
  BY <1>2, <1>3 DEF Fated

(* A step that the promise does not speak of.                              *)
LEMMA AlikeLeads ==
    ASSUME NEW h \in HeapType, NEW g \in HeapType, Alike(h, g)
    PROVE  /\ Leads(h, g)
           /\ Fated(h) => Fated(g)
           /\ \A x : Truthful(h, x) => Truthful(g, x)
<1>1. /\ \A k \in Keys : QueueStep(h.queue[k], g.queue[k])
      /\ \A t \in Tasks : TaskStep(h.task[t], g.task[t])
  BY DEF Alike, QueueStep, TaskStep
<1>2. Counted(h) => Counted(g)
  BY CountedFrame DEF Alike
<1>3. Armed(h) => Armed(g)
  BY DEF Armed, Alike
<1>4. Leads(h, g)
  BY <1>1, <1>2, <1>3 DEF Leads, Moves, Alike
<1>5. ASSUME Fated(h) PROVE Fated(g)
  <2>1. \A t \in Tasks : /\ g.task[t].mem = h.task[t].mem
                         /\ g.task[t].fate = h.task[t].fate
    BY DEF Alike
  <2>2. \A k \in Keys : /\ g.queue[k].tasks = h.queue[k].tasks
                        /\ g.queue[k].current = h.queue[k].current
    BY DEF Alike
  <2>3. \A k \in Keys : /\ Range(h.queue[k].tasks) \subseteq Tasks
                        /\ h.queue[k].current \in Tasks \cup {None}
    BY WaitingAreTasks DEF Queue
  <2> QED
    BY <2>1, <2>2, <2>3, <1>5 DEF Fated
<1>6. ASSUME NEW x, Truthful(h, x) PROVE Truthful(g, x)
  <2>1. \A k \in Service : k \in Keys
    BY ConstantsAssumption
  <2>2. ASSUME NEW k \in Service
        PROVE  {t \in Tasks : g.task[t].qid = k}
                  = {t \in Tasks : h.task[t].qid = k}
    BY DEF Alike
  <2> QED
    BY <2>1, <2>2, <1>6 DEF Truthful, TellsTruth, Alike
<1> QED
  BY <1>4, <1>5, <1>6

-----------------------------------------------------------------------------
(* What g_hash_table_remove and prv_free_cb do to the tasks: those that    *)
(* wait in a removed queue are deleted, the others left alone.             *)
LEMMA RemoveQueuesEffect ==
    ASSUME NEW h, Sound(h, None), NEW K \in SUBSET Live(h),
           NEW r, r = RemoveQueues(h, K)
    PROVE  /\ r.running = h.running /\ r.onQuit = h.onQuit
           /\ \A t \in Tasks :
                 \/ r.task[t] = h.task[t]
                 \/ /\ \E k \in K : t \in Range(h.queue[k].tasks)
                    /\ h.task[t].mem = "live" /\ r.task[t].mem = "freed"
                    /\ r.task[t].qid = h.task[t].qid
                    /\ r.task[t].fate = DeletedFate(h.task[t].fate)
<1> DEFINE W == UNION {Range(h.queue[k].tasks) : k \in K}
           d == DeleteTasks(h, W)
           left == [k \in Keys |-> IF k \in K THEN FreedQueue(h.queue[k])
                                              ELSE h.queue[k]]
<1>1. h \in HeapType /\ K \subseteq Keys
  BY DEF Sound, Live
<1>2. \A t : t \in W <=> \E k \in K : t \in Range(h.queue[k].tasks)
  OBVIOUS
<1>3. \A t \in W : t \in Tasks /\ h.task[t].mem = "live"
  BY <1>1, <1>2, WaitingAreTasks DEF Sound, QueueOK
<1>4. r = [d EXCEPT !.queue = left]
  BY DEF RemoveQueues
<1> HIDE DEF W, left
<1>5. /\ d \in HeapType
      /\ d.running = h.running /\ d.onQuit = h.onQuit
      /\ \A t \in Tasks \ W : d.task[t] = h.task[t]
      /\ \A t \in W : /\ d.task[t].mem = "freed"
                      /\ d.task[t].qid = h.task[t].qid
                      /\ d.task[t].fate = DeletedFate(h.task[t].fate)
  <2>1. W \in SUBSET Tasks /\ \A t \in W : h.task[t].mem # "freed"
    BY <1>3
  <2> HIDE DEF d
  <2> QED
    BY <1>1, <2>1, DeleteTasksEffect DEF d
<1> HIDE DEF d
<1>6. r.running = d.running /\ r.onQuit = d.onQuit /\ r.task = d.task
  BY <1>4, <1>5 DEF HeapType
<1> QED
  BY <1>2, <1>3, <1>5, <1>6

(* Queues of service tasks may be freed if they are cancelled or empty, or *)
(* if the processor is quitting.                                           *)
LEMMA RemoveQueuesLeads ==
    ASSUME NEW h, Sound(h, None), Fated(h), NEW K \in SUBSET Live(h),
           \A k \in K : h.queue[k].current = None /\ ~h.queue[k].idle,
           NEW r, r = RemoveQueues(h, K)
    PROVE  /\ Leads(h, r) /\ Fated(r)
           /\ \A x \in K \cup {None} :
                 /\ Truthful(h, x)
                 /\ \A k \in K \cap Service :
                       \/ quitting \/ h.queue[k].cancelled
                       \/ h.queue[k].tasks = <<>>
                 => Truthful(r, None)
<1>1. h \in HeapType /\ K \subseteq Keys
  BY DEF Sound, Live
<1>2. /\ r.running = h.running /\ r.onQuit = h.onQuit
      /\ \A t \in Tasks :
            \/ r.task[t] = h.task[t]
            \/ /\ \E k \in K : t \in Range(h.queue[k].tasks)
               /\ h.task[t].mem = "live" /\ r.task[t].mem = "freed"
               /\ r.task[t].qid = h.task[t].qid
               /\ r.task[t].fate = DeletedFate(h.task[t].fate)
  BY RemoveQueuesEffect
<1>3. /\ Sound(r, None)
      /\ \A k \in K : r.queue[k] = FreedQueue(h.queue[k])
      /\ \A k \in Keys \ K : r.queue[k] = h.queue[k]
  BY RemoveQueuesSound
<1>4. \A k \in K : /\ r.queue[k].mem = "freed" /\ r.queue[k].tasks = <<>>
                   /\ r.queue[k].current = None /\ h.queue[k].mem = "live"
                   /\ r.queue[k].told = "finished" => ~h.queue[k].cancelled
  BY <1>3, FreedQueueEffect DEF Live
<1>5. \A k \in Keys : QueueStep(h.queue[k], r.queue[k])
  BY <1>3, <1>4 DEF QueueStep
<1>6. ASSUME NEW t \in Tasks
      PROVE  \/ r.task[t] = h.task[t]
             \/ /\ \E k \in K : t \in Range(h.queue[k].tasks)
                /\ h.task[t].mem = "live" /\ r.task[t].mem = "freed"
                /\ r.task[t].qid = h.task[t].qid
                /\ h.task[t].fate = "waiting" /\ r.task[t].fate = "dropped"
  <2>1. (\E k \in K : t \in Range(h.queue[k].tasks))
           => h.task[t].fate = "waiting"
    BY <1>1 DEF Fated
  <2> QED
    BY <2>1, <1>2 DEF DeletedFate
<1>7. \A t \in Tasks : TaskStep(h.task[t], r.task[t])
  BY <1>6 DEF TaskStep
<1>8. Counted(h) => Counted(r)
  BY <1>1, <1>2, <1>3, <1>4, CountedFrame
<1>9. Leads(h, r)
  BY <1>2, <1>5, <1>7, <1>8 DEF Leads, Moves, Armed
<1>10. Fated(r)
  BY <1>3, <1>9, FatedAfter DEF Leads
<1>11. ASSUME NEW x \in K \cup {None}, Truthful(h, x),
              \A k \in K \cap Service : \/ quitting \/ h.queue[k].cancelled
                                        \/ h.queue[k].tasks = <<>>,
              NEW k \in Service
       PROVE  TellsTruth(r, k, None)
  <2> USE DEF TellsTruth
  <2> DEFINE q == h.queue[k]
             own == {t \in Tasks : h.task[t].qid = k}
  <2>1. k \in Keys /\ {t \in Tasks : r.task[t].qid = k} = own
    BY <1>6, ConstantsAssumption
  <2>2. /\ q.mem # "freed" =>
              /\ q.told = "nothing" /\ ~q.defer
              /\ q.cancelled => k = x /\ q.tasks = <<>>
              /\ ~q.cancelled => \A t \in own :
                    h.task[t].fate \in {"waiting", "started", "done"}
        /\ q.told = "finished" => \A t \in own :
              \/ h.task[t].fate = "done"
              \/ quitting /\ h.task[t].fate = "dropped"
    BY <1>11 DEF Truthful, TellsTruth
  <2> HIDE DEF own
  <2>3. CASE k \in K
    <3>1. ASSUME r.queue[k].told = "finished", NEW t \in own
          PROVE  \/ r.task[t].fate = "done"
                 \/ quitting /\ r.task[t].fate = "dropped"
      <4>1. t \in Tasks /\ h.task[t].qid = k
        BY DEF own
      <4>2. /\ ~q.cancelled /\ q.mem = "live" /\ q.current = None
            /\ quitting \/ q.tasks = <<>>
        BY <2>3, <3>1, <1>4, <1>11
      <4>3. h.task[t].fate \in {"waiting", "started", "done"}
        BY <2>2, <4>2
      <4>4. CASE h.task[t].fate = "done"
        BY <4>1, <4>4, <1>6
      <4>5. CASE h.task[t].fate # "done"
        <5>1. h.task[t].mem = "live"
          BY <4>1, <4>3, <4>5, <1>1 DEF Fated, HeapType, Task, Memory
        <5>2. TaskOK(h, t) /\ TaskOK(r, t) /\ t # None
          BY <4>1, <1>3, ConstantsAssumption DEF Sound
        <5>3. t \in Range(q.tasks)
          BY <5>1, <5>2, <4>1, <4>2 DEF TaskOK
        <5>4. quitting
          BY <5>3, <4>2 DEF Range
        <5>5. r.task[t].mem # "live"
          BY <5>2, <4>1, <2>1, <2>3, <1>4, <1>6 DEF TaskOK
        <5> QED
          BY <5>1, <5>4, <5>5, <4>1, <1>6
      <4> QED
        BY <4>4, <4>5
    <3> QED
      BY <2>1, <2>3, <3>1, <1>4
  <2>4. CASE k \notin K
    <3>1. r.queue[k] = h.queue[k]
      BY <2>1, <2>4, <1>3
    <3>2. \A t \in own : t \in Tasks /\ h.task[t].qid = k
      BY DEF own
    <3>3. \A t \in own : r.task[t] = h.task[t]
      <4>1. \A j \in K : QueueOK(h, j, None)
        BY <1>1 DEF Sound
      <4>2. \A j \in K : \A t \in Range(h.queue[j].tasks) : h.task[t].qid = j
        BY <4>1 DEF QueueOK
      <4> QED
        BY <4>2, <3>2, <2>4, <1>6
    <3>4. ~(q.mem # "freed" /\ q.cancelled)
      <4>1. k # x
        BY <2>1, <2>4, ConstantsAssumption
      <4> QED
        BY <4>1, <2>2
    <3> QED
      BY <2>1, <2>2, <3>1, <3>3, <3>4
  <2> QED
    BY <2>3, <2>4
<1>12. \A x \in K \cup {None} :
          /\ Truthful(h, x)
          /\ \A k \in K \cap Service : \/ quitting \/ h.queue[k].cancelled
                                       \/ h.queue[k].tasks = <<>>
          => Truthful(r, None)
  BY <1>11 DEF Truthful
<1> QED
  BY <1>9, <1>10, <1>12

-----------------------------------------------------------------------------
(* The operation of a task is nothing the promise speaks of.               *)
LEMMA OnlyTaskAlike ==
    ASSUME NEW h, NEW g, NEW t, OnlyTask(h, g, t)
    PROVE  Alike(h, g)
BY DEF OnlyTask, Alike

(* The answer of queue x matters only while the queue is cancelled.        *)
LEMMA TruthfulAgain ==
    ASSUME NEW h, NEW x, NEW y, Truthful(h, x),
           x \in Service /\ x # y =>
              h.queue[x].mem = "freed" \/ ~h.queue[x].cancelled
    PROVE  Truthful(h, y)
BY DEF Truthful, TellsTruth

(* g_idle_add(prv_process_task).                                           *)
LEMMA ScheduleProcessAlike ==
    ASSUME NEW h \in HeapType, NEW k \in Keys, NEW s, s = ScheduleProcess(h, k)
    PROVE  Alike(h, s)
<1> DEFINE q == [h.queue[k] EXCEPT !.idle = TRUE]
           qs == [h.queue EXCEPT ![k] = q]
           ss == [h.sources EXCEPT ![k] = h.sources[k] + 1]
<1>1. s = [h EXCEPT !.queue = qs, !.sources = ss]
  BY DEF ScheduleProcess, HeapType
<1>2. /\ q.mem = h.queue[k].mem /\ q.tasks = h.queue[k].tasks
      /\ q.current = h.queue[k].current /\ q.told = h.queue[k].told
      /\ q.cancelled = h.queue[k].cancelled /\ q.defer = h.queue[k].defer
  BY DEF HeapType, Queue
<1> HIDE DEF q
<1>3. qs[k] = q /\ \A j \in Keys : j # k => qs[j] = h.queue[j]
  BY DEF HeapType
<1> HIDE DEF qs, ss
<1>4. /\ s.queue = qs /\ s.task = h.task
      /\ s.running = h.running /\ s.onQuit = h.onQuit
  BY <1>1 DEF HeapType
<1> QED
  BY <1>2, <1>3, <1>4 DEF Alike

(* g_idle_add(on_quit_cb).                                                 *)
LEMMA ScheduleOnQuitMoves ==
    ASSUME NEW h \in HeapType, quitting, NEW s, s = ScheduleOnQuit(h)
    PROVE  /\ s \in HeapType /\ s.queue = h.queue /\ s.task = h.task
           /\ s.running = h.running /\ s.onQuit = h.onQuit + 1
           /\ Moves(h, s) /\ Armed(s)
           /\ Fated(h) => Fated(s)
           /\ \A x : Truthful(h, x) => Truthful(s, x)
<1>1. /\ s \in HeapType /\ s.queue = h.queue /\ s.task = h.task
      /\ s.running = h.running /\ s.onQuit = h.onQuit + 1
      /\ h.onQuit \in Nat
  BY DEF ScheduleOnQuit, HeapType
<1>2. /\ \A k \in Keys : QueueStep(h.queue[k], s.queue[k])
      /\ \A t \in Tasks : TaskStep(h.task[t], s.task[t])
  BY <1>1 DEF QueueStep, TaskStep
<1>3. Counted(h) => Counted(s)
  BY <1>1 DEF Counted
<1>4. Moves(h, s)
  BY <1>1, <1>2, <1>3 DEF Moves
<1>5. Armed(s)
  BY <1>1 DEF Armed
<1>6. /\ Fated(h) => Fated(s)
      /\ \A x : Truthful(h, x) => Truthful(s, x)
  BY <1>1 DEF Fated, Truthful, TellsTruth
<1> QED
  BY <1>1, <1>4, <1>5, <1>6

(* The current task of a queue is deleted, and only that.                  *)
LEMMA EndCurrentEffect ==
    ASSUME NEW h, NEW k \in Live(h), Sound(h, k),
           NEW t, t = h.queue[k].current, t # None,
           NEW e, e = EndCurrent(h, k)
    PROVE  /\ e.onQuit = h.onQuit /\ e.running = Decrement(h.running)
           /\ e.queue[k].told = h.queue[k].told
           /\ e.queue[k].defer <=> h.queue[k].defer
           /\ e.queue[k].cancelled <=> h.queue[k].cancelled
           /\ t \in Tasks /\ h.task[t].qid = k /\ h.task[t].mem = "live"
           /\ \A u \in Tasks : u # t => e.task[u] = h.task[u]
           /\ e.task[t].mem = "freed" /\ e.task[t].qid = k
           /\ e.task[t].fate = DeletedFate(h.task[t].fate)
<1> DEFINE d == DeleteTasks(h, {t})
           q == [h.queue[k] EXCEPT !.current = None]
           qs == [h.queue EXCEPT ![k] = q]
<1>1. h \in HeapType /\ k \in Keys /\ QueueOK(h, k, k)
  BY DEF Sound, Live
<1>2. h.queue[k] \in Queue /\ t \in Tasks
  BY <1>1 DEF HeapType, Queue
<1>3. h.task[t].mem = "live" /\ h.task[t].qid = k
  BY <1>1 DEF QueueOK
<1>4. /\ q.told = h.queue[k].told /\ q.defer = h.queue[k].defer
      /\ q.cancelled = h.queue[k].cancelled
  BY <1>2 DEF Queue
<1>5. /\ d \in HeapType /\ d.queue = h.queue
      /\ d.running = h.running /\ d.onQuit = h.onQuit
      /\ \A u \in Tasks \ {t} : d.task[u] = h.task[u]
      /\ \A u \in {t} : /\ d.task[u].mem = "freed"
                        /\ d.task[u].qid = h.task[u].qid
                        /\ d.task[u].fate = DeletedFate(h.task[u].fate)
  <2>1. {t} \in SUBSET Tasks /\ \A u \in {t} : h.task[u].mem # "freed"
    BY <1>2, <1>3
  <2>2. d = DeleteTasks(h, {t})
    OBVIOUS
  <2> HIDE DEF d
  <2> QED
    BY ONLY <1>1, <2>1, <2>2, DeleteTasksEffect
<1> DEFINE ds == [d.queue EXCEPT ![k] = [d.queue[k] EXCEPT !.current = None]]
<1>6. e = [d EXCEPT !.queue = ds, !.running = Decrement(d.running)]
  <2> DEFINE D == IF t = None THEN h ELSE d
             dd == [D.queue EXCEPT ![k] = [D.queue[k] EXCEPT !.current = None]]
  <2>1. e = [D EXCEPT !.queue = dd, !.running = Decrement(D.running)]
    BY DEF EndCurrent
  <2>2. D = d
    OBVIOUS
  <2> HIDE DEF D, d
  <2> QED
    BY <2>1, <2>2
<1> HIDE DEF d
<1>7. e = [d EXCEPT !.queue = qs, !.running = Decrement(h.running)]
  BY <1>5, <1>6
<1> HIDE DEF q
<1>8. qs[k] = q
  BY <1>1 DEF HeapType
<1> HIDE DEF qs
<1>9. /\ e.queue = qs /\ e.task = d.task /\ e.onQuit = h.onQuit
      /\ e.running = Decrement(h.running)
  BY <1>5, <1>7 DEF HeapType
<1> QED
  BY <1>2, <1>3, <1>4, <1>5, <1>8, <1>9

(* A task that was taken from a queue is deleted: one queue fewer runs.    *)
LEMMA EndCurrentMoves ==
    ASSUME NEW h, NEW k \in Live(h), Sound(h, k), Fated(h),
           h.queue[k].current # None,
           NEW e, e = EndCurrent(h, k)
    PROVE  /\ Moves(h, e) /\ Fated(e)
           /\ \A x : Truthful(h, x) => Truthful(e, x)
<1> DEFINE t == h.queue[k].current
           C == {j \in Keys : h.queue[j].current # None}
<1>1. h \in HeapType /\ k \in Keys /\ h.queue[k].mem = "live"
  BY DEF Sound, Live
<1>2. /\ Sound(e, None)
      /\ e.queue[k].mem = "live" /\ e.queue[k].current = None
      /\ e.queue[k].tasks = h.queue[k].tasks
      /\ \A j \in Keys \ {k} : e.queue[j] = h.queue[j]
  BY EndCurrentSound
<1>3. /\ e.onQuit = h.onQuit /\ e.running = Decrement(h.running)
      /\ e.queue[k].told = h.queue[k].told
      /\ e.queue[k].defer <=> h.queue[k].defer
      /\ e.queue[k].cancelled <=> h.queue[k].cancelled
      /\ t \in Tasks /\ h.task[t].qid = k /\ h.task[t].mem = "live"
      /\ \A u \in Tasks : u # t => e.task[u] = h.task[u]
      /\ e.task[t].mem = "freed" /\ e.task[t].qid = k
      /\ e.task[t].fate = DeletedFate(h.task[t].fate)
  <2>1. t = h.queue[k].current /\ t # None
    OBVIOUS
  <2> HIDE DEF t
  <2> QED
    BY <2>1, EndCurrentEffect
<1>4. h.task[t].fate \in {"started", "cancelled"}
  BY <1>1 DEF Fated
<1> HIDE DEF t
<1>5. e.task[t].fate = IF h.task[t].fate = "started" THEN "done"
                       ELSE "cancelled"
  BY <1>3, <1>4 DEF DeletedFate
<1>6. \A j \in Keys : QueueStep(h.queue[j], e.queue[j])
  BY <1>1, <1>2 DEF QueueStep
<1>7. \A u \in Tasks : TaskStep(h.task[u], e.task[u])
  BY <1>3, <1>4, <1>5 DEF TaskStep
<1>8. ASSUME Counted(h) PROVE Counted(e)
  <2>1. C \in SUBSET Keys /\ IsFiniteSet(C) /\ k \in C
    BY <1>1, BoundAssumption, FS_Subset
  <2>2. {j \in Keys : e.queue[j].current # None} = C \ {k}
    BY <1>2
  <2>3. h.running = Cardinality(C) /\ Cardinality(C) \in Nat
    BY <2>1, <1>8, FS_CardinalityType DEF Counted
  <2>4. Cardinality(C \ {k}) = Cardinality(C) - 1
    BY <2>1, FS_RemoveElement
  <2>5. Cardinality(C) # 0
    BY <2>1, FS_EmptySet
  <2> QED
    BY <2>2, <2>3, <2>4, <2>5, <1>3 DEF Counted, Decrement
<1>9. Moves(h, e)
  BY <1>3, <1>6, <1>7, <1>8 DEF Moves
<1>10. Fated(e)
  BY <1>2, <1>9, FatedAfter
<1>11. ASSUME NEW x, Truthful(h, x), NEW j \in Service
       PROVE  TellsTruth(e, j, x)
  <2> USE DEF TellsTruth
  <2> DEFINE own == {u \in Tasks : h.task[u].qid = j}
  <2>1. j \in Keys /\ {u \in Tasks : e.task[u].qid = j} = own
    BY <1>3, ConstantsAssumption
  <2>2. /\ h.queue[j].mem # "freed" =>
              /\ h.queue[j].told = "nothing" /\ ~h.queue[j].defer
              /\ h.queue[j].cancelled => j = x /\ h.queue[j].tasks = <<>>
              /\ ~h.queue[j].cancelled => \A u \in own :
                    h.task[u].fate \in {"waiting", "started", "done"}
        /\ h.queue[j].told = "finished" => \A u \in own :
              \/ h.task[u].fate = "done"
              \/ quitting /\ h.task[u].fate = "dropped"
    BY <1>11 DEF Truthful, TellsTruth
  <2>3. \A u \in own : u \in Tasks /\ h.task[u].qid = j
    OBVIOUS
  <2> HIDE DEF own
  <2>4. CASE j = k
    <3>1. /\ e.queue[j].told = "nothing" /\ ~e.queue[j].defer
          /\ e.queue[j].cancelled => j = x /\ e.queue[j].tasks = <<>>
          /\ ~e.queue[j].cancelled => \A u \in own :
                h.task[u].fate \in {"waiting", "started", "done"}
      BY <2>2, <2>4, <1>1, <1>2, <1>3
    <3>2. \A u \in own : \/ e.task[u].fate = h.task[u].fate
                         \/ h.task[u].fate = "started" /\ e.task[u].fate = "done"
                         \/ h.task[u].fate = "cancelled"
      BY <2>3, <1>3, <1>4, <1>5
    <3>3. ~e.queue[j].cancelled => \A u \in own :
                e.task[u].fate \in {"waiting", "started", "done"}
      BY <3>1, <3>2
    <3> QED
      BY <2>1, <3>1, <3>3
  <2>5. CASE j # k
    <3>1. e.queue[j] = h.queue[j] /\ \A u \in own : e.task[u] = h.task[u]
      BY <2>1, <2>3, <2>5, <1>2, <1>3
    <3> QED
      BY <2>1, <2>2, <3>1
  <2> QED
    BY <2>4, <2>5
<1>12. \A x : Truthful(h, x) => Truthful(e, x)
  BY <1>11 DEF Truthful
<1> QED
  BY <1>9, <1>10, <1>12

(* dleyna_task_queue_task_completed.  When nothing runs any more while the *)
(* processor quits, on_quit_cb is scheduled before the queues are removed. *)
LEMMA TaskCompletedLeads ==
    ASSUME NEW h, NEW k \in Live(h), Sound(h, k), Fated(h),
           h.queue[k].current # None,
           quitting => \A j \in Keys \ {k} :
                          h.queue[j].current = None /\ ~h.queue[j].idle,
           NEW c, c = TaskCompleted(h, k)
    PROVE  /\ Leads(h, c) /\ Fated(c)
           /\ \A x \in {k, None} :
                 Service \subseteq AutoRemove /\ Truthful(h, x)
                    => Truthful(c, None)
<1> DEFINE e == EndCurrent(h, k)
           s == ScheduleOnQuit(e)
<1>1. k \in Keys /\ h \in HeapType
  BY DEF Live, Sound
<1>2. /\ Sound(e, None) /\ Moves(h, e) /\ Fated(e)
      /\ \A x : Truthful(h, x) => Truthful(e, x)
      /\ e.queue[k].mem = "live" /\ ~e.queue[k].idle
      /\ e.queue[k].current = None
      /\ \A j \in Keys \ {k} : e.queue[j] = h.queue[j]
  <2>1. e = EndCurrent(h, k)
    OBVIOUS
  <2> HIDE DEF e
  <2> QED
    BY <2>1, EndCurrentSound, EndCurrentMoves
<1>3. k \in Live(e) /\ e \in HeapType
  BY <1>1, <1>2 DEF Live, Sound
<1>4. c = IF quitting /\ e.running = 0 THEN RemoveAll(s)
          ELSE IF e.queue[k].defer THEN RemoveQueues(e, {k})
          ELSE IF e.queue[k].tasks # <<>> THEN ScheduleProcess(e, k)
          ELSE IF k \in AutoRemove THEN RemoveQueues(e, {k})
          ELSE e
  BY DEF TaskCompleted
<1> HIDE DEF e
<1>5. ASSUME NEW x \in {k, None}, Truthful(e, x),
             k \in Service => ~e.queue[k].cancelled
      PROVE  Truthful(e, None)
  BY <1>5, TruthfulAgain
<1>6. CASE quitting /\ e.running = 0
  <2>1. /\ s \in HeapType /\ s.queue = e.queue
        /\ Moves(e, s) /\ Armed(s) /\ Fated(s)
        /\ \A x : Truthful(e, x) => Truthful(s, x)
    <3> HIDE DEF s
    <3> QED
      BY <1>2, <1>3, <1>6, ScheduleOnQuitMoves DEF s
  <2>2. Sound(s, None)
    <3> HIDE DEF s
    <3> QED
      BY <1>2, ScheduleOnQuitSound DEF s
  <2>3. c = RemoveQueues(s, Live(s))
    BY <1>4, <1>6 DEF RemoveAll
  <2> HIDE DEF s
  <2>4. /\ Live(s) \subseteq Keys /\ k \in Live(s)
        /\ \A j \in Live(s) : s.queue[j].current = None /\ ~s.queue[j].idle
    BY <2>1, <1>2, <1>3, <1>6 DEF Live
  <2>5. /\ Leads(s, c) /\ Fated(c)
        /\ \A x \in Live(s) \cup {None} : Truthful(s, x) => Truthful(c, None)
    BY <2>1, <2>2, <2>3, <2>4, <1>6, RemoveQueuesLeads
  <2>6. c \in HeapType
    BY <2>2, <2>3, <2>4, RemoveQueuesSound DEF Sound
  <2>7. Moves(h, c)
    BY <2>1, <2>5, <2>6, <1>1, <1>2, <1>3, MovesTransitive DEF Leads
  <2>8. Leads(h, c)
    BY <2>1, <2>5, <2>7 DEF Leads
  <2> QED
    BY <2>1, <2>4, <2>5, <2>8, <1>2
<1>7. CASE ~(quitting /\ e.running = 0)
  <2>1. Leads(h, e)
    BY <1>2, <1>7 DEF Leads, Armed
  <2>2. ASSUME NEW r, r = RemoveQueues(e, {k})
        PROVE  /\ r \in HeapType /\ Leads(e, r) /\ Fated(r)
               /\ \A x \in {k, None} :
                     /\ Truthful(e, x)
                     /\ k \in Service => \/ e.queue[k].cancelled
                                         \/ e.queue[k].tasks = <<>>
                     => Truthful(r, None)
    <3>1. /\ {k} \in SUBSET Live(e)
          /\ \A j \in {k} : e.queue[j].current = None /\ ~e.queue[j].idle
      BY <1>2, <1>3
    <3>2. Sound(r, None)
      BY <3>1, <2>2, <1>2, RemoveQueuesSound
    <3>3. /\ Leads(e, r) /\ Fated(r)
          /\ \A x \in {k} \cup {None} :
                /\ Truthful(e, x)
                /\ \A j \in {k} \cap Service :
                      \/ quitting \/ e.queue[j].cancelled
                      \/ e.queue[j].tasks = <<>>
                => Truthful(r, None)
      BY <3>1, <2>2, <1>2, RemoveQueuesLeads
    <3> QED
      BY <3>2, <3>3 DEF Sound
  <2>3. CASE c = RemoveQueues(e, {k}) /\ e.queue[k].defer
    <3>1. \A x : Truthful(e, x) => k \notin Service
      BY <2>3, <1>2 DEF Truthful, TellsTruth
    <3>2. /\ c \in HeapType /\ Leads(e, c) /\ Fated(c)
          /\ \A x \in {k, None} :
                Truthful(e, x) /\ k \notin Service => Truthful(c, None)
      BY <2>2, <2>3
    <3>3. Leads(h, c)
      BY <3>2, <2>1, <1>1, <1>3, LeadsTransitive
    <3> QED
      BY <3>1, <3>2, <3>3, <1>2
  <2>4. CASE c = RemoveQueues(e, {k}) /\ e.queue[k].tasks = <<>>
    <3>1. /\ c \in HeapType /\ Leads(e, c) /\ Fated(c)
          /\ \A x \in {k, None} : Truthful(e, x) => Truthful(c, None)
      BY <2>2, <2>4
    <3>2. Leads(h, c)
      BY <3>1, <2>1, <1>1, <1>3, LeadsTransitive
    <3> QED
      BY <3>1, <3>2, <1>2
  <2>5. CASE c = ScheduleProcess(e, k) /\ e.queue[k].tasks # <<>>
    <3>1. Sound(c, None)
      BY <2>5, <1>2, <1>3, ScheduleProcessSound
    <3>2. c \in HeapType /\ Alike(e, c)
      BY <3>1, <2>5, <1>1, <1>3, ScheduleProcessAlike DEF Sound
    <3>3. /\ Leads(e, c) /\ Fated(c)
          /\ \A x : Truthful(e, x) => Truthful(c, x)
      BY <3>2, <1>2, <1>3, AlikeLeads
    <3>4. Leads(h, c)
      BY <3>2, <3>3, <2>1, <1>1, <1>3, LeadsTransitive
    <3>5. \A x : Truthful(e, x) /\ k \in Service => ~e.queue[k].cancelled
      BY <2>5, <1>2 DEF Truthful, TellsTruth
    <3> QED
      BY <3>3, <3>4, <3>5, <1>2, <1>5
  <2>6. CASE c = e /\ k \notin AutoRemove
    <3>1. Service \subseteq AutoRemove => k \notin Service
      BY <2>6
    <3> QED
      BY <3>1, <2>1, <2>6, <1>2, <1>5
  <2> QED
    BY <2>3, <2>4, <2>5, <2>6, <1>4, <1>7
<1> QED
  BY <1>6, <1>7

-----------------------------------------------------------------------------
(* prv_cancel_only up to the current task: the tasks that wait are         *)
(* cancelled and deleted.                                                  *)
LEMMA CancelWaitingEffect ==
    ASSUME NEW h, NEW x, Sound(h, x), NEW k \in Live(h),
           NEW w, w = CancelWaiting(h, k)
    PROVE  /\ w.running = h.running /\ w.onQuit = h.onQuit
           /\ w.queue[k].told = h.queue[k].told /\ w.queue[k].cancelled
           /\ w.queue[k].defer <=> h.queue[k].defer
           /\ \A t \in Tasks : t \notin Range(h.queue[k].tasks) =>
                 /\ w.task[t].mem = h.task[t].mem
                 /\ w.task[t].qid = h.task[t].qid
                 /\ w.task[t].fate = h.task[t].fate
           /\ \A t \in Range(h.queue[k].tasks) :
                 /\ t \in Tasks /\ h.task[t].mem = "live"
                 /\ h.task[t].qid = k /\ w.task[t].qid = k
                 /\ w.task[t].mem = "freed" /\ w.task[t].fate = "cancelled"
<1> DEFINE R == Range(h.queue[k].tasks)
           m == MarkCancelled(h, R)
           d == DeleteTasks(m, R)
           q == [h.queue[k] EXCEPT !.cancelled = TRUE, !.tasks = <<>>,
                                   !.idle = FALSE]
           n == IF h.queue[k].idle THEN d.sources[k] - 1 ELSE d.sources[k]
           qs == [d.queue EXCEPT ![k] = q]
           ss == [d.sources EXCEPT ![k] = n]
<1>1. w = [d EXCEPT !.queue = qs, !.sources = ss]
  BY DEF CancelWaiting
<1>2. h \in HeapType /\ k \in Keys /\ QueueOK(h, k, x)
  BY DEF Sound, Live
<1>3. h.queue[k] \in Queue /\ R \subseteq Tasks
  BY <1>2, WaitingAreTasks
<1>4. /\ q.told = h.queue[k].told /\ q.cancelled
      /\ q.defer = h.queue[k].defer
  BY <1>3 DEF Queue
<1> HIDE DEF q, n
<1>5. \A t \in R : h.task[t].mem = "live" /\ h.task[t].qid = k
  BY <1>2 DEF QueueOK
<1>6. /\ m \in HeapType /\ m.queue = h.queue
      /\ m.running = h.running /\ m.onQuit = h.onQuit
      /\ \A t \in R : m.task[t].fate = "cancelled"
      /\ \A t \in Tasks \ R : m.task[t].fate = h.task[t].fate
      /\ \A t \in Tasks : /\ m.task[t].mem = h.task[t].mem
                          /\ m.task[t].qid = h.task[t].qid
  <2>1. m = MarkCancelled(h, R) /\ R \in SUBSET Tasks
    BY <1>3
  <2> HIDE DEF R, m
  <2> QED
    BY ONLY <1>2, <2>1, MarkCancelledEffect
<1>7. /\ d \in HeapType /\ d.queue = h.queue
      /\ d.running = h.running /\ d.onQuit = h.onQuit
      /\ \A t \in Tasks \ R : d.task[t] = m.task[t]
      /\ \A t \in R : /\ d.task[t].mem = "freed"
                      /\ d.task[t].qid = m.task[t].qid
                      /\ d.task[t].fate = DeletedFate(m.task[t].fate)
  <2>1. /\ d = DeleteTasks(m, R) /\ R \in SUBSET Tasks
        /\ \A t \in R : m.task[t].mem # "freed"
    BY <1>3, <1>5, <1>6
  <2> HIDE DEF R, m, d
  <2>2. /\ d \in HeapType /\ d.queue = m.queue
        /\ d.running = m.running /\ d.onQuit = m.onQuit
        /\ \A t \in Tasks \ R : d.task[t] = m.task[t]
        /\ \A t \in R : /\ d.task[t].mem = "freed"
                        /\ d.task[t].qid = m.task[t].qid
                        /\ d.task[t].fate = DeletedFate(m.task[t].fate)
    BY ONLY <1>6, <2>1, DeleteTasksEffect
  <2> QED
    BY <2>2, <1>6
<1> HIDE DEF R, m, d
<1>8. qs[k] = q
  BY <1>2, <1>7 DEF HeapType
<1> HIDE DEF qs, ss
<1>9. /\ w.queue = qs /\ w.task = d.task
      /\ w.running = h.running /\ w.onQuit = h.onQuit
  BY <1>1, <1>7 DEF HeapType
<1>10. \A t \in Tasks : t \notin R => /\ w.task[t].mem = h.task[t].mem
                                      /\ w.task[t].qid = h.task[t].qid
                                      /\ w.task[t].fate = h.task[t].fate
  BY <1>6, <1>7, <1>9
<1>11. \A t \in R : /\ t \in Tasks /\ h.task[t].mem = "live"
                    /\ h.task[t].qid = k /\ w.task[t].qid = k
                    /\ w.task[t].mem = "freed" /\ w.task[t].fate = "cancelled"
  BY <1>3, <1>5, <1>6, <1>7, <1>9 DEF DeletedFate
<1> QED
  BY <1>4, <1>8, <1>9, <1>10, <1>11 DEF R

LEMMA CancelWaitingLeads ==
    ASSUME NEW h, NEW x, Sound(h, x), Fated(h), NEW k \in Live(h),
           NEW w, w = CancelWaiting(h, k)
    PROVE  /\ Leads(h, w) /\ Fated(w) /\ w.queue[k].cancelled
           /\ \A y \in {k, None} : Truthful(h, y) => Truthful(w, k)
<1>1. h \in HeapType /\ k \in Keys /\ h.queue[k].mem = "live"
  BY DEF Sound, Live
<1>2. /\ w.running = h.running /\ w.onQuit = h.onQuit
      /\ w.queue[k].told = h.queue[k].told /\ w.queue[k].cancelled
      /\ w.queue[k].defer <=> h.queue[k].defer
      /\ \A t \in Tasks : t \notin Range(h.queue[k].tasks) =>
            /\ w.task[t].mem = h.task[t].mem
            /\ w.task[t].qid = h.task[t].qid
            /\ w.task[t].fate = h.task[t].fate
      /\ \A t \in Range(h.queue[k].tasks) :
            /\ t \in Tasks /\ h.task[t].mem = "live"
            /\ h.task[t].qid = k /\ w.task[t].qid = k
            /\ w.task[t].mem = "freed" /\ w.task[t].fate = "cancelled"
  BY CancelWaitingEffect
<1>3. /\ Sound(w, x)
      /\ w.queue[k].mem = "live" /\ w.queue[k].tasks = <<>>
      /\ w.queue[k].current = h.queue[k].current
      /\ \A j \in Keys \ {k} : w.queue[j] = h.queue[j]
  BY CancelWaitingSound
<1>4. \A j \in Keys : QueueStep(h.queue[j], w.queue[j])
  BY <1>1, <1>3 DEF QueueStep
<1>5. ASSUME NEW t \in Tasks PROVE TaskStep(h.task[t], w.task[t])
  <2>1. t \in Range(h.queue[k].tasks) => h.task[t].fate = "waiting"
    BY <1>1 DEF Fated
  <2> QED
    BY <2>1, <1>2 DEF TaskStep
<1>6. Counted(h) => Counted(w)
  BY <1>2, <1>3, CountedFrame
<1>7. Leads(h, w)
  BY <1>2, <1>4, <1>5, <1>6 DEF Leads, Moves, Armed
<1>8. Fated(w)
  BY <1>3, <1>7, FatedAfter DEF Leads
<1>9. ASSUME NEW y \in {k, None}, Truthful(h, y), NEW j \in Service
      PROVE  TellsTruth(w, j, k)
  <2> USE DEF TellsTruth
  <2> DEFINE own == {t \in Tasks : h.task[t].qid = j}
  <2>1. j \in Keys /\ {t \in Tasks : w.task[t].qid = j} = own
    BY <1>2, ConstantsAssumption
  <2>2. /\ h.queue[j].mem # "freed" =>
              /\ h.queue[j].told = "nothing" /\ ~h.queue[j].defer
              /\ h.queue[j].cancelled => j = y /\ h.queue[j].tasks = <<>>
              /\ ~h.queue[j].cancelled => \A t \in own :
                    h.task[t].fate \in {"waiting", "started", "done"}
        /\ h.queue[j].told = "finished" => \A t \in own :
              \/ h.task[t].fate = "done"
              \/ quitting /\ h.task[t].fate = "dropped"
    BY <1>9 DEF Truthful, TellsTruth
  <2>3. \A t \in own : t \in Tasks /\ h.task[t].qid = j
    OBVIOUS
  <2> HIDE DEF own
  <2>4. CASE j = k
    BY <2>2, <2>4, <1>1, <1>2, <1>3
  <2>5. CASE j # k
    <3>1. /\ w.queue[j] = h.queue[j]
          /\ \A t \in own : w.task[t].fate = h.task[t].fate
      BY <2>1, <2>3, <2>5, <1>2, <1>3
    <3>2. ~(h.queue[j].mem # "freed" /\ h.queue[j].cancelled)
      BY <2>1, <2>2, <2>5, ConstantsAssumption
    <3> QED
      BY <2>1, <2>2, <3>1, <3>2
  <2> QED
    BY <2>4, <2>5
<1>10. \A y \in {k, None} : Truthful(h, y) => Truthful(w, k)
  BY <1>9 DEF Truthful
<1> QED
  BY <1>2, <1>7, <1>8, <1>10

(* task_cancel_cb of the current task, as far as the history is concerned. *)
LEMMA MarkCancelledLeads ==
    ASSUME NEW h, NEW x, Sound(h, x), Fated(h), NEW k \in Live(h),
           NEW t, t = h.queue[k].current, t # None,
           NEW m, m = MarkCancelled(h, {t})
    PROVE  /\ Leads(h, m) /\ Fated(m)
           /\ h.queue[k].cancelled /\ Truthful(h, k) => Truthful(m, k)
<1>1. h \in HeapType /\ k \in Keys /\ h.queue[k].mem = "live" /\ QueueOK(h, k, x)
  BY DEF Sound, Live
<1>2. t \in Tasks /\ h.task[t].qid = k
  BY <1>1 DEF QueueOK, HeapType, Queue
<1>3. {t} \in SUBSET Tasks
  BY <1>2
<1>4. /\ m.queue = h.queue /\ m.running = h.running /\ m.onQuit = h.onQuit
      /\ \A u \in {t} : m.task[u].fate = "cancelled"
      /\ \A u \in Tasks \ {t} : m.task[u].fate = h.task[u].fate
      /\ \A u \in Tasks : /\ m.task[u].mem = h.task[u].mem
                          /\ m.task[u].qid = h.task[u].qid
  BY ONLY <1>1, <1>3, m = MarkCancelled(h, {t}), MarkCancelledEffect
<1>5. h.task[t].fate \in {"started", "cancelled"}
  BY <1>1 DEF Fated
<1>6. /\ \A j \in Keys : QueueStep(h.queue[j], m.queue[j])
      /\ \A u \in Tasks : TaskStep(h.task[u], m.task[u])
  BY <1>4, <1>5 DEF QueueStep, TaskStep
<1>7. Counted(h) => Counted(m)
  BY <1>4 DEF Counted
<1>8. Leads(h, m)
  BY <1>4, <1>6, <1>7 DEF Leads, Moves, Armed
<1>9. Sound(m, x)
  BY <1>3, MarkCancelledSound
<1>10. Fated(m)
  BY <1>8, <1>9, FatedAfter DEF Leads
<1>11. ASSUME h.queue[k].cancelled, Truthful(h, k), NEW j \in Service
       PROVE  TellsTruth(m, j, k)
  <2> DEFINE own == {u \in Tasks : h.task[u].qid = j}
  <2>1. {u \in Tasks : m.task[u].qid = j} = own
    BY <1>4
  <2>2. TellsTruth(h, j, k)
    BY <1>11 DEF Truthful
  <2>3. j # k => \A u \in own : m.task[u].fate = h.task[u].fate
    BY <1>2, <1>4
  <2>4. j = k => h.queue[j].told = "nothing" /\ h.queue[j].cancelled
    BY <2>2, <1>1, <1>11 DEF TellsTruth
  <2>5. m.queue[j] = h.queue[j]
    BY <1>4
  <2> HIDE DEF own
  <2> QED
    BY <2>1, <2>2, <2>3, <2>4, <2>5 DEF TellsTruth, own
<1>12. h.queue[k].cancelled /\ Truthful(h, k) => Truthful(m, k)
  BY <1>11 DEF Truthful
<1> QED
  BY <1>8, <1>10, <1>12

(* dleyna_service_task_cancel_cb completes the task on the spot.           *)
LEMMA ServiceTaskCancelLeads ==
    ASSUME NEW h, Sound(h, None), Fated(h), NEW k \in Live(h), k \in Service,
           NEW t, t = h.queue[k].current, t # None,
           quitting => \A j \in Keys \ {k} :
                          h.queue[j].current = None /\ ~h.queue[j].idle,
           NEW c, c = ServiceTaskCancel(h, t)
    PROVE  /\ Leads(h, c) /\ Fated(c)
           /\ \A x \in {k, None} :
                 Service \subseteq AutoRemove /\ Truthful(h, x)
                    => Truthful(c, None)
<1>1. PICK g : /\ OnlyTask(h, g, t) /\ Sound(g, k)
               /\ c = TaskCompleted(g, k)
  BY ServiceTaskCancelEffect
<1>2. g.queue = h.queue /\ g \in HeapType /\ h \in HeapType
  BY <1>1 DEF OnlyTask, Sound
<1>3. /\ k \in Live(g) /\ g.queue[k].current # None
      /\ quitting => \A j \in Keys \ {k} :
                        g.queue[j].current = None /\ ~g.queue[j].idle
  BY <1>2 DEF Live
<1>4. Alike(h, g)
  BY <1>1, OnlyTaskAlike
<1>5. /\ Leads(h, g) /\ Fated(g)
      /\ \A x : Truthful(h, x) => Truthful(g, x)
  BY <1>2, <1>4, AlikeLeads
<1>6. /\ Leads(g, c) /\ Fated(c)
      /\ \A x \in {k, None} :
            Service \subseteq AutoRemove /\ Truthful(g, x) => Truthful(c, None)
  BY <1>1, <1>3, <1>5, TaskCompletedLeads
<1>7. c \in HeapType
  BY ServiceTaskCancelSound DEF Sound
<1>8. Leads(h, c)
  BY <1>2, <1>5, <1>6, <1>7, LeadsTransitive
<1> QED
  BY <1>5, <1>6, <1>8

(* prv_cancel_only between two events.  A queue that it leaves cancelled   *)
(* is empty, and about to be removed if its tasks are service tasks.       *)
LEMMA CancelOnlyLeads ==
    ASSUME NEW h, Sound(h, None), Fated(h), NEW k \in Live(h),
           quitting /\ h.queue[k].current # None =>
              \A j \in Keys \ {k} :
                 h.queue[j].current = None /\ ~h.queue[j].idle,
           NEW c, c = CancelOnly(h, k)
    PROVE  /\ Leads(h, c) /\ Fated(c)
           /\ h.queue[k].current = None => c.queue[k].cancelled
           /\ Service \subseteq AutoRemove /\ Truthful(h, None) =>
                 /\ Truthful(c, k)
                 /\ \/ k \notin Service \/ h.queue[k].current # None
                    \/ h.queue[k].cancelled
                    => Truthful(c, None)
<1>1. h \in HeapType /\ k \in Keys /\ h.queue[k].mem = "live"
  BY DEF Sound, Live
<1>2. CASE h.queue[k].cancelled
  <2>1. c = h
    BY <1>2 DEF CancelOnly
  <2>2. Alike(h, h)
    BY DEF Alike
  <2>3. Leads(h, c)
    BY <2>1, <2>2, <1>1, AlikeLeads
  <2>4. Truthful(h, None) => Truthful(h, k)
    BY TruthfulAgain, ConstantsAssumption
  <2> QED
    BY <2>1, <2>3, <2>4, <1>2
<1>3. CASE ~h.queue[k].cancelled
  <2> DEFINE w == CancelWaiting(h, k)
  <2>1. /\ Sound(w, None) /\ w.queue[k].mem = "live"
        /\ w.queue[k].current = h.queue[k].current
        /\ \A j \in Keys \ {k} : w.queue[j] = h.queue[j]
        /\ Leads(h, w) /\ Fated(w) /\ w.queue[k].cancelled
        /\ Truthful(h, None) => Truthful(w, k)
    <3>1. w = CancelWaiting(h, k)
      OBVIOUS
    <3> HIDE DEF w
    <3> QED
      BY <3>1, CancelWaitingSound, CancelWaitingLeads
  <2>2. CASE h.queue[k].current = None
    <3>1. c = w
      BY <2>2, <1>3 DEF CancelOnly
    <3> HIDE DEF w
    <3>2. k \notin Service /\ Truthful(w, k) => Truthful(w, None)
      BY TruthfulAgain
    <3> QED
      BY <3>1, <3>2, <2>1, <2>2, <1>3
  <2>3. CASE h.queue[k].current # None
    <3> DEFINE t == w.queue[k].current
               m == MarkCancelled(w, {t})
    <3>1. c = IF k \in Service THEN ServiceTaskCancel(m, t) ELSE m
      BY <2>3, <1>3 DEF CancelOnly, CancelCurrent
    <3> HIDE DEF w
    <3>2. k \in Live(w) /\ t \in Tasks /\ t # None
      BY <2>1, <2>3, <1>1 DEF Live, HeapType, Queue
    <3>3. /\ Sound(m, None) /\ m.queue = w.queue
          /\ Leads(w, m) /\ Fated(m)
          /\ Truthful(w, k) => Truthful(m, k)
      <4>1. /\ t = w.queue[k].current /\ m = MarkCancelled(w, {t})
            /\ {t} \in SUBSET Tasks
        BY <3>2
      <4> HIDE DEF t, m
      <4> QED
        BY <2>1, <3>2, <4>1, MarkCancelledSound, MarkCancelledLeads
    <3> HIDE DEF m
    <3>4. h \in HeapType /\ w \in HeapType /\ m \in HeapType
      BY <1>1, <2>1, <3>3 DEF Sound
    <3>5. Leads(h, m)
      BY <2>1, <3>3, <3>4, LeadsTransitive
    <3>6. CASE k \in Service
      <4>1. /\ k \in Live(m) /\ t = m.queue[k].current
            /\ quitting => \A j \in Keys \ {k} :
                              m.queue[j].current = None /\ ~m.queue[j].idle
        BY <2>1, <2>3, <3>3, <1>1 DEF Live
      <4>2. c = ServiceTaskCancel(m, t)
        BY <3>1, <3>6
      <4> HIDE DEF t
      <4>3. /\ Leads(m, c) /\ Fated(c)
            /\ Service \subseteq AutoRemove /\ Truthful(m, k)
                  => Truthful(c, None)
        BY <3>2, <3>3, <3>6, <4>1, <4>2, ServiceTaskCancelLeads
      <4>4. c \in HeapType
        BY <3>2, <3>3, <3>6, <4>1, <4>2, ServiceTaskCancelSound DEF Sound
      <4>5. Leads(h, c)
        BY <3>4, <3>5, <4>3, <4>4, LeadsTransitive
      <4>6. Truthful(c, None) => Truthful(c, k)
        BY TruthfulAgain, ConstantsAssumption
      <4> QED
        BY <2>1, <2>3, <3>3, <4>3, <4>5, <4>6
    <3>7. CASE k \notin Service
      <4>1. c = m
        BY <3>1, <3>7
      <4>2. Truthful(m, k) => Truthful(m, None)
        BY <3>7, TruthfulAgain
      <4> QED
        BY <2>1, <2>3, <3>3, <3>5, <4>1, <4>2
    <3> QED
      BY <3>6, <3>7
  <2> QED
    BY <2>2, <2>3
<1> QED
  BY <1>2, <1>3

(* prv_cancel between two events.                                          *)
LEMMA CancelLeads ==
    ASSUME NEW h, Sound(h, None), Fated(h), NEW k \in Live(h),
           quitting /\ h.queue[k].current # None =>
              \A j \in Keys \ {k} :
                 h.queue[j].current = None /\ ~h.queue[j].idle,
           NEW c, c = Cancel(h, k)
    PROVE  /\ Leads(h, c) /\ Fated(c)
           /\ Service \subseteq AutoRemove /\ Truthful(h, None)
                 => Truthful(c, None)
<1> DEFINE o == CancelOnly(h, k)
<1>1. /\ Leads(h, o) /\ Fated(o)
      /\ h.queue[k].current = None => o.queue[k].cancelled
      /\ Service \subseteq AutoRemove /\ Truthful(h, None) =>
            /\ Truthful(o, k)
            /\ \/ k \notin Service \/ h.queue[k].current # None
               \/ h.queue[k].cancelled
               => Truthful(o, None)
  <2>1. o = CancelOnly(h, k)
    OBVIOUS
  <2> HIDE DEF o
  <2> QED
    BY <2>1, CancelOnlyLeads
<1>2. /\ Sound(o, None)
      /\ ~h.queue[k].cancelled /\ h.queue[k].current = None
            => /\ o.queue[k].mem = "live" /\ ~o.queue[k].idle
               /\ o.queue[k].current = None
  <2>1. o = CancelOnly(h, k)
    OBVIOUS
  <2> HIDE DEF o
  <2> QED
    BY <2>1, CancelOnlySound
<1>3. c = IF CancelRemoves(h, k) THEN RemoveQueues(o, {k}) ELSE o
  BY DEF Cancel
<1> HIDE DEF o
<1>4. h \in HeapType /\ o \in HeapType /\ k \in Keys
  BY <1>2 DEF Sound, Live
<1>5. CASE CancelRemoves(h, k)
  <2>1. ~h.queue[k].cancelled /\ h.queue[k].current = None
    BY <1>5 DEF CancelRemoves
  <2>2. /\ {k} \in SUBSET Live(o)
        /\ \A j \in {k} : o.queue[j].current = None /\ ~o.queue[j].idle
    BY <2>1, <1>2, <1>4 DEF Live
  <2>3. c = RemoveQueues(o, {k})
    BY <1>3, <1>5
  <2>4. c \in HeapType
    BY <2>2, <2>3, <1>2, RemoveQueuesSound DEF Sound
  <2>5. /\ Leads(o, c) /\ Fated(c)
        /\ \A x \in {k} \cup {None} :
              /\ Truthful(o, x)
              /\ \A j \in {k} \cap Service :
                    \/ quitting \/ o.queue[j].cancelled
                    \/ o.queue[j].tasks = <<>>
              => Truthful(c, None)
    BY <2>2, <2>3, <1>1, <1>2, RemoveQueuesLeads
  <2>6. Leads(h, c)
    BY <2>4, <2>5, <1>1, <1>4, LeadsTransitive
  <2> QED
    BY <2>1, <2>5, <2>6, <1>1
<1>6. CASE ~CancelRemoves(h, k)
  <2>1. c = o
    BY <1>3, <1>6
  <2>2. \/ h.queue[k].cancelled \/ h.queue[k].current # None
        \/ k \notin AutoRemove
    BY <1>6 DEF CancelRemoves
  <2>3. Service \subseteq AutoRemove =>
           \/ k \notin Service \/ h.queue[k].current # None
           \/ h.queue[k].cancelled
    BY <2>2
  <2> QED
    BY <2>1, <2>3, <1>1
<1> QED
  BY <1>5, <1>6

(* prv_free_queue_for_source and _for_sink on a queue of a client.         *)
LEMMA FreeQueueForLeads ==
    ASSUME NEW h, Sound(h, None), Fated(h), NEW k \in Live(h), ~quitting,
           k \notin Service \cup AutoRemove,
           ~(h.queue[k].cancelled /\ h.queue[k].idle),
           NEW f, f = FreeQueueFor(h, k)
    PROVE  /\ Leads(h, f) /\ Fated(f)
           /\ Service \subseteq AutoRemove /\ Truthful(h, None)
                 => Truthful(f, None)
<1>1. PICK d, c : /\ OnlyDefer(h, d, k) /\ c = Cancel(d, k)
                  /\ Sound(c, None) /\ k \in Live(c)
                  /\ \/ f = c
                     \/ /\ f = RemoveQueues(c, {k})
                        /\ c.queue[k].current = None /\ ~c.queue[k].idle
  BY FreeQueueForEffect
<1>2. h \in HeapType /\ d \in HeapType /\ c \in HeapType /\ Sound(d, None)
  BY <1>1 DEF Sound, OnlyDefer
<1>3. /\ Leads(h, d) /\ Fated(d)
      /\ Truthful(h, None) => Truthful(d, None)
  <2>1. Alike(h, d)
    BY <1>1 DEF OnlyDefer, Alike
  <2> QED
    BY <2>1, <1>2, AlikeLeads
<1>4. k \in Live(d)
  BY <1>1 DEF OnlyDefer, Live
<1>5. /\ Leads(d, c) /\ Fated(c)
      /\ Service \subseteq AutoRemove /\ Truthful(d, None)
            => Truthful(c, None)
  BY <1>1, <1>2, <1>3, <1>4, CancelLeads
<1>6. Leads(h, c)
  BY <1>2, <1>3, <1>5, LeadsTransitive
<1>7. CASE f = c
  BY <1>3, <1>5, <1>6, <1>7
<1>8. CASE f # c
  <2>1. /\ {k} \in SUBSET Live(c) /\ f = RemoveQueues(c, {k})
        /\ \A j \in {k} : c.queue[j].current = None /\ ~c.queue[j].idle
    BY <1>1, <1>8
  <2>2. f \in HeapType
    BY <2>1, <1>1, RemoveQueuesSound DEF Sound
  <2>3. /\ Leads(c, f) /\ Fated(f)
        /\ \A x \in {k} \cup {None} :
              /\ Truthful(c, x)
              /\ \A j \in {k} \cap Service :
                    \/ quitting \/ c.queue[j].cancelled
                    \/ c.queue[j].tasks = <<>>
              => Truthful(f, None)
    BY <2>1, <1>1, <1>5, RemoveQueuesLeads
  <2>4. Leads(h, f)
    BY <2>2, <2>3, <1>2, <1>6, LeadsTransitive
  <2> QED
    BY <2>3, <2>4, <1>3, <1>5
<1> QED
  BY <1>7, <1>8

(* prv_cancel on a queue of service tasks in the middle of a completion.   *)
LEMMA CancelEndingLeads ==
    ASSUME NEW h, NEW k \in Live(h), Sound(h, k), Fated(h), k \in Service,
           h.queue[k].current # None,
           NEW c, c = Cancel(h, k)
    PROVE  /\ Leads(h, c) /\ Fated(c)
           /\ Truthful(h, None) => Truthful(c, k)
<1>1. h \in HeapType /\ k \in Keys /\ h.queue[k].mem = "live"
  BY DEF Sound, Live
<1>2. c = CancelOnly(h, k)
  BY DEF Cancel, CancelRemoves
<1>3. CASE h.queue[k].cancelled
  <2>1. c = h /\ Alike(h, h)
    BY <1>2, <1>3 DEF CancelOnly, Alike
  <2>2. Truthful(h, None) => Truthful(h, k)
    BY TruthfulAgain, ConstantsAssumption
  <2> QED
    BY <2>1, <2>2, <1>1, AlikeLeads
<1>4. CASE ~h.queue[k].cancelled
  <2> DEFINE w == CancelWaiting(h, k)
             t == w.queue[k].current
             m == MarkCancelled(w, {t})
  <2>1. c = ServiceTaskCancel(m, t)
    BY <1>2, <1>4 DEF CancelOnly, CancelCurrent
  <2>2. /\ Sound(w, k) /\ w.queue[k].mem = "live"
        /\ w.queue[k].current = h.queue[k].current
        /\ Leads(h, w) /\ Fated(w) /\ w.queue[k].cancelled
        /\ Truthful(h, None) => Truthful(w, k)
    <3>1. w = CancelWaiting(h, k)
      OBVIOUS
    <3> HIDE DEF w
    <3> QED
      BY <3>1, CancelWaitingSound, CancelWaitingLeads
  <2> HIDE DEF w
  <2>3. k \in Live(w) /\ t \in Tasks /\ t # None
    BY <2>2, <1>1 DEF Live, HeapType, Queue
  <2>4. /\ Sound(m, k) /\ m.queue = w.queue
        /\ Leads(w, m) /\ Fated(m)
        /\ Truthful(w, k) => Truthful(m, k)
    <3>1. /\ t = w.queue[k].current /\ m = MarkCancelled(w, {t})
          /\ {t} \in SUBSET Tasks
      BY <2>3
    <3> HIDE DEF t, m
    <3> QED
      BY <2>2, <2>3, <3>1, MarkCancelledSound, MarkCancelledLeads
  <2> HIDE DEF m
  <2>5. c = m
    <3>1. QueueOK(m, k, k)
      BY <2>4, <1>1 DEF Sound
    <3>2. ~m.task[t].paction
      BY <3>1, <2>2, <2>4 DEF QueueOK, HasEnd
    <3> QED
      BY <2>1, <3>2 DEF ServiceTaskCancel
  <2> HIDE DEF t
  <2>6. w \in HeapType /\ m \in HeapType
    BY <2>2, <2>4 DEF Sound
  <2>7. Leads(h, m)
    BY <2>2, <2>4, <2>6, <1>1, LeadsTransitive
  <2> QED
    BY <2>2, <2>4, <2>5, <2>7
<1> QED
  BY <1>3, <1>4

-----------------------------------------------------------------------------
(* dleyna_service_task_process_cb on a task just taken.                    *)
LEMMA ServiceTaskProcessLeads ==
    ASSUME NEW n, NEW k \in Live(n), k \in Service, Sound(n, k), ~quitting,
           ~n.queue[k].cancelled, Fated(n),
           NEW t, t = n.queue[k].current, t # None,
           NEW failed \in BOOLEAN, NEW action \in BOOLEAN,
           ~(failed /\ action), action => n.task[t].proxy,
           NEW r, r = ServiceTaskProcess(n, k, t, failed, action)
    PROVE  /\ Leads(n, r) /\ Fated(r)
           /\ \/ r.queue[k].current = None
              \/ r.queue[k].tasks = n.queue[k].tasks
           /\ Service \subseteq AutoRemove /\ Truthful(n, None)
                 => Truthful(r, None)
<1> DEFINE a == SetAction(n, t, action)
           c == IF failed THEN Cancel(a, k) ELSE a
<1>1. /\ n \in HeapType /\ n.fault = "none" /\ k \in Keys
      /\ n.queue[k].mem = "live" /\ QueueOK(n, k, k)
  BY DEF Sound, Live
<1>2. t \in Tasks /\ n.task[t].mem = "live"
  BY <1>1 DEF QueueOK, HeapType, Queue
<1>3. r = IF c.task[t].mem = "freed" THEN Fail(c, "read_of_freed_task")
          ELSE IF action THEN c
          ELSE TaskCompleted(c, k)
  BY DEF ServiceTaskProcess
<1>4. /\ OnlyTask(n, a, t)
      /\ a.task[t].paction <=> action
      /\ a.task[t].inflight <=> action
  <2>1. a = SetAction(n, t, action)
    OBVIOUS
  <2> HIDE DEF a, c
  <2> QED
    BY <2>1, <1>1, <1>2, SetActionEffect
<1> HIDE DEF a
<1>5. /\ a \in HeapType /\ a.queue = n.queue
      /\ a.task[t].mem = n.task[t].mem
  BY <1>4 DEF OnlyTask
<1>6. /\ Leads(n, a) /\ Fated(a)
      /\ Truthful(n, None) => Truthful(a, None)
  <2>1. Alike(n, a)
    BY <1>4, OnlyTaskAlike
  <2> QED
    BY <2>1, <1>1, <1>5, AlikeLeads
<1>7. CASE action
  <2>1. r = a
    BY <1>2, <1>3, <1>5, <1>7
  <2> QED
    BY <2>1, <1>5, <1>6
<1>8. CASE ~action
  <2>1. Sound(a, k)
    BY <1>1, <1>4, <1>8, EndOperationSound
  <2>2. k \in Live(a) /\ a.queue[k].current # None
    BY <1>1, <1>5 DEF Live
  <2>3. /\ Sound(c, k) /\ c.queue[k].mem = "live" /\ c.queue[k].current = t
        /\ Leads(n, c) /\ Fated(c)
        /\ Truthful(n, None) => \E x \in {k, None} : Truthful(c, x)
    <3>1. CASE failed
      <4>1. c = Cancel(a, k)
        BY <3>1
      <4> HIDE DEF c
      <4>2. /\ Sound(c, k) /\ c.queue[k].mem = "live"
            /\ c.queue[k].current = a.queue[k].current
        BY <2>1, <2>2, <4>1, CancelEndingSound
      <4>3. /\ Leads(a, c) /\ Fated(c)
            /\ Truthful(a, None) => Truthful(c, k)
        BY <2>1, <2>2, <4>1, <1>6, CancelEndingLeads
      <4>4. c \in HeapType
        BY <4>2 DEF Sound
      <4>5. Leads(n, c)
        BY <4>3, <4>4, <1>1, <1>5, <1>6, LeadsTransitive
      <4> QED
        BY <4>2, <4>3, <4>5, <1>5, <1>6
    <3>2. CASE ~failed
      BY <2>1, <3>2, <1>1, <1>5, <1>6
    <3> QED
      BY <3>1, <3>2
  <2> HIDE DEF c
  <2>4. c.task[t].mem = "live"
    <3>1. QueueOK(c, k, k)
      BY <2>3, <1>1 DEF Sound
    <3> QED
      BY <3>1, <2>3 DEF QueueOK
  <2>5. r = TaskCompleted(c, k)
    BY <2>4, <1>3, <1>8
  <2>6. k \in Live(c) /\ c \in HeapType
    BY <2>3, <1>1 DEF Live, Sound
  <2>7. Sound(r, None) /\ r.queue[k].current = None
    BY <2>3, <2>5, <2>6, TaskCompletedSound
  <2>8. /\ Leads(c, r) /\ Fated(r)
        /\ \A x \in {k, None} :
              Service \subseteq AutoRemove /\ Truthful(c, x)
                 => Truthful(r, None)
    BY <2>3, <2>5, <2>6, TaskCompletedLeads
  <2>9. Leads(n, r)
    <3>1. r \in HeapType
      BY <2>7 DEF Sound
    <3> QED
      BY <3>1, <2>3, <2>6, <2>8, <1>1, LeadsTransitive
  <2> QED
    BY <2>3, <2>7, <2>8, <2>9
<1> QED
  BY <1>7, <1>8

(* task_process_cb of the control point on a task just taken.              *)
LEMMA ClientTaskProcessLeads ==
    ASSUME NEW n, NEW k \in Live(n), k \notin Service, Sound(n, k), ~quitting,
           Fated(n), NEW t, t = n.queue[k].current, t # None,
           NEW action \in BOOLEAN,
           NEW r, r = ClientTaskProcess(n, k, t, action)
    PROVE  /\ Leads(n, r) /\ Fated(r)
           /\ \/ r.queue[k].current = None
              \/ r.queue[k].tasks = n.queue[k].tasks
           /\ Service \subseteq AutoRemove /\ Truthful(n, None)
                 => Truthful(r, None)
<1>1. n \in HeapType /\ k \in Keys
  BY DEF Sound, Live
<1>2. CASE action
  <2>1. r = BeginOperation(n, t) /\ t \in Tasks
    BY <1>1, <1>2 DEF ClientTaskProcess, HeapType, Queue
  <2>2. OnlyTask(n, r, t)
    BY <2>1, <1>1, BeginOperationEffect
  <2>3. Alike(n, r)
    BY <2>2, OnlyTaskAlike
  <2>4. r \in HeapType /\ r.queue = n.queue
    BY <2>2 DEF OnlyTask
  <2> QED
    BY <2>3, <2>4, <1>1, AlikeLeads
<1>3. CASE ~action
  <2>1. r = TaskCompleted(n, k)
    BY <1>3 DEF ClientTaskProcess
  <2>2. r.queue[k].current = None
    BY <2>1, TaskCompletedSound
  <2>3. /\ Leads(n, r) /\ Fated(r)
        /\ \A x \in {k, None} :
              Service \subseteq AutoRemove /\ Truthful(n, x)
                 => Truthful(r, None)
    BY <2>1, TaskCompletedLeads
  <2> QED
    BY <2>2, <2>3
<1> QED
  BY <1>2, <1>3

(* prv_process_task up to task_process_cb: one queue more runs a task.     *)
LEMMA TookKeeps ==
    ASSUME NEW h, Sound(h, None), Fated(h), NEW k \in Keys,
           NEW n, Took(h, n, k)
    PROVE  /\ Fated(n)
           /\ Counted(h) => Counted(n)
           /\ Truthful(h, None) => Truthful(n, None)
<1> DEFINE t == Head(h.queue[k].tasks)
           C == {j \in Keys : h.queue[j].current # None}
<1>1. /\ Sound(n, k) /\ h.queue[k].mem = "live" /\ h.queue[k].current = None
      /\ n.queue[k].mem = "live" /\ ~n.queue[k].cancelled
      /\ n.queue[k].current = t /\ t \in Tasks
      /\ n.queue[k].tasks = Tail(h.queue[k].tasks)
      /\ n.queue[k].told = h.queue[k].told
      /\ n.queue[k].defer <=> h.queue[k].defer
      /\ \A j \in Keys \ {k} : n.queue[j] = h.queue[j]
      /\ \A u \in Tasks \ {t} : n.task[u] = h.task[u]
      /\ t \in Range(h.queue[k].tasks)
      /\ n.task[t].mem = h.task[t].mem /\ n.task[t].qid = h.task[t].qid
      /\ n.task[t].fate = "started" /\ n.running = Increment(h.running)
  BY DEF Took
<1>2. /\ h \in HeapType /\ n \in HeapType
      /\ QueueOK(h, k, None) /\ QueueOK(n, k, k)
  BY <1>1 DEF Sound
<1>3. h.task[t].mem = "live" /\ h.task[t].qid = k
  BY <1>1, <1>2 DEF QueueOK
<1>4. t \notin Range(n.queue[k].tasks) /\ t # None
  BY <1>1, <1>2, ConstantsAssumption DEF QueueOK
<1>5. Range(n.queue[k].tasks) \subseteq Range(h.queue[k].tasks)
  <2>1. /\ h.queue[k].tasks \in Seq(Tasks) /\ h.queue[k].tasks # <<>>
        /\ \A i, j \in DOMAIN h.queue[k].tasks :
              h.queue[k].tasks[i] = h.queue[k].tasks[j] => i = j
    BY <1>2 DEF HeapType, Queue, QueueOK, Took
  <2> QED
    BY <2>1, <1>1, HeadAndTail
<1> HIDE DEF t
<1>6. Fated(n)
  <2>1. ASSUME NEW u \in Tasks
        PROVE  /\ n.task[u].mem = "unused" <=> n.task[u].fate = "none"
               /\ n.task[u].mem = "live" =>
                     n.task[u].fate \in {"waiting", "started", "cancelled"}
               /\ n.task[u].mem = "freed" =>
                     n.task[u].fate \in {"cancelled", "done", "dropped"}
    <3>1. CASE u = t
      BY <3>1, <1>1, <1>3
    <3>2. CASE u # t
      BY <3>2, <1>1 DEF Fated
    <3> QED
      BY <3>1, <3>2
  <2>2. ASSUME NEW j \in Keys
        PROVE  /\ \A u \in Range(n.queue[j].tasks) : n.task[u].fate = "waiting"
               /\ n.queue[j].current # None =>
                     n.task[n.queue[j].current].fate \in {"started", "cancelled"}
    <3>1. /\ Range(h.queue[j].tasks) \subseteq Tasks
          /\ h.queue[j].current \in Tasks \cup {None}
      BY <1>2, WaitingAreTasks DEF Queue
    <3>2. /\ \A u \in Range(h.queue[j].tasks) : h.task[u].fate = "waiting"
          /\ h.queue[j].current # None =>
                h.task[h.queue[j].current].fate \in {"started", "cancelled"}
      BY DEF Fated
    <3>3. CASE j = k
      BY <3>1, <3>2, <3>3, <1>1, <1>4, <1>5
    <3>4. CASE j # k
      <4>1. QueueOK(h, j, None) /\ n.queue[j] = h.queue[j]
        BY <3>4, <1>1 DEF Sound
      <4>2. /\ t \notin Range(h.queue[j].tasks)
            /\ h.queue[j].current # t
        BY <4>1, <3>4, <1>3, <1>4 DEF QueueOK
      <4> QED
        BY <3>1, <3>2, <4>1, <4>2, <1>1
    <3> QED
      BY <3>3, <3>4
  <2> QED
    BY <2>1, <2>2 DEF Fated
<1>7. ASSUME Counted(h) PROVE Counted(n)
  <2>1. /\ C \in SUBSET Keys /\ IsFiniteSet(C) /\ k \notin C
        /\ Cardinality(C) <= Cardinality(Keys)
    BY <1>1, BoundAssumption, FS_Subset
  <2>2. {j \in Keys : n.queue[j].current # None} = C \cup {k}
    BY <1>1, <1>4
  <2>3. h.running = Cardinality(C) /\ Cardinality(C) \in Nat
    BY <2>1, <1>7, FS_CardinalityType DEF Counted
  <2>4. Cardinality(C \cup {k}) = Cardinality(C) + 1
    BY <2>1, FS_AddElement
  <2>5. Cardinality(Keys) \in Nat
    BY BoundAssumption, FS_CardinalityType
  <2>6. Cardinality(C) # MaxUInt
    BY <2>1, <2>3, <2>5, BoundAssumption
  <2> QED
    BY <2>2, <2>3, <2>4, <2>6, <1>1 DEF Counted, Increment
<1>8. ASSUME Truthful(h, None), NEW j \in Service PROVE TellsTruth(n, j, None)
  <2> DEFINE own == {u \in Tasks : h.task[u].qid = j}
  <2>1. j \in Keys /\ j # None /\ {u \in Tasks : n.task[u].qid = j} = own
    BY <1>1, ConstantsAssumption
  <2>2. TellsTruth(h, j, None)
    BY <1>8 DEF Truthful
  <2>3. \A u \in own : u \in Tasks /\ h.task[u].qid = j
    OBVIOUS
  <2> HIDE DEF own
  <2>4. CASE j = k
    <3>1. /\ h.queue[j].told = "nothing" /\ ~h.queue[j].defer
          /\ ~h.queue[j].cancelled
          /\ \A u \in own : h.task[u].fate \in {"waiting", "started", "done"}
      BY <2>1, <2>2, <2>4, <1>1 DEF TellsTruth, own
    <3>2. \A u \in own : n.task[u].fate \in {"waiting", "started", "done"}
      BY <2>3, <3>1, <1>1
    <3> QED
      BY <2>1, <2>4, <3>1, <3>2, <1>1 DEF TellsTruth
  <2>5. CASE j # k
    <3>1. n.queue[j] = h.queue[j] /\ \A u \in own : n.task[u] = h.task[u]
      BY <2>1, <2>3, <2>5, <1>1, <1>3
    <3> QED
      BY <2>1, <2>2, <3>1 DEF TellsTruth, own
  <2> QED
    BY <2>4, <2>5
<1>9. Truthful(h, None) => Truthful(n, None)
  BY <1>8 DEF Truthful
<1> QED
  BY <1>6, <1>7, <1>9

(* prv_process_task: the next task of a queue is taken, to n, and given to *)
(* task_process_cb, to r.                                                  *)
LEMMA RunNextLeads ==
    ASSUME NEW h, Sound(h, None), Fated(h), NEW k \in Keys,
           h.sources[k] > 0, ~quitting,
           NEW failed \in BOOLEAN, NEW action \in BOOLEAN,
           ~(failed /\ action),
           k \in Service /\ action /\ h.queue[k].tasks # <<>>
               => h.task[Head(h.queue[k].tasks)].proxy,
           NEW r, r = RunNext(DropSource(h, k), k, failed, action)
    PROVE  /\ Fated(r)
           /\ Counted(h) => Counted(r)
           /\ Service \subseteq AutoRemove /\ Truthful(h, None)
                 => Truthful(r, None)
           /\ \E n : /\ Took(h, n, k) /\ Moves(n, r)
                     /\ \/ r.queue[k].current = None
                        \/ r.queue[k].tasks = n.queue[k].tasks
<1> DEFINE g == DropSource(h, k)
           n == TakeNext(g, k)
           t == Head(h.queue[k].tasks)
<1>1. r = IF k \notin Live(g) THEN Fail(g, "idle_on_freed_queue")
          ELSE IF g.queue[k].tasks = <<>> THEN Fail(g, "empty_queue")
          ELSE IF k \in Service
          THEN ServiceTaskProcess(n, k, Head(g.queue[k].tasks), failed, action)
          ELSE ClientTaskProcess(n, k, Head(g.queue[k].tasks), action)
  BY DEF RunNext
<1>2. Took(h, n, k) /\ g.queue = h.queue
  <2>1. g = DropSource(h, k) /\ n = TakeNext(g, k)
    OBVIOUS
  <2> HIDE DEF n, g
  <2> QED
    BY <2>1, DropAndTakeSound DEF OnlySource
<1> HIDE DEF n, g
<1>3. /\ k \in Live(g) /\ h.queue[k].tasks # <<>>
      /\ Sound(n, k) /\ k \in Live(n) /\ ~n.queue[k].cancelled
      /\ t = n.queue[k].current /\ t \in Tasks
      /\ h.task[t].proxy => n.task[t].proxy
  BY <1>2 DEF Took, Live
<1>4. r = IF k \in Service THEN ServiceTaskProcess(n, k, t, failed, action)
                           ELSE ClientTaskProcess(n, k, t, action)
  BY <1>1, <1>2, <1>3
<1>5. t # None
  BY <1>3, ConstantsAssumption
<1>6. k \in Service /\ action => n.task[t].proxy
  BY <1>3
<1> HIDE DEF t
<1>7. /\ Fated(n)
      /\ Counted(h) => Counted(n)
      /\ Truthful(h, None) => Truthful(n, None)
  BY <1>2, TookKeeps
<1>8. /\ Leads(n, r) /\ Fated(r)
      /\ \/ r.queue[k].current = None
         \/ r.queue[k].tasks = n.queue[k].tasks
      /\ Service \subseteq AutoRemove /\ Truthful(n, None)
            => Truthful(r, None)
  <2>1. CASE k \in Service
    <3>1. r = ServiceTaskProcess(n, k, t, failed, action)
      BY <2>1, <1>4
    <3>2. action => n.task[t].proxy
      BY <2>1, <1>6
    <3> QED
      BY <2>1, <3>1, <3>2, <1>3, <1>5, <1>7, ServiceTaskProcessLeads
  <2>2. CASE k \notin Service
    <3>1. r = ClientTaskProcess(n, k, t, action)
      BY <2>2, <1>4
    <3> QED
      BY <2>2, <3>1, <1>3, <1>5, <1>7, ClientTaskProcessLeads
  <2> QED
    BY <2>1, <2>2
<1>9. /\ Counted(h) => Counted(r)
      /\ Service \subseteq AutoRemove /\ Truthful(h, None)
            => Truthful(r, None)
  BY <1>7, <1>8 DEF Leads, Moves
<1> QED
  BY <1>2, <1>8, <1>9 DEF Leads

-----------------------------------------------------------------------------
(***************************************************************************)
(* Events.                                                                 *)
(***************************************************************************)

(* An event that takes no task and adds none.                              *)
Advanced ==
    /\ Leads(Heap, Heap')
    /\ Fated(Heap')
    /\ Service \subseteq AutoRemove /\ Truthful(Heap, None)
          => Truthful(Heap', None)

(* An event that made h the heap.                                          *)
LEMMA AdvancedTo ==
    ASSUME NEW h \in HeapType, Become(h), Leads(Heap, h), Fated(h),
           Service \subseteq AutoRemove /\ Truthful(Heap, None)
              => Truthful(h, None)
    PROVE  Advanced
<1>1. Heap' = h
  BY BecomeEffect
<1> QED
  BY <1>1 DEF Advanced

(* An event of which the promise does not speak.                           *)
LEMMA AdvancedAlike ==
    ASSUME Heap \in HeapType, Fated(Heap),
           NEW h \in HeapType, Become(h), Alike(Heap, h)
    PROVE  Advanced
<1>1. /\ Leads(Heap, h) /\ Fated(h)
      /\ Truthful(Heap, None) => Truthful(h, None)
  BY AlikeLeads
<1> QED
  BY <1>1, AdvancedTo

(* dleyna_task_queue_set_finally.                                          *)
LEMMA SetFinallyAdvances ==
    ASSUME IInv, Fated(Heap), NEW k \in Keys, SetFinally(k)
    PROVE  Advanced
<1> DEFINE q == [Heap.queue[k] EXCEPT !.finally = TRUE]
           qs == [Heap.queue EXCEPT ![k] = q]
           h == [Heap EXCEPT !.queue = qs]
<1>1. Heap \in HeapType
  BY DEF IInv, Sound
<1>2. Become(h)
  BY DEF SetFinally, Heap
<1>3. /\ q \in Queue /\ q.mem = Heap.queue[k].mem
      /\ q.tasks = Heap.queue[k].tasks
      /\ q.current = Heap.queue[k].current /\ q.told = Heap.queue[k].told
      /\ q.cancelled <=> Heap.queue[k].cancelled
      /\ q.defer <=> Heap.queue[k].defer
  BY <1>1 DEF HeapType, Queue
<1> HIDE DEF q
<1>4. /\ qs \in [Keys -> Queue] /\ qs[k] = q
      /\ \A j \in Keys \ {k} : qs[j] = Heap.queue[j]
  BY <1>1, <1>3 DEF HeapType
<1> HIDE DEF qs
<1>5. /\ h \in HeapType /\ h.queue = qs /\ h.task = Heap.task
      /\ h.running = Heap.running /\ h.onQuit = Heap.onQuit
  BY <1>1, <1>4 DEF HeapType
<1> HIDE DEF h
<1>6. Alike(Heap, h)
  BY <1>3, <1>4, <1>5 DEF Alike
<1> QED
  BY <1>1, <1>2, <1>5, <1>6, AdvancedAlike

(* dleyna_task_queue_start.                                                *)
LEMMA StartQueueAdvances ==
    ASSUME IInv, Fated(Heap), Contract = Clauses, NEW k \in Keys, StartQueue(k)
    PROVE  Advanced
<1>1. /\ Sound(Heap, None) /\ Heap \in HeapType /\ k \in Live(Heap)
      /\ QueueOK(Heap, k, None)
  BY HeapIsState DEF IInv, Sound, StartQueue
<1>2. CASE /\ queue[k].tasks # <<>>
           /\ queue[k].current = None /\ ~queue[k].idle
           /\ Become(ScheduleProcess(Heap, k))
  <2> DEFINE h == ScheduleProcess(Heap, k)
  <2>1. Become(h) /\ h = ScheduleProcess(Heap, k)
    BY <1>2
  <2> HIDE DEF h
  <2>2. Sound(h, None)
    BY <2>1, <1>1, <1>2, HeapIsState, ScheduleProcessSound
  <2>3. h \in HeapType /\ Alike(Heap, h)
    BY <2>1, <2>2, <1>1, ScheduleProcessAlike DEF Sound
  <2> QED
    BY <2>1, <2>3, <1>1, AdvancedAlike
<1>3. CASE queue[k].tasks = <<>> /\ Become(RemoveQueues(Heap, {k}))
  <2> DEFINE h == RemoveQueues(Heap, {k})
  <2>1. Become(h) /\ h = RemoveQueues(Heap, {k})
    BY <1>3
  <2> HIDE DEF h
  <2>2. /\ {k} \in SUBSET Live(Heap) /\ Heap.queue[k].tasks = <<>>
        /\ \A j \in {k} : Heap.queue[j].current = None /\ ~Heap.queue[j].idle
    BY <1>1, <1>3, HeapIsState DEF StartQueue, Kept, Clauses, QueueOK
  <2>3. h \in HeapType
    BY <2>1, <2>2, <1>1, RemoveQueuesSound DEF Sound
  <2>4. /\ Leads(Heap, h) /\ Fated(h)
        /\ \A x \in {k} \cup {None} :
              /\ Truthful(Heap, x)
              /\ \A j \in {k} \cap Service :
                    \/ quitting \/ Heap.queue[j].cancelled
                    \/ Heap.queue[j].tasks = <<>>
              => Truthful(h, None)
    BY <2>1, <2>2, <1>1, RemoveQueuesLeads
  <2> QED
    BY <2>1, <2>2, <2>3, <2>4, AdvancedTo
<1> QED
  BY <1>2, <1>3 DEF StartQueue

(* dleyna_task_processor_cancel_queue.                                     *)
LEMMA CancelQueueAdvances ==
    ASSUME IInv, Fated(Heap), NEW k \in Keys, CancelQueue(k)
    PROVE  Advanced
<1> DEFINE h == Cancel(Heap, k)
<1>1. /\ Sound(Heap, None) /\ Dispatching /\ k \in Live(Heap)
      /\ Become(h) /\ h = Cancel(Heap, k)
  BY HeapIsState DEF IInv, CancelQueue
<1> HIDE DEF h
<1>2. ~quitting
  BY <1>1, LiveBeforeQuit
<1>3. h \in HeapType
  BY <1>1, <1>2, CancelSound DEF Sound
<1>4. /\ Leads(Heap, h) /\ Fated(h)
      /\ Service \subseteq AutoRemove /\ Truthful(Heap, None)
            => Truthful(h, None)
  BY <1>1, <1>2, CancelLeads
<1> QED
  BY <1>1, <1>3, <1>4, AdvancedTo

(* The answer to a UPnP action.                                            *)
LEMMA ServiceTaskDoneAdvances ==
    ASSUME IInv, Fated(Heap), NEW t \in Tasks, NEW cancels \in BOOLEAN,
           ServiceTaskDone(t, cancels)
    PROVE  Advanced
<1> DEFINE k == Heap.task[t].qid
           no == FALSE
           a == SetAction(Heap, t, no)
           c == IF cancels THEN Cancel(a, k) ELSE a
           h == TaskCompleted(c, k)
<1>1. /\ Sound(Heap, None) /\ Heap \in HeapType /\ Dispatching
      /\ Heap.task[t].inflight /\ k \in Service
  BY HeapIsState DEF IInv, Sound, ServiceTaskDone
<1>2. /\ Heap.task[t].mem = "live" /\ k \in Live(Heap)
      /\ Heap.queue[k].current = t /\ t # None
  BY <1>1, InFlightHasQueue, ConstantsAssumption
<1>3. Become(h)
  BY <1>2, HeapIsState DEF ServiceTaskDone
<1>4. no \in BOOLEAN /\ ~no
  OBVIOUS
<1> HIDE DEF no, k
<1>5. ~quitting
  BY <1>1, <1>2, LiveBeforeQuit
<1>6. OnlyTask(Heap, a, t) /\ ~a.task[t].paction /\ ~a.task[t].inflight
  <2>1. a = SetAction(Heap, t, no)
    OBVIOUS
  <2> HIDE DEF a, c, h
  <2> QED
    BY <2>1, <1>1, <1>4, SetActionEffect
<1> HIDE DEF a
<1>7. a \in HeapType /\ a.queue = Heap.queue
  BY <1>6 DEF OnlyTask
<1>8. k \in Keys /\ k \in Live(a) /\ a.queue[k].current # None
  BY <1>2, <1>7, ConstantsAssumption DEF Live
<1>9. Sound(a, k)
  <2> HIDE DEF c, h
  <2> QED
    BY <1>1, <1>2, <1>6, <1>8, EndOperationSound
<1>10. /\ Leads(Heap, a) /\ Fated(a)
       /\ Truthful(Heap, None) => Truthful(a, None)
  <2> HIDE DEF c, h
  <2>1. Alike(Heap, a)
    BY <1>6, OnlyTaskAlike
  <2> QED
    BY <2>1, <1>1, <1>7, AlikeLeads
<1>11. /\ Sound(c, k) /\ k \in Live(c) /\ c.queue[k].current # None
       /\ Leads(Heap, c) /\ Fated(c)
       /\ Truthful(Heap, None) => \E x \in {k, None} : Truthful(c, x)
  <2>1. CASE cancels
    <3>1. c = Cancel(a, k)
      BY <2>1
    <3> HIDE DEF c, h
    <3>2. /\ Sound(c, k) /\ c.queue[k].mem = "live"
          /\ c.queue[k].current = a.queue[k].current
      BY <3>1, <1>1, <1>8, <1>9, CancelEndingSound
    <3>3. /\ Leads(a, c) /\ Fated(c)
          /\ Truthful(a, None) => Truthful(c, k)
      BY <3>1, <1>1, <1>8, <1>9, <1>10, CancelEndingLeads
    <3>4. c \in HeapType
      BY <3>2 DEF Sound
    <3>5. Leads(Heap, c)
      BY <3>3, <3>4, <1>1, <1>7, <1>10, LeadsTransitive
    <3> QED
      BY <3>2, <3>3, <3>5, <1>8, <1>10 DEF Live
  <2>2. CASE ~cancels
    BY <2>2, <1>8, <1>9, <1>10
  <2> QED
    BY <2>1, <2>2
<1> HIDE DEF c
<1>12. h = TaskCompleted(c, k)
  OBVIOUS
<1> HIDE DEF h
<1>13. h \in HeapType /\ c \in HeapType
  BY <1>5, <1>11, <1>12, TaskCompletedSound DEF Sound
<1>14. /\ Leads(c, h) /\ Fated(h)
       /\ \A x \in {k, None} :
             Service \subseteq AutoRemove /\ Truthful(c, x)
                => Truthful(h, None)
  BY <1>5, <1>11, <1>12, TaskCompletedLeads
<1>15. Leads(Heap, h)
  BY <1>1, <1>11, <1>13, <1>14, LeadsTransitive
<1> QED
  BY <1>3, <1>11, <1>13, <1>14, <1>15, AdvancedTo

(* The completion of a task of the control point.                          *)
LEMMA ClientTaskDoneAdvances ==
    ASSUME IInv, Fated(Heap), NEW t \in Tasks, ClientTaskDone(t)
    PROVE  Advanced
<1> DEFINE k == Heap.task[t].qid
           a == EndOperation(Heap, t)
           h == TaskCompleted(a, k)
<1>1. /\ Sound(Heap, None) /\ Heap \in HeapType /\ Dispatching
      /\ Heap.task[t].inflight /\ k \notin Service
  BY HeapIsState DEF IInv, Sound, ClientTaskDone
<1>2. k \in Live(Heap) /\ Heap.queue[k].current = t /\ t # None
  BY <1>1, InFlightHasQueue, ConstantsAssumption
<1>3. Become(h)
  BY HeapIsState DEF ClientTaskDone
<1>4. ~Heap.task[t].paction
  BY <1>1 DEF Sound, TaskOK
<1> HIDE DEF k
<1>5. ~quitting
  BY <1>1, <1>2, LiveBeforeQuit
<1>6. /\ OnlyTask(Heap, a, t) /\ ~a.task[t].inflight
      /\ a.task[t].paction <=> Heap.task[t].paction
  <2>1. a = EndOperation(Heap, t)
    OBVIOUS
  <2> HIDE DEF a, h
  <2> QED
    BY <2>1, <1>1, EndOperationEffect
<1>7. h = TaskCompleted(a, k)
  OBVIOUS
<1> HIDE DEF a, h
<1>8. a \in HeapType /\ a.queue = Heap.queue
  BY <1>6 DEF OnlyTask
<1>9. k \in Keys /\ k \in Live(a) /\ a.queue[k].current # None
  BY <1>2, <1>8, ConstantsAssumption DEF Live
<1>10. Sound(a, k)
  <2>1. ~a.task[t].paction
    BY <1>4, <1>6
  <2> QED
    BY <2>1, <1>1, <1>2, <1>6, <1>9, EndOperationSound
<1>11. /\ Leads(Heap, a) /\ Fated(a)
       /\ Truthful(Heap, None) => Truthful(a, None)
  <2>1. Alike(Heap, a)
    BY <1>6, OnlyTaskAlike
  <2> QED
    BY <2>1, <1>1, <1>8, AlikeLeads
<1>12. h \in HeapType
  BY <1>5, <1>7, <1>9, <1>10, TaskCompletedSound DEF Sound
<1>13. /\ Leads(a, h) /\ Fated(h)
       /\ \A x \in {k, None} :
             Service \subseteq AutoRemove /\ Truthful(a, x)
                => Truthful(h, None)
  BY <1>5, <1>7, <1>9, <1>10, <1>11, TaskCompletedLeads
<1>14. Leads(Heap, h)
  BY <1>1, <1>8, <1>11, <1>12, <1>13, LeadsTransitive
<1> QED
  BY <1>3, <1>11, <1>12, <1>13, <1>14, AdvancedTo

(* The disposal of a proxy.                                                *)
LEMMA ProxyLostAdvances ==
    ASSUME IInv, Fated(Heap), NEW t \in Tasks, ProxyLost(t)
    PROVE  Advanced
<1> DEFINE new == [Heap.task[t] EXCEPT !.proxy = FALSE, !.inflight = FALSE]
           ts == [Heap.task EXCEPT ![t] = new]
           h == [Heap EXCEPT !.task = ts]
<1>1. /\ Sound(Heap, None) /\ Heap \in HeapType /\ Heap.task[t].proxy
  BY HeapIsState DEF IInv, Sound, ProxyLost
<1>2. Heap.task[t].mem = "live"
  BY <1>1 DEF Sound, TaskOK
<1>3. Become(h)
  <2>1. h = [Heap EXCEPT !.task[t].proxy = FALSE, !.task[t].inflight = FALSE]
    BY <1>1 DEF HeapType, Task
  <2>2. Become([Heap EXCEPT !.task[t].proxy = FALSE,
                            !.task[t].inflight = FALSE])
    BY <1>2, HeapIsState DEF ProxyLost
  <2> QED
    BY <2>1, <2>2
<1>4. /\ new \in Task /\ new.fate = Heap.task[t].fate
      /\ new.mem = Heap.task[t].mem /\ new.qid = Heap.task[t].qid
  BY <1>1 DEF HeapType, Task
<1> HIDE DEF new
<1>5. /\ ts \in [Tasks -> Task] /\ ts[t] = new
      /\ \A u \in Tasks : u # t => ts[u] = Heap.task[u]
  BY <1>1, <1>4 DEF HeapType
<1> HIDE DEF ts
<1>6. /\ h \in HeapType /\ h.task = ts /\ h.queue = Heap.queue
      /\ h.running = Heap.running /\ h.onQuit = Heap.onQuit
  BY <1>1, <1>5 DEF HeapType
<1> HIDE DEF h
<1>7. Alike(Heap, h)
  BY <1>4, <1>5, <1>6 DEF Alike
<1> QED
  BY <1>1, <1>3, <1>6, <1>7, AdvancedAlike

(* The start of remove_queues_for_source or _for_sink.                     *)
LEMMA BeginRemovalAdvances ==
    ASSUME IInv, Fated(Heap), NEW matching, BeginRemoval(matching)
    PROVE  Advanced
<1>1. Heap \in HeapType /\ Become(Heap)
  BY DEF IInv, Sound, BeginRemoval, Become, Heap
<1>2. Alike(Heap, Heap)
  BY DEF Alike
<1> QED
  BY <1>1, <1>2, AdvancedAlike

(* One call of prv_free_queue_for_source or _for_sink.                     *)
LEMMA VisitToRemoveAdvances ==
    ASSUME IInv, Fated(Heap), NEW k \in Keys, VisitToRemove(k)
    PROVE  Advanced
<1> DEFINE h == FreeQueueFor(Heap, k)
<1>1. /\ Sound(Heap, None) /\ WalkOK /\ walk.op = "remove" /\ k \in walk.todo
      /\ Become(h) /\ h = FreeQueueFor(Heap, k)
  BY DEF IInv, VisitToRemove
<1> HIDE DEF h
<1>2. /\ k \in Live(Heap) /\ k \notin Service \cup AutoRemove /\ ~Stale(k)
      /\ ~quitting
  BY <1>1 DEF WalkOK
<1>3. ~(Heap.queue[k].cancelled /\ Heap.queue[k].idle)
  BY <1>2, HeapIsState DEF Stale
<1>4. h \in HeapType
  BY <1>1, <1>2, <1>3, FreeQueueForSound DEF Sound
<1>5. /\ Leads(Heap, h) /\ Fated(h)
      /\ Service \subseteq AutoRemove /\ Truthful(Heap, None)
            => Truthful(h, None)
  BY <1>1, <1>2, <1>3, FreeQueueForLeads
<1> QED
  BY <1>1, <1>4, <1>5, AdvancedTo

(* The end of a walk: set_quitting removes what the walk left.             *)
LEMMA EndWalkAdvances ==
    ASSUME IInv, Fated(Heap), EndWalk
    PROVE  Advanced
<1>1. /\ Sound(Heap, None) /\ Heap \in HeapType /\ WalkOK /\ walk.todo = {}
      /\ Become(IF walk.op = "quit" THEN RemoveAll(Heap) ELSE Heap)
  BY DEF IInv, Sound, EndWalk
<1>2. CASE walk.op = "quit"
  <2> DEFINE K == Live(Heap)
             h == RemoveQueues(Heap, K)
  <2>1. Become(h) /\ h = RemoveQueues(Heap, K) /\ K \in SUBSET Live(Heap)
    BY <1>1, <1>2 DEF RemoveAll
  <2>2. \A k \in K : Heap.queue[k].current = None /\ ~Heap.queue[k].idle
    BY <1>1, <1>2, HeapIsState DEF WalkOK
  <2>3. quitting
    BY <1>1, <1>2 DEF WalkOK
  <2> HIDE DEF K, h
  <2>4. h \in HeapType
    BY <2>1, <2>2, <1>1, RemoveQueuesSound DEF Sound
  <2>5. /\ Leads(Heap, h) /\ Fated(h)
        /\ Truthful(Heap, None) => Truthful(h, None)
    BY <2>1, <2>2, <2>3, <1>1, RemoveQueuesLeads
  <2> QED
    BY <2>1, <2>4, <2>5, AdvancedTo
<1>3. CASE walk.op # "quit"
  <2>1. Become(Heap) /\ Alike(Heap, Heap)
    BY <1>1, <1>3 DEF Alike
  <2> QED
    BY <2>1, <1>1, AdvancedAlike
<1> QED
  BY <1>2, <1>3

(* One call of prv_cancel_cb.                                              *)
LEMMA VisitToQuitAdvances ==
    ASSUME IInv, Fated(Heap), NEW k \in Keys, VisitToQuit(k)
    PROVE  Advanced
<1> DEFINE c == CancelOnly(Heap, k)
           h == IF CancelRemoves(Heap, k) THEN RemoveQueues(c, {k}) ELSE c
<1>1. /\ Sound(Heap, None) /\ Heap \in HeapType /\ WalkOK
      /\ walk.op = "quit" /\ k \in walk.todo /\ ServiceNotCancelled
      /\ Become(h) /\ c = CancelOnly(Heap, k)
      /\ h = IF CancelRemoves(Heap, k) THEN RemoveQueues(c, {k}) ELSE c
  BY DEF IInv, Sound, VisitToQuit
<1> HIDE DEF c, h
<1>2. k \in Live(Heap) /\ ~Stale(k) /\ Quiet /\ quitting
  BY <1>1 DEF WalkOK
<1>3. \A j \in Keys : j \notin Live(Heap) =>
                         queue[j].current = None /\ ~queue[j].idle
  <2>1. \A j \in Keys : QueueOK(Heap, j, None)
    BY <1>1 DEF Sound
  <2> QED
    BY <2>1, HeapIsState DEF QueueOK
<1>4. queue[k].current # None =>
         /\ k \in Service /\ ~queue[k].cancelled
         /\ \A j \in Live(Heap) \ {k} : queue[j].current = None
         /\ \A j \in Live(Heap) : ~queue[j].idle
  BY <1>1, <1>2 DEF Quiet, Busy, ServiceNotCancelled
<1>5. Heap.queue[k].current # None =>
         /\ k \in Service /\ ~Heap.queue[k].cancelled
         /\ \A j \in Keys \ {k} :
               Heap.queue[j].current = None /\ ~Heap.queue[j].idle
  BY <1>3, <1>4, HeapIsState
<1>6. /\ Leads(Heap, c) /\ Fated(c)
      /\ Heap.queue[k].current = None => c.queue[k].cancelled
      /\ Service \subseteq AutoRemove /\ Truthful(Heap, None) =>
            /\ Truthful(c, k)
            /\ \/ k \notin Service \/ Heap.queue[k].current # None
               \/ Heap.queue[k].cancelled
               => Truthful(c, None)
  BY <1>1, <1>2, <1>5, CancelOnlyLeads
<1>7. CASE CancelRemoves(Heap, k)
  <2>1. Heap.queue[k].current = None
    BY <1>7 DEF CancelRemoves
  <2>2. /\ Sound(c, None) /\ k \in Live(c)
        /\ c.queue[k].current = None /\ ~c.queue[k].idle
    <3>1. ~(Heap.queue[k].cancelled /\ Heap.queue[k].idle)
      BY <1>2, HeapIsState DEF Stale
    <3> QED
      BY <3>1, <2>1, <1>1, <1>2, CancelOnlySound DEF Live
  <2>3. h = RemoveQueues(c, {k}) /\ {k} \in SUBSET Live(c)
    BY <2>2, <1>1, <1>7
  <2>4. h \in HeapType
    BY <2>2, <2>3, RemoveQueuesSound DEF Sound
  <2>5. /\ Leads(c, h) /\ Fated(h)
        /\ Truthful(c, k) => Truthful(h, None)
    <3>1. \A j \in {k} : c.queue[j].current = None /\ ~c.queue[j].idle
      BY <2>2
    <3>2. /\ Leads(c, h) /\ Fated(h)
          /\ \A x \in {k} \cup {None} :
                /\ Truthful(c, x)
                /\ \A j \in {k} \cap Service :
                      \/ quitting \/ c.queue[j].cancelled
                      \/ c.queue[j].tasks = <<>>
                => Truthful(h, None)
      BY ONLY <3>1, <2>2, <2>3, <1>6, RemoveQueuesLeads
    <3> QED
      BY <3>2, <1>2
  <2>6. Leads(Heap, h)
    BY <2>2, <2>4, <2>5, <1>1, <1>6, LeadsTransitive DEF Sound
  <2> QED
    BY <2>4, <2>5, <2>6, <1>1, <1>6, AdvancedTo
<1>8. CASE ~CancelRemoves(Heap, k)
  <2>1. h = c
    BY <1>1, <1>8
  <2>2. Service \subseteq AutoRemove =>
           \/ k \notin Service \/ Heap.queue[k].current # None
           \/ Heap.queue[k].cancelled
    BY <1>8 DEF CancelRemoves
  <2>3. c \in HeapType
    <3>1. ~(Heap.queue[k].cancelled /\ Heap.queue[k].idle)
      BY <1>2, HeapIsState DEF Stale
    <3> QED
      BY <3>1, <1>1, <1>2, <1>5, CancelOnlySound DEF Sound
  <2> QED
    BY <2>1, <2>2, <2>3, <1>1, <1>6, AdvancedTo
<1> QED
  BY <1>7, <1>8

(* From h to g only the queue k was created.                               *)
Created(h, g, k) ==
    /\ h.queue[k].mem = "unused" /\ g.queue[k].mem = "live"
    /\ g.running = h.running /\ g.onQuit = h.onQuit /\ g.task = h.task
    /\ \A j \in Keys : /\ j # k => g.queue[j].mem = h.queue[j].mem
                       /\ g.queue[j].tasks = h.queue[j].tasks
                       /\ g.queue[j].current = h.queue[j].current
                       /\ g.queue[j].told = h.queue[j].told
                       /\ g.queue[j].cancelled <=> h.queue[j].cancelled
                       /\ g.queue[j].defer <=> h.queue[j].defer

(* From h to g only task t was added, to queue k.                          *)
Submitted(h, g, k, t) ==
    /\ h.queue[k].mem = "live" /\ h.task[t].mem = "unused"
    /\ g.running = h.running /\ g.onQuit = h.onQuit
    /\ g.queue[k].tasks = Append(h.queue[k].tasks, t)
    /\ \A j \in Keys : /\ g.queue[j].mem = h.queue[j].mem
                       /\ j # k => g.queue[j].tasks = h.queue[j].tasks
                       /\ g.queue[j].current = h.queue[j].current
                       /\ g.queue[j].told = h.queue[j].told
                       /\ g.queue[j].cancelled <=> h.queue[j].cancelled
                       /\ j \in Service =>
                             (g.queue[j].defer <=> h.queue[j].defer)
    /\ g.task[t].mem = "live" /\ g.task[t].qid = k
    /\ g.task[t].fate = "waiting"
    /\ \A u \in Tasks : u # t => /\ g.task[u].mem = h.task[u].mem
                                 /\ g.task[u].qid = h.task[u].qid
                                 /\ g.task[u].fate = h.task[u].fate

(* Nothing else may be noticed afterwards.                                 *)
LEMMA SubmittedThen ==
    ASSUME NEW h, NEW g, NEW r, NEW k \in Keys, NEW t \in Tasks,
           Submitted(h, g, k, t), Alike(g, r)
    PROVE  Submitted(h, r, k, t)
<1>1. ASSUME NEW j \in Keys
      PROVE  /\ r.queue[j].mem = h.queue[j].mem
             /\ j # k => r.queue[j].tasks = h.queue[j].tasks
             /\ r.queue[j].current = h.queue[j].current
             /\ r.queue[j].told = h.queue[j].told
             /\ r.queue[j].cancelled <=> h.queue[j].cancelled
             /\ j \in Service => (r.queue[j].defer <=> h.queue[j].defer)
  BY DEF Submitted, Alike
<1>2. ASSUME NEW u \in Tasks, u # t
      PROVE  /\ r.task[u].mem = h.task[u].mem
             /\ r.task[u].qid = h.task[u].qid
             /\ r.task[u].fate = h.task[u].fate
  BY <1>2 DEF Submitted, Alike
<1>3. /\ h.queue[k].mem = "live" /\ h.task[t].mem = "unused"
      /\ r.running = h.running /\ r.onQuit = h.onQuit
      /\ r.queue[k].tasks = Append(h.queue[k].tasks, t)
      /\ r.task[t].mem = "live" /\ r.task[t].qid = k
      /\ r.task[t].fate = "waiting"
  BY DEF Submitted, Alike
<1> QED
  BY <1>1, <1>2, <1>3 DEF Submitted

(* A queue that was created has told nothing and nobody.                   *)
LEMMA CreatedKeeps ==
    ASSUME NEW h, NEW g, NEW k \in Keys, Created(h, g, k), Fated(h)
    PROVE  /\ Fated(g)
           /\ Counted(h) => Counted(g)
           /\ Truthful(h, None) => Truthful(g, None)
<1>1. Fated(g)
  BY DEF Created, Fated
<1>2. Counted(h) => Counted(g)
  BY CountedFrame DEF Created
<1>3. ASSUME Truthful(h, None), NEW j \in Service PROVE TellsTruth(g, j, None)
  <2>1. TellsTruth(h, j, None) /\ j \in Keys
    BY <1>3, ConstantsAssumption DEF Truthful
  <2>2. /\ g.task = h.task
        /\ g.queue[j].mem # "freed" => h.queue[j].mem # "freed"
        /\ g.queue[j].tasks = h.queue[j].tasks
        /\ g.queue[j].told = h.queue[j].told
        /\ g.queue[j].cancelled <=> h.queue[j].cancelled
        /\ g.queue[j].defer <=> h.queue[j].defer
    BY <2>1 DEF Created
  <2> QED
    BY <2>1, <2>2 DEF TellsTruth
<1> QED
  BY <1>1, <1>2, <1>3 DEF Truthful

(* A task that was added waits in its queue.                               *)
LEMMA SubmittedKeeps ==
    ASSUME NEW h, Sound(h, None), NEW g, Sound(g, None), Fated(h),
           NEW k \in Keys, NEW t \in Tasks, Submitted(h, g, k, t)
    PROVE  /\ Fated(g)
           /\ Counted(h) => Counted(g)
           /\ Truthful(h, None) => Truthful(g, None)
<1>1. h \in HeapType /\ g \in HeapType
  BY DEF Sound
<1>2. ASSUME NEW j \in Keys
      PROVE  /\ \A u \in Range(g.queue[j].tasks) : g.task[u].fate = "waiting"
             /\ g.queue[j].current # None =>
                   g.task[g.queue[j].current].fate \in {"started", "cancelled"}
  <2>1. QueueOK(h, j, None)
    BY DEF Sound
  <2>2. \A u \in Range(g.queue[j].tasks) :
           u = t \/ (u \in Range(h.queue[j].tasks) /\ u \in Tasks)
    <3>1. Range(h.queue[j].tasks) \subseteq Tasks
      BY <1>1, WaitingAreTasks
    <3>2. CASE j = k
      <4> DEFINE s == h.queue[k].tasks
                 r == Append(s, t)
      <4>1. s \in Seq(Tasks) /\ g.queue[j].tasks = r
        BY <3>2, <1>1 DEF HeapType, Queue, Submitted
      <4>2. /\ DOMAIN r = 1..(Len(s) + 1) /\ DOMAIN s = 1..Len(s)
            /\ Len(s) \in Nat
            /\ \A i \in 1..Len(s) : r[i] = s[i]
            /\ r[Len(s) + 1] = t
        BY <4>1
      <4>3. \A u \in Range(r) : u = t \/ u \in Range(s)
        <5> HIDE DEF r, s
        <5> QED
          BY <4>2 DEF Range
      <4> QED
        BY <4>1, <4>3, <3>1, <3>2
    <3>3. CASE j # k
      BY <3>1, <3>3 DEF Submitted
    <3> QED
      BY <3>2, <3>3
  <2>3. \A u \in Range(h.queue[j].tasks) : h.task[u].fate = "waiting" /\ u # t
    BY <2>1 DEF Fated, QueueOK, Submitted
  <2>4. ASSUME g.queue[j].current # None
        PROVE  g.task[g.queue[j].current].fate \in {"started", "cancelled"}
    <3>1. g.queue[j].current = h.queue[j].current
      BY DEF Submitted
    <3>2. /\ h.queue[j].current \in Tasks /\ h.queue[j].current # t
          /\ h.task[h.queue[j].current].fate \in {"started", "cancelled"}
      BY <3>1, <2>1, <2>4, <1>1
         DEF HeapType, Queue, QueueOK, Submitted, Fated
    <3> QED
      BY <3>1, <3>2 DEF Submitted
  <2> QED
    BY <2>2, <2>3, <2>4 DEF Submitted
<1>3. Fated(g)
  <2>1. ASSUME NEW u \in Tasks
        PROVE  /\ g.task[u].mem = "unused" <=> g.task[u].fate = "none"
               /\ g.task[u].mem = "live" =>
                     g.task[u].fate \in {"waiting", "started", "cancelled"}
               /\ g.task[u].mem = "freed" =>
                     g.task[u].fate \in {"cancelled", "done", "dropped"}
    BY DEF Fated, Submitted
  <2> QED
    BY <1>2, <2>1 DEF Fated
<1>4. Counted(h) => Counted(g)
  BY CountedFrame DEF Submitted
<1>5. ASSUME Truthful(h, None), NEW j \in Service PROVE TellsTruth(g, j, None)
  <2>1. TellsTruth(h, j, None) /\ j \in Keys /\ None \notin Keys
    BY <1>5, ConstantsAssumption DEF Truthful
  <2>2. /\ g.queue[j].mem = h.queue[j].mem
        /\ g.queue[j].told = h.queue[j].told
        /\ g.queue[j].cancelled <=> h.queue[j].cancelled
        /\ g.queue[j].defer <=> h.queue[j].defer
    BY <2>1, <1>5 DEF Submitted
  <2>3. \A u \in Tasks : g.task[u].qid = j =>
           \/ u = t /\ j = k
           \/ h.task[u].qid = j /\ g.task[u].fate = h.task[u].fate
    BY DEF Submitted
  <2>4. g.task[t].fate = "waiting" /\ h.queue[k].mem = "live"
    BY DEF Submitted
  <2>5. g.queue[j].mem # "freed" =>
           /\ g.queue[j].told = "nothing" /\ ~g.queue[j].defer
           /\ ~g.queue[j].cancelled
           /\ \A u \in Tasks : g.task[u].qid = j =>
                 g.task[u].fate \in {"waiting", "started", "done"}
    BY <2>1, <2>2, <2>3, <2>4 DEF TellsTruth
  <2>6. ASSUME g.queue[j].told = "finished"
        PROVE  j # k
    BY <2>1, <2>2, <2>4, <2>6 DEF TellsTruth
  <2>7. g.queue[j].told = "finished" =>
           \A u \in Tasks : g.task[u].qid = j =>
              \/ g.task[u].fate = "done"
              \/ quitting /\ g.task[u].fate = "dropped"
    BY <2>1, <2>2, <2>3, <2>6 DEF TellsTruth
  <2> QED
    BY <2>5, <2>7 DEF TellsTruth
<1> QED
  BY <1>3, <1>4, <1>5 DEF Truthful

(* dleyna_task_processor_add_queue.                                        *)
LEMMA AddQueueCreates ==
    ASSUME IInv, Contract = Clauses, NEW k \in Keys, AddQueue(k)
    PROVE  ~quitting /\ Created(Heap, Heap', k)
<1> DEFINE q == [Heap.queue[k] EXCEPT !.mem = "live"]
           qs == [Heap.queue EXCEPT ![k] = q]
           h == [Heap EXCEPT !.queue = qs]
<1>1. Heap \in HeapType /\ Heap.queue[k].mem = "unused"
  BY HeapIsState DEF IInv, Sound, AddQueue
<1>2. Become(h) /\ ~quitting
  BY DEF AddQueue, Kept, Clauses, Heap
<1>3. /\ q \in Queue /\ q.mem = "live"
      /\ q.tasks = Heap.queue[k].tasks
      /\ q.current = Heap.queue[k].current /\ q.told = Heap.queue[k].told
      /\ q.cancelled <=> Heap.queue[k].cancelled
      /\ q.defer <=> Heap.queue[k].defer
  BY <1>1 DEF HeapType, Queue, Memory
<1> HIDE DEF q
<1>4. /\ qs \in [Keys -> Queue] /\ qs[k] = q
      /\ \A j \in Keys \ {k} : qs[j] = Heap.queue[j]
  BY <1>1, <1>3 DEF HeapType
<1> HIDE DEF qs
<1>5. /\ h \in HeapType /\ h.queue = qs /\ h.task = Heap.task
      /\ h.running = Heap.running /\ h.onQuit = Heap.onQuit
  BY <1>1, <1>4 DEF HeapType
<1> HIDE DEF h
<1>6. Created(Heap, h, k)
  BY <1>1, <1>3, <1>4, <1>5 DEF Created
<1>7. Heap' = h
  BY <1>2, <1>5, BecomeEffect
<1> QED
  BY <1>2, <1>6, <1>7

(* dleyna_task_queue_add_task.                                             *)
LEMMA AddTaskSubmits ==
    ASSUME IInv, NEW k \in Keys, NEW t \in Tasks, NEW proxy \in BOOLEAN,
           AddTask(k, t, proxy)
    PROVE  ~quitting /\ Submitted(Heap, Heap', k, t)
<1> DEFINE n == [NoTask EXCEPT !.mem = "live", !.qid = k,
                               !.proxy = proxy, !.fate = "waiting"]
           g == Enqueue(Heap, k, t, n)
           starts == /\ ~queue[k].defer /\ k \in AutoStart
                     /\ queue[k].current = None /\ ~queue[k].idle
           h == IF starts THEN ScheduleProcess(g, k) ELSE g
<1>1. /\ Sound(Heap, None) /\ Heap \in HeapType /\ Dispatching
      /\ k \in Live(Heap) /\ Heap.task[t].mem = "unused"
      /\ proxy => k \in Service
  BY HeapIsState DEF IInv, Sound, AddTask
<1>2. Become(h)
  BY DEF AddTask
<1>3. ~quitting
  BY <1>1, LiveBeforeQuit
<1>4. /\ n \in Task /\ n.mem = "live" /\ n.qid = k /\ n.fate = "waiting"
      /\ ~n.paction /\ ~n.inflight /\ (n.proxy => k \in Service)
  BY <1>1 DEF NoTask, Task, Memory, Fates
<1> HIDE DEF n
<1>5. /\ Sound(g, None) /\ k \in Live(g) /\ g.queue[k].tasks # <<>>
      /\ g.queue[k].current = Heap.queue[k].current
      /\ g.queue[k].idle <=> Heap.queue[k].idle
  <2> HIDE DEF h
  <2> QED
    BY <1>1, <1>4, AddedSound
<1>6. Submitted(Heap, g, k, t)
  <2> DEFINE r == Append(Heap.queue[k].tasks, t)
             q == [Heap.queue[k] EXCEPT !.tasks = r]
             qs == [Heap.queue EXCEPT ![k] = q]
             ts == [Heap.task EXCEPT ![t] = n]
  <2> HIDE DEF h
  <2>1. g = [Heap EXCEPT !.task = ts, !.queue = qs]
    BY <1>1 DEF Enqueue, HeapType
  <2> HIDE DEF g
  <2>2. /\ r \in Seq(Tasks) /\ Heap.queue[k] \in Queue
        /\ Heap.queue[k].mem = "live"
    BY <1>1 DEF HeapType, Queue, Live
  <2> HIDE DEF r
  <2>3. /\ q \in Queue /\ q.mem = "live" /\ q.tasks = r
        /\ q.current = Heap.queue[k].current /\ q.told = Heap.queue[k].told
        /\ q.cancelled <=> Heap.queue[k].cancelled
        /\ q.defer <=> Heap.queue[k].defer
    BY <2>2 DEF Queue
  <2> HIDE DEF q
  <2>4. /\ ts[t] = n /\ \A u \in Tasks : u # t => ts[u] = Heap.task[u]
        /\ qs[k] = q /\ \A j \in Keys \ {k} : qs[j] = Heap.queue[j]
    BY <1>1 DEF HeapType, Live
  <2> HIDE DEF ts, qs
  <2>5. /\ g.task = ts /\ g.queue = qs /\ g.running = Heap.running
        /\ g.onQuit = Heap.onQuit
    BY <2>1, <1>1 DEF HeapType
  <2> QED
    BY <2>2, <2>3, <2>4, <2>5, <1>1, <1>4 DEF Submitted, r
<1> HIDE DEF g
<1>7. h \in HeapType /\ Submitted(Heap, h, k, t)
  <2>1. CASE starts
    <3>1. h = ScheduleProcess(g, k)
      BY <2>1
    <3>2. g.queue[k].current = None /\ ~g.queue[k].idle
      BY <2>1, <1>5, HeapIsState
    <3> HIDE DEF h, starts
    <3>3. h \in HeapType /\ g \in HeapType
      BY <3>1, <3>2, <1>5, ScheduleProcessSound DEF Sound
    <3>4. Alike(g, h)
      BY <3>1, <3>3, ScheduleProcessAlike
    <3> QED
      BY <3>3, <3>4, <1>1, <1>6, SubmittedThen DEF Live
  <2>2. CASE ~starts
    BY <2>2, <1>5, <1>6 DEF Sound
  <2> QED
    BY <2>1, <2>2
<1> HIDE DEF h
<1>8. Heap' = h
  BY <1>2, <1>7, BecomeEffect
<1> QED
  BY <1>3, <1>7, <1>8

(* An event in which queue k took a task, and may have done more.          *)
Began(h, g, k) ==
    /\ Fated(g)
    /\ Counted(h) => Counted(g)
    /\ Service \subseteq AutoRemove /\ Truthful(h, None) => Truthful(g, None)
    /\ \E n : /\ Took(h, n, k) /\ Moves(n, g)
              /\ \/ g.queue[k].current = None
                 \/ g.queue[k].tasks = n.queue[k].tasks

(* set_quitting is called, perhaps again.                                  *)
Closed(h, g) ==
    /\ g.queue = h.queue /\ g.task = h.task /\ g.running = h.running
    /\ g.onQuit >= h.onQuit
    /\ g.running = 0 => g.onQuit > 0

(* All that a step of the task processor can be.                           *)
Outcome ==
    \/ Advanced /\ quitting' = quitting
    \/ /\ ~quitting /\ ~quitting'
       /\ \E k \in Keys :
             \/ Created(Heap, Heap', k)
             \/ \E t \in Tasks : Submitted(Heap, Heap', k, t)
             \/ Began(Heap, Heap', k)
    \/ Closed(Heap, Heap') /\ quitting'

(* The dispatch of prv_process_task.                                       *)
LEMMA ProcessTaskBegins ==
    ASSUME IInv, Fated(Heap), Contract = Clauses, NEW k \in Keys,
           NEW failed \in BOOLEAN, NEW action \in BOOLEAN,
           ProcessTask(k, failed, action)
    PROVE  ~quitting /\ Began(Heap, Heap', k)
<1> DEFINE d == DropSource(Heap, k)
           r == RunNext(d, k, failed, action)
<1>1. /\ Sound(Heap, None) /\ Dispatching /\ Heap.sources[k] > 0
      /\ ~(failed /\ action) /\ Become(r)
      /\ k \in Service /\ action /\ Heap.queue[k].tasks # <<>>
            => Heap.task[Head(Heap.queue[k].tasks)].proxy
  BY HeapIsState DEF IInv, ProcessTask, Kept, Clauses
<1>2. r = RunNext(DropSource(Heap, k), k, failed, action)
  OBVIOUS
<1>3. k \in Live(Heap)
  <2>1. QueueOK(Heap, k, None) /\ Heap \in HeapType
    BY <1>1 DEF Sound
  <2> QED
    BY <2>1, <1>1 DEF QueueOK, Live, HeapType
<1> HIDE DEF r, d
<1>4. ~quitting
  BY <1>1, <1>3, LiveBeforeQuit
<1>5. r \in HeapType
  BY <1>1, <1>2, <1>4, RunNextSound DEF Sound
<1>6. Began(Heap, r, k)
  BY <1>1, <1>2, <1>4, RunNextLeads DEF Began
<1>7. Heap' = r
  BY <1>1, <1>5, BecomeEffect
<1> QED
  BY <1>4, <1>6, <1>7

(* dleyna_task_processor_set_quitting up to the walk.                      *)
LEMMA SetQuittingCloses ==
    ASSUME IInv, SetQuitting
    PROVE  Closed(Heap, Heap') /\ quitting'
<1>1. /\ Sound(Heap, None) /\ Heap \in HeapType
      /\ Become(IF running = 0 THEN ScheduleOnQuit(Heap) ELSE Heap)
      /\ quitting'
  BY DEF IInv, Sound, SetQuitting
<1>2. Heap.onQuit \in Nat /\ Heap.onQuit >= Heap.onQuit
  BY <1>1 DEF HeapType
<1>3. CASE running = 0
  <2> DEFINE h == ScheduleOnQuit(Heap)
  <2>1. Become(h) /\ h = ScheduleOnQuit(Heap)
    BY <1>1, <1>3
  <2>2. /\ h.queue = Heap.queue /\ h.task = Heap.task
        /\ h.running = Heap.running /\ h.onQuit = Heap.onQuit + 1
        /\ h \in HeapType
    BY <1>1 DEF ScheduleOnQuit, HeapType
  <2> HIDE DEF h
  <2>3. Heap' = h /\ h.onQuit > 0 /\ h.onQuit >= Heap.onQuit
    BY <2>1, <2>2, <1>1, <1>2, BecomeEffect
  <2> QED
    BY <2>2, <2>3, <1>1 DEF Closed
<1>4. CASE running # 0
  <2>1. Heap' = Heap
    BY <1>1, <1>4, BecomeEffect
  <2> QED
    BY <2>1, <1>1, <1>4, <1>2, HeapIsState DEF Closed
<1> QED
  BY <1>3, <1>4

(* One step per action.                                                    *)
LEMMA NextOutcome ==
    ASSUME IInv, Fated(Heap), Contract = Clauses, [Next]_vars
    PROVE  Outcome
<1>1. CASE UNCHANGED vars
  <2>1. Heap \in HeapType /\ Become(Heap) /\ quitting' = quitting
    BY <1>1 DEF vars, IInv, Sound, Become, Heap
  <2>2. Alike(Heap, Heap)
    BY DEF Alike
  <2> QED
    BY <2>1, <2>2, AdvancedAlike DEF Outcome
<1>2. CASE Caller
  <2>1. ASSUME NEW k \in Keys, AddQueue(k) PROVE Outcome
    BY <2>1, AddQueueCreates DEF Outcome, AddQueue
  <2>2. ASSUME NEW k \in Keys, SetFinally(k) PROVE Outcome
    BY <2>2, SetFinallyAdvances DEF Outcome, SetFinally
  <2>3. ASSUME NEW k \in Keys, StartQueue(k) PROVE Outcome
    BY <2>3, StartQueueAdvances DEF Outcome, StartQueue
  <2>4. ASSUME NEW k \in Keys, CancelQueue(k) PROVE Outcome
    BY <2>4, CancelQueueAdvances DEF Outcome, CancelQueue
  <2>5. ASSUME NEW k \in Keys, NEW t \in Tasks, NEW proxy \in BOOLEAN,
               AddTask(k, t, proxy)
        PROVE  Outcome
    BY <2>5, AddTaskSubmits DEF Outcome, AddTask
  <2>6. ASSUME NEW matching, BeginRemoval(matching) PROVE Outcome
    BY <2>6, BeginRemovalAdvances DEF Outcome, BeginRemoval
  <2> QED
    BY <1>2, <2>1, <2>2, <2>3, <2>4, <2>5, <2>6
       DEF Caller, RemoveQueuesForSource, RemoveQueuesForSink
<1>3. CASE SetQuitting
  BY <1>3, SetQuittingCloses DEF Outcome
<1>4. CASE Loop
  <2>1. ASSUME NEW k \in Keys, NEW failed \in BOOLEAN, NEW action \in BOOLEAN,
               ProcessTask(k, failed, action)
        PROVE  Outcome
    BY <2>1, ProcessTaskBegins DEF Outcome, ProcessTask
  <2>2. ASSUME NEW k \in Keys, VisitToQuit(k) PROVE Outcome
    BY <2>2, VisitToQuitAdvances DEF Outcome, VisitToQuit
  <2>3. ASSUME NEW k \in Keys, VisitToRemove(k) PROVE Outcome
    BY <2>3, VisitToRemoveAdvances DEF Outcome, VisitToRemove
  <2>4. CASE EndWalk
    BY <2>4, EndWalkAdvances DEF Outcome, EndWalk
  <2> QED
    BY <1>4, <2>1, <2>2, <2>3, <2>4 DEF Loop, Walk
<1>5. CASE Network
  <2>1. ASSUME NEW t \in Tasks, NEW cancels \in BOOLEAN,
               ServiceTaskDone(t, cancels)
        PROVE  Outcome
    BY <2>1, ServiceTaskDoneAdvances DEF Outcome, ServiceTaskDone
  <2>2. ASSUME NEW t \in Tasks, ClientTaskDone(t) PROVE Outcome
    BY <2>2, ClientTaskDoneAdvances DEF Outcome, ClientTaskDone
  <2>3. ASSUME NEW t \in Tasks, ProxyLost(t) PROVE Outcome
    BY <2>3, ProxyLostAdvances DEF Outcome, ProxyLost
  <2> QED
    BY <1>5, <2>1, <2>2, <2>3 DEF Network
<1> QED
  BY <1>1, <1>2, <1>3, <1>4, <1>5 DEF Next

-----------------------------------------------------------------------------
(***************************************************************************)
(* The inductive invariants.                                               *)
(***************************************************************************)

(* dleyna_task_processor_new has nothing to account for.                   *)
LEMMA InitEstablishesFullInv ==
    ASSUME Init
    PROVE  FullInv
<1>1. /\ IInv /\ Heap.running = 0 /\ ~quitting
      /\ \A k \in Keys : Heap.queue[k] = NoQueue
      /\ \A t \in Tasks : Heap.task[t] = NoTask
  BY InitEstablishesIInv, HeapIsState DEF Init
<1>2. /\ NoQueue.tasks = <<>> /\ NoQueue.current = None
      /\ NoQueue.told = "nothing" /\ ~NoQueue.defer /\ ~NoQueue.cancelled
      /\ NoTask.mem = "unused" /\ NoTask.fate = "none" /\ NoTask.qid = None
      /\ Range(NoQueue.tasks) = {}
  BY DEF NoQueue, NoTask, Range
<1>3. Fated(Heap)
  BY <1>1, <1>2 DEF Fated
<1>4. Counted(Heap)
  <2>1. {k \in Keys : Heap.queue[k].current # None} = {}
    BY <1>1, <1>2
  <2> QED
    BY <2>1, <1>1, FS_EmptySet DEF Counted
<1>5. Armed(Heap)
  BY <1>1 DEF Armed
<1>6. Truthful(Heap, None)
  BY <1>1, <1>2, ConstantsAssumption DEF Truthful, TellsTruth
<1> QED
  BY <1>1, <1>3, <1>4, <1>5, <1>6 DEF FullInv, AccountInv

(* What was told the truth is the truth after quit as well.                *)
LEMMA TruthAfterStep ==
    ASSUME Truthful(Heap', None), quitting => quitting'
    PROVE  Truthful(Heap, None)'
BY DEF Truthful, TellsTruth

(* Every step keeps the account of the tasks and the counters.             *)
LEMMA NextKeepsAccountInv ==
    ASSUME AccountInv, Contract = Clauses, [Next]_vars
    PROVE  AccountInv'
<1>1. IInv /\ Fated(Heap) /\ Counted(Heap) /\ Armed(Heap)
  BY DEF AccountInv
<1>2. IInv' /\ Outcome
  BY <1>1, NextKeepsIInv, NextOutcome
<1>3. Sound(Heap, None) /\ Sound(Heap', None)
  BY <1>1, <1>2 DEF IInv
<1>4. Fated(Heap') /\ Counted(Heap') /\ Armed(Heap)'
  <2>1. CASE Advanced /\ quitting' = quitting
    BY <2>1, <1>1 DEF Advanced, Leads, Moves, Armed
  <2>2. ASSUME ~quitting', NEW k \in Keys, Created(Heap, Heap', k)
        PROVE  Fated(Heap') /\ Counted(Heap') /\ Armed(Heap)'
    BY <2>2, <1>1, CreatedKeeps DEF Armed
  <2>3. ASSUME ~quitting', NEW k \in Keys, NEW t \in Tasks,
               Submitted(Heap, Heap', k, t)
        PROVE  Fated(Heap') /\ Counted(Heap') /\ Armed(Heap)'
    BY <2>3, <1>1, <1>3, SubmittedKeeps DEF Armed
  <2>4. ASSUME ~quitting', NEW k \in Keys, Began(Heap, Heap', k)
        PROVE  Fated(Heap') /\ Counted(Heap') /\ Armed(Heap)'
    BY <2>4, <1>1 DEF Began, Armed
  <2>5. CASE Closed(Heap, Heap') /\ quitting'
    BY <2>5, <1>1 DEF Closed, Fated, Counted, Armed
  <2> QED
    BY <1>2, <2>1, <2>2, <2>3, <2>4, <2>5 DEF Outcome
<1> QED
  BY <1>2, <1>4 DEF AccountInv, Fated, Counted

(* Every step keeps finally_cb truthful, if all queues of service tasks    *)
(* remove themselves.                                                      *)
LEMMA NextKeepsFullInv ==
    ASSUME FullInv, Contract = Clauses, Service \subseteq AutoRemove,
           [Next]_vars
    PROVE  FullInv'
<1>1. /\ AccountInv /\ IInv /\ Fated(Heap) /\ Truthful(Heap, None)
  BY DEF FullInv, AccountInv
<1>2. AccountInv' /\ IInv' /\ Outcome
  BY <1>1, NextKeepsAccountInv, NextOutcome DEF AccountInv
<1>3. Sound(Heap, None) /\ Sound(Heap', None)
  BY <1>1, <1>2 DEF IInv
<1>4. Truthful(Heap, None)'
  <2>1. CASE Advanced /\ quitting' = quitting
    BY <2>1, <1>1, TruthAfterStep DEF Advanced
  <2>2. ASSUME ~quitting, NEW k \in Keys, Created(Heap, Heap', k)
        PROVE  Truthful(Heap, None)'
    BY <2>2, <1>1, CreatedKeeps, TruthAfterStep
  <2>3. ASSUME ~quitting, NEW k \in Keys, NEW t \in Tasks,
               Submitted(Heap, Heap', k, t)
        PROVE  Truthful(Heap, None)'
    BY <2>3, <1>1, <1>3, SubmittedKeeps, TruthAfterStep
  <2>4. ASSUME ~quitting, NEW k \in Keys, Began(Heap, Heap', k)
        PROVE  Truthful(Heap, None)'
    BY <2>4, <1>1, TruthAfterStep DEF Began
  <2>5. CASE Closed(Heap, Heap') /\ quitting'
    <3>1. Truthful(Heap', None)
      BY <2>5, <1>1 DEF Closed, Truthful, TellsTruth
    <3> QED
      BY <2>5, <3>1, TruthAfterStep
  <2> QED
    BY <1>2, <2>1, <2>2, <2>3, <2>4, <2>5 DEF Outcome
<1> QED
  BY <1>2, <1>4 DEF FullInv

-----------------------------------------------------------------------------
(***************************************************************************)
(* Theorems.                                                               *)
(***************************************************************************)

(* If its callers keep the whole contract, the counters of the processor   *)
(* and the fates of the tasks agree with the heap at every step.           *)
THEOREM AccountInvariant ==
    ASSUME Contract = Clauses
    PROVE  Spec => []AccountInv
<1>1. Init => AccountInv
  BY InitEstablishesFullInv DEF FullInv
<1>2. AccountInv /\ [Next]_vars => AccountInv'
  BY NextKeepsAccountInv
<1> QED
  BY <1>1, <1>2, PTL DEF Spec

(* With queues of service tasks that all remove themselves, as those of    *)
(* the control points do, the invariant holds with the answers that are    *)
(* given to finally_cb.                                                    *)
THEOREM FullInvariant ==
    ASSUME Contract = Clauses, Service \subseteq AutoRemove
    PROVE  Spec => []FullInv
<1>1. Init => FullInv
  BY InitEstablishesFullInv
<1>2. FullInv /\ [Next]_vars => FullInv'
  BY NextKeepsFullInv
<1> QED
  BY <1>1, <1>2, PTL DEF Spec

(* running_tasks is the number of live queues that have a current task.    *)
THEOREM RunningIsCounted ==
    ASSUME Contract = Clauses
    PROVE  Spec => []RunningAccounted
<1>1. ASSUME AccountInv PROVE RunningAccounted
  <2>1. \A k \in Keys : queue[k].current # None => queue[k].mem = "live"
    <3>1. \A k \in Keys : QueueOK(Heap, k, None)
      BY <1>1 DEF AccountInv, IInv, Sound
    <3> QED
      BY <3>1, HeapIsState DEF QueueOK
  <2>2. Busy = {k \in Keys : Heap.queue[k].current # None}
    BY <2>1, HeapIsState DEF Busy
  <2> QED
    BY <2>2, <1>1, HeapIsState DEF AccountInv, Counted, RunningAccounted
<1>2. AccountInv => RunningAccounted
  BY <1>1
<1> QED
  BY <1>2, AccountInvariant, PTL

(* finally_cb of a queue of service tasks hears that the queue was not     *)
(* cancelled only if all its tasks ran to their completion, but for those  *)
(* that set_quitting dropped.                                              *)
THEOREM FinallyIsTruthful ==
    ASSUME Contract = Clauses, Service \subseteq AutoRemove
    PROVE  Spec => []FinallyTruthful
<1>1. FullInv => FinallyTruthful
  BY HeapIsState DEF FullInv, Truthful, TellsTruth, FinallyTruthful
<1> QED
  BY <1>1, FullInvariant, PTL

(* With no queue left, nothing runs, is about to, or is in flight.         *)
LEMMA DrainedWhenEmpty ==
    ASSUME AccountInv, Live(Heap) = {}
    PROVE  /\ running = 0
           /\ \A k \in Keys : sources[k] = 0
           /\ \A t \in Tasks : task[t].mem # "live" /\ ~task[t].inflight
<1>1. \A k \in Keys : Heap.queue[k].mem # "live" /\ QueueOK(Heap, k, None)
  BY DEF AccountInv, IInv, Sound, Live
<1>2. \A k \in Keys : Heap.queue[k].current = None /\ Heap.sources[k] = 0
  BY <1>1 DEF QueueOK
<1>3. Heap.running = 0
  <2>1. {k \in Keys : Heap.queue[k].current # None} = {}
    BY <1>2
  <2> QED
    BY <2>1, FS_EmptySet DEF AccountInv, Counted
<1>4. \A t \in Tasks : Heap.task[t].mem # "live" /\ ~Heap.task[t].inflight
  <2>1. \A t \in Tasks : TaskOK(Heap, t)
    BY DEF AccountInv, IInv, Sound
  <2> QED
    BY <2>1, <1>1 DEF TaskOK
<1> QED
  BY <1>2, <1>3, <1>4, HeapIsState

(* No queue outlives the walk of set_quitting.                             *)
LEMMA EmptyAtRest ==
    ASSUME AccountInv, quitting, walk = NoWalk
    PROVE  Live(Heap) = {} /\ onQuit > 0
<1>1. Live(Heap) = {}
  BY DEF AccountInv, IInv, WalkOK, NoWalk
<1>2. running = 0
  BY <1>1, DrainedWhenEmpty
<1> QED
  BY <1>1, <1>2, HeapIsState DEF AccountInv, Armed

(* When set_quitting has returned, on_quit_cb is scheduled and nothing is  *)
(* left that could run.                                                    *)
THEOREM QuitLeavesNothing ==
    ASSUME Contract = Clauses
    PROVE  Spec => []QuitDrains
<1>1. ASSUME AccountInv, quitting, walk = NoWalk
      PROVE  /\ onQuit > 0 /\ running = 0
             /\ Live(Heap) = {}
             /\ \A k \in Keys : sources[k] = 0
             /\ \A t \in Tasks : task[t].mem # "live" /\ ~task[t].inflight
  BY <1>1, EmptyAtRest, DrainedWhenEmpty
<1>2. AccountInv => QuitDrains
  BY <1>1 DEF QuitDrains
<1> QED
  BY <1>2, AccountInvariant, PTL

(* A task that was cancelled, deleted or both never runs again.            *)
LEMMA EndedStays ==
    ASSUME NEW h, NEW g, Moves(h, g), NEW t \in Tasks,
           h.task[t].fate \in {"cancelled", "done", "dropped"}
    PROVE  g.task[t].fate = h.task[t].fate
BY DEF Moves, TaskStep

(* task_process_cb is never called on a task that was given to             *)
(* task_cancel_cb or deleted.                                              *)
THEOREM EndedStayEnded ==
    ASSUME Contract = Clauses
    PROVE  Spec => EndedNeverRuns
<1>1. ASSUME AccountInv, [Next]_vars, NEW t \in Tasks,
             Heap.task[t].fate \in {"cancelled", "done", "dropped"}
      PROVE  Heap'.task[t].fate = Heap.task[t].fate
  <2>1. IInv /\ Fated(Heap) /\ Outcome
    BY <1>1, NextOutcome DEF AccountInv
  <2>2. CASE Advanced
    BY <2>2, <1>1, EndedStays DEF Advanced, Leads
  <2>3. ASSUME NEW k \in Keys, Created(Heap, Heap', k)
        PROVE  Heap'.task[t].fate = Heap.task[t].fate
    BY <2>3 DEF Created
  <2>4. ASSUME NEW k \in Keys, NEW u \in Tasks, Submitted(Heap, Heap', k, u)
        PROVE  Heap'.task[t].fate = Heap.task[t].fate
    <3>1. t # u
      BY <2>1, <2>4, <1>1 DEF Submitted, Fated
    <3> QED
      BY <2>4, <3>1 DEF Submitted
  <2>5. ASSUME NEW k \in Keys, Began(Heap, Heap', k)
        PROVE  Heap'.task[t].fate = Heap.task[t].fate
    <3>1. PICK n : Took(Heap, n, k) /\ Moves(n, Heap')
      BY <2>5 DEF Began
    <3>2. n.task[t] = Heap.task[t]
      BY <3>1, <2>1, <1>1 DEF Took, Fated
    <3> QED
      BY <3>1, <3>2, <1>1, EndedStays
  <2>6. CASE Closed(Heap, Heap')
    BY <2>6 DEF Closed
  <2> QED
    BY <2>1, <2>2, <2>3, <2>4, <2>5, <2>6 DEF Outcome
<1>2. Heap.task = task /\ Heap'.task = task'
  BY DEF Heap
<1>3. AccountInv /\ [Next]_vars =>
         [\A t \in Tasks : task[t].fate \in {"cancelled", "done", "dropped"}
                              => task'[t].fate = task[t].fate]_vars
  BY <1>1, <1>2
<1> QED
  BY <1>3, AccountInvariant, PTL DEF Spec, EndedNeverRuns

-----------------------------------------------------------------------------
(***************************************************************************)
(* The refinement of SerialQueues.                                         *)
(***************************************************************************)

(* What the mapping makes of a heap.                                       *)
HeldBy(h) == {t \in Tasks : h.task[t].mem = "live"}

EndedBy(h) == {t \in Tasks : h.task[t].mem = "freed"}

DoneBy(h) == {t \in Tasks : h.task[t].fate = "done"}

(* The tasks in the slots of a sound heap are those that are live.         *)
LEMMA SlotsHoldTheLive ==
    ASSUME NEW h, Sound(h, None)
    PROVE  HeldBy(h) = UNION {Promise!InQueue(k, h.queue[k].tasks,
                                                 h.queue[k].current) : k \in Keys}
<1>1. h \in HeapType
  BY DEF Sound
<1>2. ASSUME NEW k \in Keys,
             NEW t \in Promise!InQueue(k, h.queue[k].tasks, h.queue[k].current)
      PROVE  t \in HeldBy(h)
  <2>1. t \in Range(h.queue[k].tasks) \/ (t = h.queue[k].current /\ t # None)
    BY <1>2 DEF Promise!InQueue, Range
  <2>2. QueueOK(h, k, None)
    BY DEF Sound
  <2>3. t \in Tasks
    BY <2>1, <1>1, WaitingAreTasks DEF HeapType, Queue
  <2> QED
    BY <2>1, <2>2, <2>3 DEF QueueOK, HeldBy
<1>3. ASSUME NEW t \in HeldBy(h)
      PROVE  \E k \in Keys :
                t \in Promise!InQueue(k, h.queue[k].tasks, h.queue[k].current)
  <2>1. TaskOK(h, t) /\ t \in Tasks /\ h.task[t].mem = "live"
    BY DEF Sound, HeldBy
  <2> DEFINE k == h.task[t].qid
  <2>2. /\ k \in Keys
        /\ h.queue[k].current = t \/ t \in Range(h.queue[k].tasks)
    BY <2>1 DEF TaskOK
  <2>3. t # None
    BY <2>1, ConstantsAssumption
  <2> HIDE DEF k
  <2>4. t \in Promise!InQueue(k, h.queue[k].tasks, h.queue[k].current)
    BY <2>2, <2>3 DEF Promise!InQueue, Range
  <2> QED
    BY <2>2, <2>4
<1> QED
  BY <1>2, <1>3

(* What the abstract variables are, before and after a step.               *)
LEMMA PromiseVariables ==
    ASSUME Sound(Heap, None)
    PROVE  /\ Promise!Held = HeldBy(Heap)
           /\ {t \in Tasks : task[t].mem = "freed"} = EndedBy(Heap)
           /\ {t \in Tasks : task[t].fate = "done"} = DoneBy(Heap)
<1>1. HeldBy(Heap) = UNION {Promise!InQueue(k, queue[k].tasks,
                                               queue[k].current) : k \in Keys}
  BY SlotsHoldTheLive, HeapIsState
<1>2. Promise!Held = UNION {Promise!InQueue(k, queue[k].tasks,
                                               queue[k].current) : k \in Keys}
  BY DEF Promise!Held
<1> QED
  BY <1>1, <1>2, HeapIsState DEF EndedBy, DoneBy

LEMMA PromiseVariablesAfter ==
    ASSUME Sound(Heap', None)
    PROVE  /\ Promise!Held' = HeldBy(Heap')
           /\ {t \in Tasks : task[t].mem = "freed"}' = EndedBy(Heap')
           /\ {t \in Tasks : task[t].fate = "done"}' = DoneBy(Heap')
<1>1. Heap'.queue = queue' /\ Heap'.task = task'
  BY DEF Heap
<1>2. HeldBy(Heap') = UNION {Promise!InQueue(k, queue'[k].tasks,
                                                queue'[k].current) : k \in Keys}
  BY <1>1, SlotsHoldTheLive
<1>3. Promise!Held' = UNION {Promise!InQueue(k, queue'[k].tasks,
                                                queue'[k].current) : k \in Keys}
  BY DEF Promise!Held
<1> QED
  BY <1>1, <1>2, <1>3 DEF EndedBy, DoneBy

(* The tasks that calls end are those that leave the queues, and a task is *)
(* only done if it was started.                                            *)
LEMMA MovesEnd ==
    ASSUME NEW h, NEW g, Moves(h, g)
    PROVE  /\ EndedBy(g) = EndedBy(h) \cup (HeldBy(h) \ HeldBy(g))
           /\ DoneBy(h) \subseteq DoneBy(g)
           /\ \A t \in DoneBy(g) \ DoneBy(h) :
                 /\ t \in HeldBy(h) /\ t \notin HeldBy(g)
                 /\ h.task[t].fate = "started"
<1>1. \A t \in Tasks : TaskStep(h.task[t], g.task[t])
  BY DEF Moves
<1>2. ASSUME NEW t \in Tasks
      PROVE  /\ g.task[t].mem = "freed" <=>
                   \/ h.task[t].mem = "freed"
                   \/ h.task[t].mem = "live" /\ g.task[t].mem # "live"
             /\ h.task[t].fate = "done" => g.task[t].fate = "done"
             /\ g.task[t].fate = "done" /\ h.task[t].fate # "done" =>
                   /\ h.task[t].mem = "live" /\ g.task[t].mem = "freed"
                   /\ h.task[t].fate = "started"
  BY <1>1 DEF TaskStep
<1> QED
  BY <1>2 DEF EndedBy, HeldBy, DoneBy

(* A live task that was started is the current one of its queue.           *)
LEMMA StartedIsCurrent ==
    ASSUME NEW h, NEW x, Sound(h, x), Fated(h), NEW t \in HeldBy(h),
           h.task[t].fate = "started"
    PROVE  \E k \in Keys : h.queue[k].current = t /\ t # None
<1>1. TaskOK(h, t) /\ t \in Tasks /\ h.task[t].mem = "live" /\ t # None
  BY ConstantsAssumption DEF Sound, HeldBy
<1> DEFINE k == h.task[t].qid
<1>2. /\ k \in Keys
      /\ h.queue[k].current = t \/ t \in Range(h.queue[k].tasks)
  BY <1>1 DEF TaskOK
<1> HIDE DEF k
<1>3. t \notin Range(h.queue[k].tasks)
  BY <1>2 DEF Fated
<1> QED
  BY <1>1, <1>2, <1>3

(* What a queue goes through is one of the four things it may.             *)
LEMMA QueueAdvances ==
    ASSUME NEW k \in Keys, QueueStep(queue[k], queue'[k]),
           QueueOK(Heap', k, None)
    PROVE  (Promise!Ends(k) \/ Promise!Stays(k)) /\ Promise!Lives(k)
<1>1. Heap'.queue = queue'
  BY DEF Heap
<1>2. queue'[k].mem # "live" => queue'[k].tasks = <<>> /\ queue'[k].current = None
  BY <1>1 DEF QueueOK
<1>3. Promise!Ends(k) \/ Promise!Stays(k)
  BY DEF QueueStep, Promise!Ends, Promise!Stays
<1>4. Promise!Lives(k)
  BY <1>2 DEF QueueStep, Promise!Lives
<1> QED
  BY <1>3, <1>4

(* An event that takes no task and adds none is a step of the promise.     *)
LEMMA AdvancedKeepsPromise ==
    ASSUME IInv, Fated(Heap), Sound(Heap', None), Advanced,
           quitting' = quitting
    PROVE  Promise!Advance
<1>1. Sound(Heap, None) /\ Moves(Heap, Heap') /\ Heap'.queue = queue'
  BY DEF IInv, Advanced, Leads, Heap
<1>2. ASSUME NEW k \in Keys
      PROVE  (Promise!Ends(k) \/ Promise!Stays(k)) /\ Promise!Lives(k)
  <2>1. QueueStep(queue[k], queue'[k])
    BY <1>1, HeapIsState DEF Moves
  <2>2. QueueOK(Heap', k, None)
    BY DEF Sound
  <2> QED
    BY <2>1, <2>2, QueueAdvances
<1>3. ASSUME NEW t \in DoneBy(Heap') \ DoneBy(Heap)
      PROVE  \E k \in Keys : t \in Promise!Turn(k)
  <2>1. t \in HeldBy(Heap) /\ Heap.task[t].fate = "started"
    BY <1>1, MovesEnd
  <2>2. PICK k \in Keys : Heap.queue[k].current = t /\ t # None
    BY <1>1, <2>1, StartedIsCurrent
  <2>3. t \in Promise!Turn(k)
    BY <2>2, HeapIsState DEF Promise!Turn
  <2> QED
    BY <2>3
<1>4. /\ EndedBy(Heap') = EndedBy(Heap) \cup (HeldBy(Heap) \ HeldBy(Heap'))
      /\ DoneBy(Heap) \subseteq DoneBy(Heap')
      /\ DoneBy(Heap') \ DoneBy(Heap) \subseteq
            (HeldBy(Heap) \ HeldBy(Heap')) \cap UNION {Promise!Turn(k) : k \in Keys}
  BY <1>1, <1>3, MovesEnd
<1>5. /\ Promise!Held = HeldBy(Heap) /\ Promise!Held' = HeldBy(Heap')
      /\ {t \in Tasks : task[t].mem = "freed"} = EndedBy(Heap)
      /\ {t \in Tasks : task[t].mem = "freed"}' = EndedBy(Heap')
      /\ {t \in Tasks : task[t].fate = "done"} = DoneBy(Heap)
      /\ {t \in Tasks : task[t].fate = "done"}' = DoneBy(Heap')
  BY <1>1, PromiseVariables, PromiseVariablesAfter
<1> QED
  BY <1>2, <1>4, <1>5 DEF Promise!Advance

(* An event in which a queue took its next task is one as well.            *)
LEMMA BeganKeepsPromise ==
    ASSUME IInv, Fated(Heap), Sound(Heap', None), NEW k \in Keys,
           Began(Heap, Heap', k), ~quitting, ~quitting',
           quitting' = quitting
    PROVE  Promise!Advance
<1>1. Sound(Heap, None) /\ Heap \in HeapType /\ Heap'.queue = queue'
  BY DEF IInv, Sound, Heap
<1>2. PICK n : /\ Took(Heap, n, k) /\ Moves(n, Heap')
               /\ \/ Heap'.queue[k].current = None
                  \/ Heap'.queue[k].tasks = n.queue[k].tasks
  BY DEF Began
<1> DEFINE t == Head(queue[k].tasks)
<1>3. /\ queue[k].mem = "live" /\ queue[k].current = None
      /\ queue[k].tasks # <<>> /\ t \in Tasks
      /\ t \in Range(queue[k].tasks)
      /\ n.queue[k].mem = "live" /\ n.queue[k].current = t
      /\ n.queue[k].tasks = Tail(queue[k].tasks)
      /\ \A j \in Keys \ {k} : n.queue[j] = queue[j]
      /\ \A u \in Tasks \ {t} : n.task[u] = Heap.task[u]
      /\ n.task[t].mem = Heap.task[t].mem /\ n.task[t].fate = "started"
  BY <1>2, HeapIsState DEF Took
<1> HIDE DEF t
<1>4. Promise!Ready(k) /\ t \in Promise!Turn(k)
  BY <1>3 DEF Promise!Ready, Promise!Turn, t
<1>5. /\ Heap.task[t].mem = "live" /\ Heap.task[t].fate = "waiting"
  <2>1. QueueOK(Heap, k, None)
    BY <1>1 DEF Sound
  <2> QED
    BY <2>1, <1>3, HeapIsState DEF QueueOK, Fated
<1>6. ASSUME NEW j \in Keys
      PROVE  /\ \/ Promise!Begins(j) \/ Promise!Runs(j)
                \/ Promise!Ends(j) \/ Promise!Stays(j)
             /\ Promise!Lives(j)
  <2>1. QueueStep(n.queue[j], queue'[j]) /\ QueueOK(Heap', j, None)
    BY <1>1, <1>2 DEF Moves, Sound
  <2>2. CASE j # k
    BY <2>1, <2>2, <1>3, QueueAdvances
  <2>3. CASE j = k
    <3>1. queue'[k].mem # "live" =>
             queue'[k].tasks = <<>> /\ queue'[k].current = None
      BY <2>1, <2>3, <1>1 DEF QueueOK
    <3>2. Promise!Lives(k)
      BY <3>1, <2>1, <2>3, <1>3 DEF QueueStep, Promise!Lives
    <3>3. Promise!Begins(k) \/ Promise!Runs(k)
      <4>1. CASE queue'[k].current = None
        BY <4>1, <2>1, <2>3, <1>3, <1>4 DEF QueueStep, Promise!Runs
      <4>2. CASE queue'[k].current # None
        BY <4>2, <2>1, <2>3, <1>1, <1>2, <1>3, <1>4
           DEF QueueStep, Promise!Begins, t
      <4> QED
        BY <4>1, <4>2
    <3> QED
      BY <3>2, <3>3, <2>3
  <2> QED
    BY <2>2, <2>3
<1>7. /\ HeldBy(n) = HeldBy(Heap) /\ EndedBy(n) = EndedBy(Heap)
      /\ DoneBy(n) = DoneBy(Heap)
  <2>1. \A u \in Tasks : /\ n.task[u].mem = Heap.task[u].mem
                         /\ n.task[u].fate = "done" <=> Heap.task[u].fate = "done"
    BY <1>3, <1>5
  <2> QED
    BY <2>1 DEF HeldBy, EndedBy, DoneBy
<1>8. ASSUME NEW u \in DoneBy(Heap') \ DoneBy(Heap)
      PROVE  \E j \in Keys : u \in Promise!Turn(j)
  <2>1. u \in HeldBy(n) /\ n.task[u].fate = "started"
    BY <1>2, <1>7, MovesEnd
  <2>2. CASE u = t
    BY <2>2, <1>4
  <2>3. CASE u # t
    <3>1. u \in HeldBy(Heap) /\ Heap.task[u].fate = "started"
      BY <2>1, <2>3, <1>3, <1>7 DEF HeldBy
    <3>2. PICK j \in Keys : Heap.queue[j].current = u /\ u # None
      BY <1>1, <3>1, StartedIsCurrent
    <3>3. u \in Promise!Turn(j)
      BY <3>2, HeapIsState DEF Promise!Turn
    <3> QED
      BY <3>3
  <2> QED
    BY <2>2, <2>3
<1>9. /\ EndedBy(Heap') = EndedBy(Heap) \cup (HeldBy(Heap) \ HeldBy(Heap'))
      /\ DoneBy(Heap) \subseteq DoneBy(Heap')
      /\ DoneBy(Heap') \ DoneBy(Heap) \subseteq
            (HeldBy(Heap) \ HeldBy(Heap')) \cap UNION {Promise!Turn(j) : j \in Keys}
  <2>1. /\ EndedBy(Heap') = EndedBy(n) \cup (HeldBy(n) \ HeldBy(Heap'))
        /\ DoneBy(n) \subseteq DoneBy(Heap')
        /\ \A u \in DoneBy(Heap') \ DoneBy(n) :
              u \in HeldBy(n) /\ u \notin HeldBy(Heap')
    BY <1>2, MovesEnd
  <2> QED
    BY <2>1, <1>7, <1>8
<1>10. /\ Promise!Held = HeldBy(Heap) /\ Promise!Held' = HeldBy(Heap')
       /\ {u \in Tasks : task[u].mem = "freed"} = EndedBy(Heap)
       /\ {u \in Tasks : task[u].mem = "freed"}' = EndedBy(Heap')
       /\ {u \in Tasks : task[u].fate = "done"} = DoneBy(Heap)
       /\ {u \in Tasks : task[u].fate = "done"}' = DoneBy(Heap')
  BY <1>1, PromiseVariables, PromiseVariablesAfter
<1> QED
  BY <1>6, <1>9, <1>10 DEF Promise!Advance

(* dleyna_task_processor_add_queue is the creation of a queue.             *)
LEMMA CreatedKeepsPromise ==
    ASSUME NEW k \in Keys, Created(Heap, Heap', k), ~quitting,
           quitting' = quitting
    PROVE  Promise!Create(k)
<1>1. /\ queue[k].mem = "unused" /\ queue'[k].mem = "live" /\ task' = task
      /\ \A j \in Keys : /\ j # k => queue'[j].mem = queue[j].mem
                         /\ queue'[j].tasks = queue[j].tasks
                         /\ queue'[j].current = queue[j].current
  BY HeapIsState DEF Created, Heap
<1> QED
  BY <1>1 DEF Promise!Create

(* dleyna_task_queue_add_task is a submission.                             *)
LEMMA SubmittedKeepsPromise ==
    ASSUME IInv, Fated(Heap), NEW k \in Keys, NEW t \in Tasks,
           Submitted(Heap, Heap', k, t), ~quitting, quitting' = quitting
    PROVE  Promise!Submit(k, t)
<1>1. /\ queue[k].mem = "live" /\ task[t].mem = "unused"
      /\ queue'[k].tasks = Append(queue[k].tasks, t)
      /\ \A j \in Keys : /\ queue'[j].mem = queue[j].mem
                         /\ j # k => queue'[j].tasks = queue[j].tasks
                         /\ queue'[j].current = queue[j].current
      /\ task'[t].mem = "live" /\ task'[t].fate = "waiting"
      /\ \A u \in Tasks : u # t => /\ task'[u].mem = task[u].mem
                                   /\ task'[u].fate = task[u].fate
  BY HeapIsState DEF Submitted, Heap
<1>2. Promise!Held = HeldBy(Heap) /\ task[t].fate = "none"
  BY <1>1, PromiseVariables, HeapIsState DEF IInv, Fated
<1>3. t \notin Promise!Held \cup {u \in Tasks : task[u].mem = "freed"}
  BY <1>1, <1>2, HeapIsState DEF HeldBy
<1>4. /\ {u \in Tasks : task'[u].mem = "freed"}
            = {u \in Tasks : task[u].mem = "freed"}
      /\ {u \in Tasks : task'[u].fate = "done"}
            = {u \in Tasks : task[u].fate = "done"}
  BY <1>1, <1>2
<1>5. [j \in Keys |-> queue'[j].tasks]
         = [[j \in Keys |-> queue[j].tasks] EXCEPT ![k] = Append(queue[k].tasks, t)]
  BY <1>1
<1>6. /\ [j \in Keys |-> queue'[j].mem] = [j \in Keys |-> queue[j].mem]
      /\ [j \in Keys |-> queue'[j].current] = [j \in Keys |-> queue[j].current]
  BY <1>1
<1> QED
  BY <1>1, <1>3, <1>4, <1>5, <1>6 DEF Promise!Submit

(* dleyna_task_processor_set_quitting closes the processor, once.          *)
LEMMA ClosedKeepsPromise ==
    ASSUME IInv, quitting' \in BOOLEAN, Closed(Heap, Heap'), quitting'
    PROVE  Promise!Close \/ UNCHANGED Promise!vars
<1>1. queue' = queue /\ task' = task /\ quitting \in BOOLEAN
  BY DEF Closed, Heap, IInv
<1>2. CASE quitting
  <2>1. quitting' = quitting
    BY <1>1, <1>2
  <2> QED
    BY <1>1, <2>1 DEF Promise!vars
<1>3. CASE ~quitting
  BY <1>1, <1>3 DEF Promise!Close
<1> QED
  BY <1>2, <1>3

(* Whatever callbacks an event runs and however they call the processor    *)
(* back, each queue makes a step that clients of a serial queue may see:   *)
(* tasks run one at a time and in order, leave once, are not lost with     *)
(* their queue, and do not begin after set_quitting.                       *)
THEOREM KeepsPromise ==
    ASSUME Contract = Clauses
    PROVE  Spec => ImplementsSerialQueues
<1>1. Init => Promise!Init
  BY DEF Init, Promise!Init, NoQueue, NoTask
<1>2. ASSUME AccountInv, AccountInv', [Next]_vars
      PROVE  [Promise!Next]_(Promise!vars)
  <2>1. /\ IInv /\ Fated(Heap) /\ Outcome /\ Sound(Heap', None)
        /\ quitting \in BOOLEAN /\ quitting' \in BOOLEAN
    BY <1>2, NextOutcome DEF AccountInv, IInv
  <2>2. CASE Advanced /\ quitting' = quitting
    BY <2>1, <2>2, AdvancedKeepsPromise DEF Promise!Next
  <2>3. CASE /\ ~quitting /\ ~quitting'
             /\ \E k \in Keys :
                   \/ Created(Heap, Heap', k)
                   \/ \E t \in Tasks : Submitted(Heap, Heap', k, t)
                   \/ Began(Heap, Heap', k)
    <3>1. quitting' = quitting
      BY <2>1, <2>3
    <3>2. ASSUME NEW k \in Keys, Created(Heap, Heap', k) PROVE Promise!Next
      BY <2>3, <3>1, <3>2, CreatedKeepsPromise DEF Promise!Next
    <3>3. ASSUME NEW k \in Keys, NEW t \in Tasks, Submitted(Heap, Heap', k, t)
          PROVE  Promise!Next
      BY <2>1, <2>3, <3>1, <3>3, SubmittedKeepsPromise DEF Promise!Next
    <3>4. ASSUME NEW k \in Keys, Began(Heap, Heap', k) PROVE Promise!Next
      BY <2>1, <2>3, <3>1, <3>4, BeganKeepsPromise DEF Promise!Next
    <3> QED
      BY <2>3, <3>2, <3>3, <3>4
  <2>4. CASE Closed(Heap, Heap') /\ quitting'
    BY <2>1, <2>4, ClosedKeepsPromise DEF Promise!Next
  <2> QED
    BY <2>1, <2>2, <2>3, <2>4 DEF Outcome
<1>3. AccountInv /\ AccountInv' /\ [Next]_vars => [Promise!Next]_(Promise!vars)
  BY <1>2
<1> QED
  BY <1>1, <1>3, AccountInvariant, PTL
     DEF Spec, ImplementsSerialQueues, Promise!Spec

====================
