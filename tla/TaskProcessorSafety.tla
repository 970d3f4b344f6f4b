------------------------ MODULE TaskProcessorSafety ------------------------
(***************************************************************************)
(* IInv is an inductive invariant of the task processor, provided that its *)
(* callers keep the whole contract, and the safety properties follow.      *)
(*                                                                         *)
(* The first part says what the operators of TaskProcessor do to a sound   *)
(* heap.  A lemma named ...Effect says what an operator changes and what   *)
(* it leaves alone, one named ...Sound that it leads from a sound heap to  *)
(* a sound heap, and how the queue it is about ends up.  The second part   *)
(* takes the actions one by one and rests on these.                        *)
(***************************************************************************)
EXTENDS TaskProcessorInv, TLAPS

(* From h to g nothing changes but the operation of task t.                *)
OnlyTask(h, g, t) ==
    /\ g \in HeapType /\ g.queue = h.queue
    /\ g.sources = h.sources /\ g.fault = h.fault
    /\ g.running = h.running /\ g.onQuit = h.onQuit
    /\ \A u \in Tasks : u # t => g.task[u] = h.task[u]
    /\ g.task[t].mem = h.task[t].mem /\ g.task[t].qid = h.task[t].qid
    /\ g.task[t].fate = h.task[t].fate
    /\ g.task[t].proxy <=> h.task[t].proxy

(* From h to g nothing changes but the source of queue k, which is gone.   *)
OnlySource(h, g, k) ==
    /\ g \in HeapType /\ g.queue = h.queue /\ g.task = h.task
    /\ g.fault = h.fault /\ g.sources[k] = 0
    /\ g.running = h.running /\ g.onQuit = h.onQuit
    /\ \A j \in Keys : j # k => g.sources[j] = h.sources[j]

(* n is the sound heap h after its live, idle queue k took its first task. *)
Took(h, n, k) ==
    /\ Sound(n, k) /\ h.queue[k].mem = "live"
    /\ h.queue[k].tasks # <<>>
    /\ n.queue[k].mem = "live" /\ ~n.queue[k].cancelled
    /\ n.queue[k].current = Head(h.queue[k].tasks)
    /\ Head(h.queue[k].tasks) \in Tasks
    /\ h.task[Head(h.queue[k].tasks)].proxy
         => n.task[Head(h.queue[k].tasks)].proxy
    /\ \A j \in Keys \ {k} : n.queue[j] = h.queue[j]
    /\ h.queue[k].current = None
    /\ n.queue[k].tasks = Tail(h.queue[k].tasks)
    /\ n.queue[k].told = h.queue[k].told
    /\ n.queue[k].defer <=> h.queue[k].defer
    /\ \A u \in Tasks \ {Head(h.queue[k].tasks)} : n.task[u] = h.task[u]
    /\ Head(h.queue[k].tasks) \in Range(h.queue[k].tasks)
    /\ n.task[Head(h.queue[k].tasks)].mem = h.task[Head(h.queue[k].tasks)].mem
    /\ n.task[Head(h.queue[k].tasks)].qid = h.task[Head(h.queue[k].tasks)].qid
    /\ n.task[Head(h.queue[k].tasks)].fate = "started"
    /\ n.running = Increment(h.running) /\ n.onQuit = h.onQuit

(* What task_delete_cb does to the heap when no task of T is freed yet.    *)
LEMMA DeleteTasksEffect ==
    ASSUME NEW h \in HeapType, NEW T \in SUBSET Tasks,
           \A t \in T : h.task[t].mem # "freed",
           NEW d, d = DeleteTasks(h, T)
    PROVE  /\ d \in HeapType
           /\ d.queue = h.queue /\ d.sources = h.sources
           /\ d.running = h.running /\ d.onQuit = h.onQuit
           /\ d.fault = h.fault
           /\ \A t \in Tasks \ T : d.task[t] = h.task[t]
           /\ \A t \in T : /\ d.task[t].mem = "freed"
                           /\ ~d.task[t].proxy
                           /\ d.task[t].qid = h.task[t].qid
                           /\ d.task[t].paction = h.task[t].paction
                           /\ d.task[t].inflight = h.task[t].inflight
                           /\ d.task[t].fate = DeletedFate(h.task[t].fate)
<1> DEFINE new(t) == IF t \in T
                     THEN [h.task[t] EXCEPT !.mem = "freed", !.proxy = FALSE,
                                            !.fate = DeletedFate(@)]
                     ELSE h.task[t]
           what == IF \E t \in T : h.task[t].mem = "freed"
                   THEN "double_delete" ELSE h.fault
           tasks == [t \in Tasks |-> new(t)]
<1>1. d = [h EXCEPT !.task = tasks, !.fault = what]
  BY DEF DeleteTasks
<1>2. what = h.fault
  OBVIOUS
<1>3. tasks \in [Tasks -> Task]
  <2>1. ASSUME NEW t \in Tasks PROVE new(t) \in Task
    <3>1. h.task[t] \in Task
      BY DEF HeapType
    <3>2. DeletedFate(h.task[t].fate) \in Fates
      BY <3>1 DEF Task, DeletedFate, Fates
    <3> QED
      BY <3>1, <3>2 DEF Task, Memory
  <2> QED
    BY <2>1
<1> HIDE DEF tasks, what
<1>4. /\ d \in HeapType
      /\ d.queue = h.queue /\ d.sources = h.sources
      /\ d.running = h.running /\ d.onQuit = h.onQuit
      /\ d.fault = h.fault
      /\ d.task = tasks
  BY <1>1, <1>2, <1>3 DEF HeapType
<1>5. \A t \in Tasks : h.task[t] \in Task
  BY DEF HeapType
<1>6. \A t \in Tasks \ T : d.task[t] = h.task[t]
  BY <1>4 DEF tasks
<1>7. ASSUME NEW t \in T
      PROVE  /\ d.task[t].mem = "freed"
             /\ ~d.task[t].proxy
             /\ d.task[t].qid = h.task[t].qid
             /\ d.task[t].paction = h.task[t].paction
             /\ d.task[t].inflight = h.task[t].inflight
             /\ d.task[t].fate = DeletedFate(h.task[t].fate)
  <2>1. d.task[t] = [h.task[t] EXCEPT !.mem = "freed", !.proxy = FALSE,
                                      !.fate = DeletedFate(@)]
    BY <1>4 DEF tasks
  <2> QED
    BY <2>1, <1>5 DEF Task
<1> QED
  BY <1>4, <1>6, <1>7

(* The tasks that wait in a queue are tasks.                               *)
LEMMA WaitingAreTasks ==
    ASSUME NEW h \in HeapType, NEW k \in Keys
    PROVE  /\ Range(h.queue[k].tasks) \subseteq Tasks
           /\ h.queue[k] \in Queue
<1>1. h.queue[k] \in Queue
  BY DEF HeapType
<1>2. h.queue[k].tasks \in Seq(Tasks)
  BY <1>1 DEF Queue
<1> QED
  BY <1>1, <1>2 DEF Range

(* What is left of a freed queue: nothing.                                 *)
LEMMA FreedQueueEffect ==
    ASSUME NEW q, NEW f, f = FreedQueue(q)
    PROVE  /\ f \in Queue
           /\ f.mem = "freed" /\ f.tasks = <<>> /\ f.current = None
           /\ ~f.idle /\ ~f.defer /\ ~f.cancelled
           /\ f.told = "finished" => ~q.cancelled
<1> DEFINE t == IF ~q.finally THEN "nothing"
                ELSE IF q.cancelled THEN "cancelled" ELSE "finished"
<1>1. f = [NoQueue EXCEPT !.mem = "freed", !.told = t]
  BY DEF FreedQueue
<1>2. t \in Told /\ (t = "finished" => ~q.cancelled)
  BY DEF Told
<1> HIDE DEF t
<1>3. f = [mem |-> "freed", tasks |-> <<>>, current |-> None, idle |-> FALSE,
           defer |-> FALSE, cancelled |-> FALSE, finally |-> FALSE,
           told |-> t]
  BY <1>1 DEF NoQueue
<1>4. << >> \in Seq(Tasks)
  OBVIOUS
<1>5. f \in Queue
  BY <1>2, <1>3, <1>4 DEF Queue, Memory
<1> QED
  BY <1>2, <1>3, <1>5

(* What ends the current task of a queue is left alone with the task.      *)
LEMMA HasEndFrame ==
    ASSUME NEW h, NEW g, NEW j, NEW x, NEW y, HasEnd(h, j, x), j # x, j # y,
           g.queue[j].current = h.queue[j].current,
           g.task[h.queue[j].current] = h.task[h.queue[j].current]
    PROVE  HasEnd(g, j, y)
BY DEF HasEnd

(* A queue is untouched if it and the tasks in its slots are.              *)
LEMMA QueueFrame ==
    ASSUME NEW h, NEW g, NEW j, NEW x, NEW y, QueueOK(h, j, x),
           g.queue[j] = h.queue[j], g.sources[j] = h.sources[j],
           h.queue[j].current # None =>
              /\ g.task[h.queue[j].current] = h.task[h.queue[j].current]
              /\ HasEnd(g, j, y),
           \A u \in Range(h.queue[j].tasks) : g.task[u] = h.task[u]
    PROVE  QueueOK(g, j, y)
BY DEF QueueOK

(* Freeing queues that neither run a task nor are about to keeps the heap  *)
(* sound (g_hash_table_remove, g_hash_table_remove_all and prv_free_cb).   *)
LEMMA RemoveQueuesSound ==
    ASSUME NEW h, Sound(h, None), NEW K \in SUBSET Live(h),
           \A k \in K : h.queue[k].current = None /\ ~h.queue[k].idle,
           NEW r, r = RemoveQueues(h, K)
    PROVE  /\ Sound(r, None)
           /\ \A k \in K : r.queue[k] = FreedQueue(h.queue[k])
           /\ \A k \in Keys \ K : r.queue[k] = h.queue[k]
           /\ Live(r) = Live(h) \ K
<1> DEFINE W == UNION {Range(h.queue[k].tasks) : k \in K}
           d == DeleteTasks(h, W)
           left == [k \in Keys |-> IF k \in K THEN FreedQueue(h.queue[k])
                                              ELSE h.queue[k]]
<1>1. h \in HeapType /\ K \subseteq Keys
  BY DEF Sound, Live
<1>2. \A t : t \in W <=> \E k \in K : t \in Range(h.queue[k].tasks)
  OBVIOUS
<1>3. \A t \in W : /\ t \in Tasks
                   /\ h.task[t].mem = "live" /\ h.task[t].qid \in K
                   /\ ~h.task[t].paction /\ ~h.task[t].inflight
  BY <1>1, <1>2, WaitingAreTasks DEF Sound, QueueOK
<1>4. r = [d EXCEPT !.queue = left]
  BY DEF RemoveQueues
<1> HIDE DEF W
<1>5. /\ d \in HeapType
      /\ d.queue = h.queue /\ d.sources = h.sources
      /\ d.running = h.running /\ d.onQuit = h.onQuit
      /\ d.fault = h.fault
      /\ \A t \in Tasks \ W : d.task[t] = h.task[t]
      /\ \A t \in W : /\ d.task[t].mem = "freed"
                      /\ ~d.task[t].proxy
                      /\ d.task[t].qid = h.task[t].qid
                      /\ d.task[t].paction = h.task[t].paction
                      /\ d.task[t].inflight = h.task[t].inflight
  <2>1. W \in SUBSET Tasks /\ \A t \in W : h.task[t].mem # "freed"
    BY <1>3
  <2> HIDE DEF d
  <2> QED
    BY <1>1, <2>1, DeleteTasksEffect DEF d
<1> HIDE DEF d
<1>6. left \in [Keys -> Queue]
  BY <1>1, FreedQueueEffect, WaitingAreTasks
<1> HIDE DEF left
<1>7. /\ r \in HeapType /\ r.queue = left /\ r.task = d.task
      /\ r.sources = h.sources /\ r.fault = h.fault
  BY <1>4, <1>5, <1>6 DEF HeapType
<1>8. /\ \A k \in K : r.queue[k] = FreedQueue(h.queue[k])
      /\ \A k \in Keys \ K : r.queue[k] = h.queue[k]
  BY <1>1, <1>7 DEF left
<1>9. ASSUME NEW k \in Keys PROVE QueueOK(r, k, None)
  <2>1. QueueOK(h, k, None)
    BY DEF Sound
  <2>2. CASE k \in K
    <3>1. /\ r.queue[k].tasks = <<>> /\ r.queue[k].current = None
          /\ ~r.queue[k].idle
      BY <2>2, <1>8, FreedQueueEffect
    <3>2. r.sources[k] = 0
      BY <2>1, <2>2, <1>7 DEF QueueOK
    <3> QED
      BY <3>1, <3>2 DEF QueueOK, Range
  <2>3. CASE k \notin K
    <3>1. r.queue[k] = h.queue[k] /\ r.sources[k] = h.sources[k]
      BY <2>3, <1>7, <1>8
    <3>2. \A t \in Tasks : h.task[t].qid = k => r.task[t] = h.task[t]
      BY <2>3, <1>3, <1>5, <1>7
    <3>3. /\ h.queue[k].current \in Tasks \cup {None}
          /\ Range(h.queue[k].tasks) \subseteq Tasks
      BY <1>1, WaitingAreTasks DEF Queue
    <3>4. h.queue[k].current # None =>
             /\ r.task[h.queue[k].current] = h.task[h.queue[k].current]
             /\ HasEnd(h, k, None)
      BY <2>1, <3>2, <3>3 DEF QueueOK
    <3>5. h.queue[k].current # None => HasEnd(r, k, None)
      BY <3>1, <3>4, HasEndFrame, ConstantsAssumption
    <3>6. \A t \in Range(h.queue[k].tasks) : r.task[t] = h.task[t]
      BY <2>1, <3>2, <3>3 DEF QueueOK
    <3> QED
      BY <2>1, <3>1, <3>4, <3>5, <3>6, QueueFrame
  <2> QED
    BY <2>2, <2>3
<1>10. ASSUME NEW t \in Tasks PROVE TaskOK(r, t)
  <2>1. TaskOK(h, t)
    BY DEF Sound
  <2>2. CASE t \in W
    BY <2>1, <2>2, <1>3, <1>5, <1>7 DEF TaskOK
  <2>3. CASE t \notin W
    <3>1. r.task[t] = h.task[t]
      BY <2>3, <1>5, <1>7
    <3>2. h.task[t].mem = "live" => h.task[t].qid \in Keys \ K
      BY <2>1, <2>3, <1>2, ConstantsAssumption DEF TaskOK
    <3> QED
      BY <2>1, <3>1, <3>2, <1>8 DEF TaskOK
  <2> QED
    BY <2>2, <2>3
<1>11. Live(r) = Live(h) \ K
  BY <1>1, <1>8, FreedQueueEffect DEF Live
<1> QED
  BY <1>7, <1>8, <1>9, <1>10, <1>11 DEF Sound

(* Soundness speaks of the slots of the queues and of what can call a task *)
(* back: whatever leaves these alone keeps a heap sound.                   *)
LEMMA SoundFrame ==
    ASSUME NEW h, NEW g, NEW x, Sound(h, x), g \in HeapType, g.fault = "none",
           g.sources = h.sources,
           \A k \in Keys : /\ g.queue[k].mem = h.queue[k].mem
                           /\ g.queue[k].tasks = h.queue[k].tasks
                           /\ g.queue[k].current = h.queue[k].current
                           /\ g.queue[k].idle = h.queue[k].idle,
           \A t \in Tasks : /\ g.task[t].mem = h.task[t].mem
                            /\ g.task[t].qid = h.task[t].qid
                            /\ g.task[t].paction = h.task[t].paction
                            /\ g.task[t].inflight = h.task[t].inflight
                            /\ g.task[t].proxy = h.task[t].proxy
    PROVE  Sound(g, x)
<1>1. h \in HeapType
  BY DEF Sound
<1>2. ASSUME NEW k \in Keys PROVE QueueOK(g, k, x)
  <2>1. QueueOK(h, k, x)
    BY DEF Sound
  <2>2. /\ h.queue[k].current \in Tasks \cup {None}
        /\ Range(h.queue[k].tasks) \subseteq Tasks
    BY <1>1, WaitingAreTasks DEF Queue
  <2>3. h.queue[k].current # None => HasEnd(g, k, x)
    <3>1. h.queue[k].current # None => HasEnd(h, k, x)
      BY <2>1 DEF QueueOK
    <3> QED
      BY <3>1, <2>2 DEF HasEnd
  <2>4. h.queue[k].current # None =>
           /\ g.task[h.queue[k].current].mem = "live"
           /\ g.task[h.queue[k].current].qid = k
    BY <2>1, <2>2 DEF QueueOK
  <2>5. \A t \in Range(h.queue[k].tasks) :
           /\ g.task[t].mem = "live" /\ g.task[t].qid = k
           /\ ~g.task[t].paction /\ ~g.task[t].inflight
    BY <2>1, <2>2 DEF QueueOK
  <2>6. /\ g.queue[k].mem = h.queue[k].mem
        /\ g.queue[k].tasks = h.queue[k].tasks
        /\ g.queue[k].current = h.queue[k].current
        /\ g.queue[k].idle = h.queue[k].idle
    OBVIOUS
  <2> QED
    BY <2>1, <2>3, <2>4, <2>5, <2>6 DEF QueueOK
<1>3. ASSUME NEW t \in Tasks PROVE TaskOK(g, t)
  <2>1. TaskOK(h, t)
    BY DEF Sound
  <2> QED
    BY <2>1 DEF TaskOK
<1> QED
  BY <1>2, <1>3 DEF Sound

(* g_idle_add(prv_process_task) on a queue that has a task to take.        *)
LEMMA ScheduleProcessSound ==
    ASSUME NEW h, Sound(h, None), NEW k \in Live(h),
           h.queue[k].tasks # <<>>, h.queue[k].current = None,
           ~h.queue[k].idle,
           NEW s, s = ScheduleProcess(h, k)
    PROVE  /\ Sound(s, None)
           /\ s.queue[k].mem = "live" /\ s.queue[k].current = None
           /\ \A j \in Keys \ {k} : s.queue[j] = h.queue[j]
<1>1. h \in HeapType /\ k \in Keys /\ h.queue[k].mem = "live"
  BY DEF Sound, Live
<1>2. h.queue[k] \in Queue /\ h.sources[k] \in Nat
  BY <1>1 DEF HeapType
<1> DEFINE q == [h.queue[k] EXCEPT !.idle = TRUE]
<1>3. /\ q \in Queue
      /\ q.mem = h.queue[k].mem /\ q.tasks = h.queue[k].tasks
      /\ q.current = h.queue[k].current /\ q.idle
  BY <1>2 DEF Queue
<1> DEFINE qs == [h.queue EXCEPT ![k] = q]
           ss == [h.sources EXCEPT ![k] = h.sources[k] + 1]
<1>4. s = [h EXCEPT !.queue = qs, !.sources = ss]
  BY <1>1 DEF ScheduleProcess, HeapType
<1> HIDE DEF q
<1>5. /\ qs \in [Keys -> Queue] /\ ss \in [Keys -> Nat]
      /\ qs[k] = q /\ ss[k] = h.sources[k] + 1
      /\ \A j \in Keys \ {k} : qs[j] = h.queue[j] /\ ss[j] = h.sources[j]
  BY <1>1, <1>2, <1>3 DEF HeapType
<1> HIDE DEF qs, ss
<1>6. /\ s \in HeapType /\ s.fault = h.fault /\ s.task = h.task
      /\ s.queue = qs /\ s.sources = ss
  BY <1>1, <1>4, <1>5 DEF HeapType
<1>7. ASSUME NEW j \in Keys PROVE QueueOK(s, j, None)
  <2>1. QueueOK(h, j, None)
    BY DEF Sound
  <2>2. CASE j = k
    BY <2>1, <2>2, <1>1, <1>3, <1>5, <1>6 DEF QueueOK, HasEnd
  <2>3. CASE j # k
    BY <2>1, <2>3, <1>5, <1>6 DEF QueueOK, HasEnd
  <2> QED
    BY <2>2, <2>3
<1>8. ASSUME NEW t \in Tasks PROVE TaskOK(s, t)
  <2>1. TaskOK(h, t)
    BY DEF Sound
  <2>2. \A j \in Keys : /\ s.queue[j].mem = h.queue[j].mem
                        /\ s.queue[j].tasks = h.queue[j].tasks
                        /\ s.queue[j].current = h.queue[j].current
    BY <1>3, <1>5, <1>6
  <2> QED
    BY <2>1, <2>2, <1>6 DEF TaskOK
<1> QED
  BY <1>1, <1>3, <1>5, <1>6, <1>7, <1>8 DEF Sound

(* The first half of dleyna_task_queue_task_completed: the queue no longer *)
(* runs a task.                                                            *)
LEMMA EndCurrentSound ==
    ASSUME NEW h, NEW k \in Live(h), Sound(h, k),
           h.queue[k].current # None,
           NEW e, e = EndCurrent(h, k)
    PROVE  /\ Sound(e, None)
           /\ e.queue[k].mem = "live" /\ ~e.queue[k].idle
           /\ e.queue[k].current = None
           /\ e.queue[k].tasks = h.queue[k].tasks
           /\ \A j \in Keys \ {k} : e.queue[j] = h.queue[j]
<1> DEFINE t == h.queue[k].current
           d == DeleteTasks(h, {t})
           q == [h.queue[k] EXCEPT !.current = None]
<1>1. h \in HeapType /\ k \in Keys /\ h.queue[k].mem = "live"
  BY DEF Sound, Live
<1>2. h.queue[k] \in Queue /\ t \in Tasks
  BY <1>1 DEF HeapType, Queue
<1>3. QueueOK(h, k, k)
  BY <1>1 DEF Sound
<1>4. /\ h.task[t].mem = "live" /\ h.task[t].qid = k
      /\ ~h.task[t].paction /\ ~h.task[t].inflight
      /\ t \notin Range(h.queue[k].tasks)
      /\ ~h.queue[k].idle
  BY <1>3 DEF QueueOK, HasEnd
<1>5. /\ q \in Queue /\ q.current = None
      /\ q.mem = h.queue[k].mem /\ q.tasks = h.queue[k].tasks
      /\ q.idle = h.queue[k].idle
  BY <1>2 DEF Queue
<1>6. /\ d \in HeapType
      /\ d.queue = h.queue /\ d.sources = h.sources
      /\ d.running = h.running /\ d.fault = h.fault
      /\ \A u \in Tasks \ {t} : d.task[u] = h.task[u]
      /\ d.task[t].mem = "freed" /\ ~d.task[t].proxy
      /\ d.task[t].qid = h.task[t].qid
      /\ d.task[t].paction = h.task[t].paction
      /\ d.task[t].inflight = h.task[t].inflight
  <2>1. {t} \in SUBSET Tasks /\ \A u \in {t} : h.task[u].mem # "freed"
    BY <1>2, <1>4
  <2> HIDE DEF d, t
  <2> QED
    BY <1>1, <2>1, DeleteTasksEffect DEF d
<1> DEFINE qs == [d.queue EXCEPT ![k] = [d.queue[k] EXCEPT !.current = None]]
           n == Decrement(d.running)
<1>7. n \in 0..MaxUInt
  <2>1. d.running \in 0..MaxUInt /\ MaxUInt \in Nat
    BY <1>6, BoundAssumption DEF HeapType
  <2> QED
    BY <2>1 DEF Decrement
<1>8. e = [d EXCEPT !.queue = qs, !.running = n]
  <2>1. t # None
    OBVIOUS
  <2> HIDE DEF t
  <2> QED
    BY <2>1 DEF EndCurrent, t
<1> HIDE DEF t, d, n
<1>9. /\ qs \in [Keys -> Queue] /\ qs[k] = q
      /\ \A j \in Keys \ {k} : qs[j] = h.queue[j]
  BY <1>1, <1>5, <1>6 DEF HeapType
<1> HIDE DEF q, qs
<1>10. /\ e \in HeapType /\ e.queue = qs
       /\ e.task = d.task /\ e.sources = h.sources /\ e.fault = h.fault
  BY <1>6, <1>7, <1>8, <1>9 DEF HeapType
<1>11. ASSUME NEW j \in Keys PROVE QueueOK(e, j, None)
  <2>1. QueueOK(h, j, k)
    BY DEF Sound
  <2>2. h.queue[j].current \in Tasks \cup {None}
        /\ Range(h.queue[j].tasks) \subseteq Tasks
    BY <1>1, WaitingAreTasks DEF Queue
  <2>3. CASE j = k
    BY <2>1, <2>2, <2>3, <1>1, <1>4, <1>5, <1>6, <1>9, <1>10
       DEF QueueOK
  <2>4. CASE j # k
    <3>1. e.queue[j] = h.queue[j] /\ e.sources[j] = h.sources[j]
      BY <2>4, <1>9, <1>10
    <3>2. \A u \in Tasks : h.task[u].qid = j => e.task[u] = h.task[u]
      BY <2>4, <1>4, <1>6, <1>10
    <3>3. h.queue[j].current # None =>
             /\ e.task[h.queue[j].current] = h.task[h.queue[j].current]
             /\ HasEnd(h, j, k)
      BY <2>1, <2>2, <3>2 DEF QueueOK
    <3>4. j # None
      BY ConstantsAssumption
    <3>5. h.queue[j].current # None => HasEnd(e, j, None)
      BY <2>4, <3>1, <3>3, <3>4, HasEndFrame
    <3>6. \A u \in Range(h.queue[j].tasks) : e.task[u] = h.task[u]
      BY <2>1, <2>2, <3>2 DEF QueueOK
    <3> QED
      BY <2>1, <3>1, <3>3, <3>5, <3>6, QueueFrame
  <2> QED
    BY <2>3, <2>4
<1>12. ASSUME NEW u \in Tasks PROVE TaskOK(e, u)
  <2>1. TaskOK(h, u)
    BY DEF Sound
  <2>2. CASE u = t
    BY <2>2, <1>4, <1>6, <1>10 DEF TaskOK
  <2>3. CASE u # t
    <3>1. e.task[u] = h.task[u]
      BY <2>3, <1>6, <1>10
    <3>2. \A j \in Keys : /\ e.queue[j].mem = h.queue[j].mem
                          /\ e.queue[j].tasks = h.queue[j].tasks
                          /\ h.queue[j].current = u
                                => e.queue[j].current = u
      BY <2>3, <1>5, <1>9, <1>10 DEF t
    <3> QED
      BY <2>1, <3>1, <3>2 DEF TaskOK
  <2> QED
    BY <2>2, <2>3
<1> QED
  BY <1>1, <1>4, <1>5, <1>9, <1>10, <1>11, <1>12 DEF Sound

(* g_idle_add(on_quit_cb) only counts.                                     *)
LEMMA ScheduleOnQuitSound ==
    ASSUME NEW h, NEW x, Sound(h, x), NEW s, s = ScheduleOnQuit(h)
    PROVE  Sound(s, x) /\ s.queue = h.queue
<1>1. h \in HeapType /\ h.fault = "none"
  BY DEF Sound
<1>2. /\ s \in HeapType /\ s.fault = h.fault /\ s.sources = h.sources
      /\ s.queue = h.queue /\ s.task = h.task
  BY <1>1 DEF ScheduleOnQuit, HeapType
<1> QED
  BY <1>1, <1>2, SoundFrame

(* dleyna_task_queue_task_completed.  While the processor is quitting it   *)
(* may free every queue, so no other one may be running or about to.       *)
LEMMA TaskCompletedSound ==
    ASSUME NEW h, NEW k \in Live(h), Sound(h, k),
           h.queue[k].current # None,
           quitting => \A j \in Keys \ {k} :
                          h.queue[j].current = None /\ ~h.queue[j].idle,
           NEW c, c = TaskCompleted(h, k)
    PROVE  /\ Sound(c, None)
           /\ \A j \in Keys \ {k} :
                 \/ c.queue[j] = h.queue[j]
                 \/ quitting /\ c.queue[j].mem = "freed"
           /\ c.queue[k].current = None
           /\ c.queue[k].idle => h.queue[k].tasks # <<>>
<1> DEFINE e == EndCurrent(h, k)
           s == ScheduleOnQuit(e)
<1>1. k \in Keys
  BY DEF Live
<1>2. /\ Sound(e, None)
      /\ e.queue[k].mem = "live" /\ ~e.queue[k].idle
      /\ e.queue[k].current = None
      /\ e.queue[k].tasks = h.queue[k].tasks
      /\ \A j \in Keys \ {k} : e.queue[j] = h.queue[j]
  <2>1. e = EndCurrent(h, k)
    OBVIOUS
  <2> HIDE DEF e
  <2> QED
    BY <2>1, EndCurrentSound
<1>3. k \in Live(e)
  BY <1>1, <1>2 DEF Live
<1>4. c = IF quitting /\ e.running = 0 THEN RemoveAll(s)
          ELSE IF e.queue[k].defer THEN RemoveQueues(e, {k})
          ELSE IF e.queue[k].tasks # <<>> THEN ScheduleProcess(e, k)
          ELSE IF k \in AutoRemove THEN RemoveQueues(e, {k})
          ELSE e
  BY DEF TaskCompleted
<1> HIDE DEF e
<1>5. CASE c = RemoveAll(s) /\ quitting
  <2>1. Sound(s, None) /\ s.queue = e.queue
    <3> HIDE DEF s
    <3> QED
      BY <1>2, ScheduleOnQuitSound DEF s
  <2>2. \A j \in Keys : s.queue[j].current = None /\ ~s.queue[j].idle
    BY <2>1, <1>2, <1>5
  <2>3. c = RemoveQueues(s, Live(s)) /\ Live(s) \subseteq Keys
    BY <1>5 DEF RemoveAll, Live
  <2> HIDE DEF s
  <2>4. /\ Sound(c, None)
        /\ \A j \in Live(s) : c.queue[j] = FreedQueue(s.queue[j])
        /\ \A j \in Keys \ Live(s) : c.queue[j] = s.queue[j]
    BY <2>1, <2>2, <2>3, RemoveQueuesSound
  <2> QED
    BY <2>1, <2>4, <1>1, <1>2, <1>3, <1>5, FreedQueueEffect DEF Live
<1>6. CASE c = RemoveQueues(e, {k})
  <2>1. /\ Sound(c, None) /\ c.queue[k] = FreedQueue(e.queue[k])
        /\ \A j \in Keys \ {k} : c.queue[j] = e.queue[j]
    BY <1>2, <1>3, <1>6, RemoveQueuesSound
  <2> QED
    BY <2>1, <1>2, FreedQueueEffect
<1>7. CASE c = ScheduleProcess(e, k) /\ e.queue[k].tasks # <<>>
  <2>1. /\ Sound(c, None) /\ c.queue[k].current = None
        /\ \A j \in Keys \ {k} : c.queue[j] = e.queue[j]
    BY <1>2, <1>3, <1>7, ScheduleProcessSound
  <2> QED
    BY <2>1, <1>2, <1>7
<1>8. CASE c = e
  BY <1>2, <1>8
<1> QED
  BY <1>4, <1>5, <1>6, <1>7, <1>8

(* task_cancel_cb of waiting tasks, and of the current task of a control   *)
(* point, only marks the tasks.                                            *)
LEMMA MarkCancelledEffect ==
    ASSUME NEW h \in HeapType, NEW T \in SUBSET Tasks,
           NEW m, m = MarkCancelled(h, T)
    PROVE  /\ m \in HeapType
           /\ m.queue = h.queue /\ m.sources = h.sources
           /\ m.fault = h.fault /\ m.running = h.running
           /\ m.onQuit = h.onQuit
           /\ \A t \in T : m.task[t].fate = "cancelled"
           /\ \A t \in Tasks \ T : m.task[t].fate = h.task[t].fate
           /\ \A t \in Tasks : /\ m.task[t].mem = h.task[t].mem
                               /\ m.task[t].qid = h.task[t].qid
                               /\ m.task[t].paction = h.task[t].paction
                               /\ m.task[t].inflight = h.task[t].inflight
                               /\ m.task[t].proxy = h.task[t].proxy
<1> DEFINE new(t) == IF t \in T THEN [h.task[t] EXCEPT !.fate = "cancelled"]
                     ELSE h.task[t]
           tasks == [t \in Tasks |-> new(t)]
<1>1. m = [h EXCEPT !.task = tasks]
  BY DEF MarkCancelled
<1>2. ASSUME NEW t \in Tasks
      PROVE  /\ new(t) \in Task
             /\ new(t).mem = h.task[t].mem
             /\ new(t).qid = h.task[t].qid
             /\ new(t).paction = h.task[t].paction
             /\ new(t).inflight = h.task[t].inflight
             /\ new(t).proxy = h.task[t].proxy
             /\ new(t).fate = IF t \in T THEN "cancelled" ELSE h.task[t].fate
  <2>1. h.task[t] \in Task
    BY DEF HeapType
  <2> QED
    BY <2>1 DEF Task, Fates
<1> HIDE DEF new
<1>3. tasks \in [Tasks -> Task] /\ \A t \in Tasks : tasks[t] = new(t)
  BY <1>2
<1> HIDE DEF tasks
<1>4. /\ m \in HeapType
      /\ m.queue = h.queue /\ m.sources = h.sources
      /\ m.fault = h.fault /\ m.running = h.running
      /\ m.onQuit = h.onQuit
      /\ m.task = tasks
  BY <1>1, <1>3 DEF HeapType
<1> QED
  BY <1>2, <1>3, <1>4

(* The history of cancellations changes nothing that soundness speaks of.  *)
LEMMA MarkCancelledSound ==
    ASSUME NEW h, NEW x, Sound(h, x), NEW T \in SUBSET Tasks,
           NEW m, m = MarkCancelled(h, T)
    PROVE  Sound(m, x) /\ m.queue = h.queue
<1>1. h \in HeapType /\ h.fault = "none"
  BY DEF Sound
<1>2. /\ m \in HeapType
      /\ m.queue = h.queue /\ m.sources = h.sources
      /\ m.fault = h.fault
      /\ \A t \in Tasks : /\ m.task[t].mem = h.task[t].mem
                          /\ m.task[t].qid = h.task[t].qid
                          /\ m.task[t].paction = h.task[t].paction
                          /\ m.task[t].inflight = h.task[t].inflight
                          /\ m.task[t].proxy = h.task[t].proxy
  BY <1>1, MarkCancelledEffect
<1> QED
  BY <1>1, <1>2, SoundFrame

(* prv_cancel_only up to the current task: waiting tasks are cancelled and *)
(* deleted, and the idle source is taken back.                             *)
LEMMA CancelWaitingSound ==
    ASSUME NEW h, NEW x, Sound(h, x), NEW k \in Live(h),
           NEW w, w = CancelWaiting(h, k)
    PROVE  /\ Sound(w, x)
           /\ w.queue[k].mem = "live" /\ w.queue[k].tasks = <<>>
           /\ ~w.queue[k].idle
           /\ w.queue[k].current = h.queue[k].current
           /\ h.queue[k].defer => w.queue[k].defer
           /\ \A j \in Keys \ {k} : w.queue[j] = h.queue[j]
<1> DEFINE R == Range(h.queue[k].tasks)
           m == MarkCancelled(h, R)
           d == DeleteTasks(m, R)
           q == [h.queue[k] EXCEPT !.cancelled = TRUE, !.tasks = <<>>,
                                   !.idle = FALSE]
           n == IF h.queue[k].idle THEN d.sources[k] - 1 ELSE d.sources[k]
           qs == [d.queue EXCEPT ![k] = q]
           ss == [d.sources EXCEPT ![k] = n]
<1>1. w = [d EXCEPT !.queue = qs, !.sources = ss]
  BY DEF CancelWaiting
<1>2. h \in HeapType /\ k \in Keys /\ h.queue[k].mem = "live"
  BY DEF Sound, Live
<1>3. h.queue[k] \in Queue /\ R \subseteq Tasks
  BY <1>2, WaitingAreTasks
<1>4. QueueOK(h, k, x)
  BY <1>2 DEF Sound
<1>5. /\ q \in Queue /\ q.mem = "live" /\ q.tasks = <<>> /\ ~q.idle
      /\ q.current = h.queue[k].current
      /\ h.queue[k].defer => q.defer
  <2>1. << >> \in Seq(Tasks)
    OBVIOUS
  <2> QED
    BY <2>1, <1>2, <1>3 DEF Queue
<1> HIDE DEF q
<1>6. \A t \in R : /\ h.task[t].mem = "live" /\ h.task[t].qid = k
                   /\ ~h.task[t].paction /\ ~h.task[t].inflight
  BY <1>4 DEF QueueOK
<1>7. /\ m \in HeapType
      /\ m.queue = h.queue /\ m.sources = h.sources
      /\ m.fault = h.fault
      /\ \A t \in Tasks : /\ m.task[t].mem = h.task[t].mem
                          /\ m.task[t].qid = h.task[t].qid
                          /\ m.task[t].paction = h.task[t].paction
                          /\ m.task[t].inflight = h.task[t].inflight
                          /\ m.task[t].proxy = h.task[t].proxy
  <2> HIDE DEF R, m
  <2> QED
    BY <1>2, <1>3, MarkCancelledEffect DEF m
<1>8. /\ d \in HeapType
      /\ d.queue = h.queue /\ d.sources = h.sources
      /\ d.fault = h.fault
      /\ \A t \in Tasks \ R : d.task[t] = m.task[t]
      /\ \A t \in R : /\ d.task[t].mem = "freed"
                      /\ ~d.task[t].proxy
                      /\ d.task[t].qid = m.task[t].qid
                      /\ d.task[t].paction = m.task[t].paction
                      /\ d.task[t].inflight = m.task[t].inflight
  <2>1. \A t \in R : m.task[t].mem # "freed"
    BY <1>3, <1>6, <1>7
  <2> HIDE DEF R, m, d
  <2> QED
    BY <1>3, <1>7, <2>1, DeleteTasksEffect DEF d
<1> HIDE DEF R, m, d
<1>9. n = 0
  BY <1>4, <1>8 DEF QueueOK
<1> HIDE DEF n
<1>10. /\ qs \in [Keys -> Queue] /\ ss \in [Keys -> Nat]
       /\ qs[k] = q /\ ss[k] = 0
       /\ \A j \in Keys \ {k} : qs[j] = h.queue[j] /\ ss[j] = h.sources[j]
  BY <1>2, <1>5, <1>8, <1>9 DEF HeapType
<1> HIDE DEF qs, ss
<1>11. /\ w \in HeapType /\ w.queue = qs /\ w.sources = ss
       /\ w.task = d.task /\ w.fault = h.fault
  BY <1>1, <1>8, <1>10 DEF HeapType
<1>12. \A t \in Tasks \ R : /\ w.task[t].mem = h.task[t].mem
                            /\ w.task[t].qid = h.task[t].qid
                            /\ w.task[t].paction = h.task[t].paction
                            /\ w.task[t].inflight = h.task[t].inflight
                            /\ w.task[t].proxy = h.task[t].proxy
  BY <1>7, <1>8, <1>11
<1>13. ASSUME NEW j \in Keys PROVE QueueOK(w, j, x)
  <2>1. QueueOK(h, j, x)
    BY DEF Sound
  <2>2. h.queue[j].current \in Tasks \cup {None}
        /\ Range(h.queue[j].tasks) \subseteq Tasks
    BY <1>2, WaitingAreTasks DEF Queue
  <2>3. CASE j = k
    <3>1. /\ w.queue[j] = q /\ w.sources[j] = 0
          /\ Range(w.queue[j].tasks) = {} /\ DOMAIN w.queue[j].tasks = {}
      BY <2>3, <1>5, <1>10, <1>11 DEF Range
    <3>2. h.queue[k].current # None => h.queue[k].current \in Tasks \ R
      BY <2>1, <2>2, <2>3 DEF QueueOK, R
    <3> QED
      BY <2>1, <2>3, <3>1, <3>2, <1>5, <1>12 DEF QueueOK, HasEnd
  <2>4. CASE j # k
    <3>1. w.queue[j] = h.queue[j] /\ w.sources[j] = h.sources[j]
      BY <2>4, <1>10, <1>11
    <3>2. \A t \in Tasks : h.task[t].qid = j => t \notin R
      BY <2>4, <1>6
    <3>3. \A t \in Tasks : h.task[t].qid = j =>
             /\ w.task[t].mem = h.task[t].mem /\ w.task[t].qid = h.task[t].qid
             /\ w.task[t].paction <=> h.task[t].paction
             /\ w.task[t].inflight <=> h.task[t].inflight
      BY <3>2, <1>12
    <3>4. h.queue[j].current # None =>
             /\ h.task[h.queue[j].current].qid = j /\ HasEnd(h, j, x)
             /\ h.task[h.queue[j].current].mem = "live"
      BY <2>1 DEF QueueOK
    <3>5. h.queue[j].current # None =>
             /\ w.task[h.queue[j].current].mem = "live"
             /\ w.task[h.queue[j].current].qid = j /\ HasEnd(w, j, x)
      BY <2>2, <3>1, <3>3, <3>4 DEF HasEnd
    <3>6. \A u \in Range(h.queue[j].tasks) :
             /\ w.task[u].mem = "live" /\ w.task[u].qid = j
             /\ ~w.task[u].paction /\ ~w.task[u].inflight
      BY <2>1, <2>2, <3>3 DEF QueueOK
    <3> QED
      BY <2>1, <3>1, <3>5, <3>6 DEF QueueOK
  <2> QED
    BY <2>3, <2>4
<1>14. ASSUME NEW t \in Tasks PROVE TaskOK(w, t)
  <2>1. TaskOK(h, t)
    BY DEF Sound
  <2>2. CASE t \in R
    BY <2>2, <1>3, <1>6, <1>7, <1>8, <1>11 DEF TaskOK
  <2>3. CASE t \notin R
    <3>1. \A j \in Keys : /\ w.queue[j].mem = h.queue[j].mem
                          /\ w.queue[j].current = h.queue[j].current
                          /\ t \in Range(h.queue[j].tasks)
                                => t \in Range(w.queue[j].tasks)
      BY <2>3, <1>2, <1>5, <1>10, <1>11 DEF R
    <3>2. /\ w.task[t].mem = h.task[t].mem /\ w.task[t].qid = h.task[t].qid
          /\ w.task[t].paction <=> h.task[t].paction
          /\ w.task[t].inflight <=> h.task[t].inflight
          /\ w.task[t].proxy <=> h.task[t].proxy
      BY <2>3, <1>12
    <3> QED
      BY <2>1, <3>1, <3>2 DEF TaskOK
  <2> QED
    BY <2>2, <2>3
<1>15. w.fault = "none"
  BY <1>11 DEF Sound
<1> QED
  BY <1>5, <1>10, <1>11, <1>13, <1>14, <1>15 DEF Sound

(* The operation of a task does not matter to the other queues.            *)
LEMMA OtherQueueFrame ==
    ASSUME NEW h \in HeapType, NEW g, NEW t, OnlyTask(h, g, t),
           NEW k \in Keys, h.task[t].qid = k, NEW j \in Keys, j # k,
           NEW x \in {k, None}, NEW y \in {k, None}, QueueOK(h, j, x)
    PROVE  QueueOK(g, j, y)
<1>1. h.queue[j].current \in Tasks \cup {None}
      /\ Range(h.queue[j].tasks) \subseteq Tasks
  BY WaitingAreTasks DEF Queue
<1>2. g.queue = h.queue /\ g.sources = h.sources
  BY DEF OnlyTask
<1>3. \A u \in Tasks : h.task[u].qid = j => g.task[u] = h.task[u]
  BY DEF OnlyTask
<1>4. j # x /\ j # y
  BY ConstantsAssumption
<1>5. h.queue[j].current # None =>
         /\ g.task[h.queue[j].current] = h.task[h.queue[j].current]
         /\ HasEnd(h, j, x)
  BY <1>1, <1>3 DEF QueueOK
<1>6. h.queue[j].current # None => HasEnd(g, j, y)
  BY <1>2, <1>4, <1>5, HasEndFrame
<1>7. \A u \in Range(h.queue[j].tasks) : g.task[u] = h.task[u]
  BY <1>1, <1>3 DEF QueueOK
<1> QED
  BY <1>2, <1>5, <1>6, <1>7, QueueFrame

(* The queue of a current task whose operation begins or ends.             *)
LEMMA OwnQueueFrame ==
    ASSUME NEW h \in HeapType, NEW g, NEW t, OnlyTask(h, g, t),
           NEW k \in Keys, t = h.queue[k].current, t # None,
           NEW x, QueueOK(h, k, x), NEW y, HasEnd(g, k, y)
    PROVE  QueueOK(g, k, y)
<1>1. g.queue = h.queue /\ g.sources = h.sources
  BY DEF OnlyTask
<1>2. Range(h.queue[k].tasks) \subseteq Tasks
  BY WaitingAreTasks DEF Queue
<1>3. t \notin Range(h.queue[k].tasks)
  BY DEF QueueOK
<1>4. \A u \in Range(h.queue[k].tasks) : g.task[u] = h.task[u]
  BY <1>2, <1>3 DEF OnlyTask
<1>5. g.task[t].mem = h.task[t].mem /\ g.task[t].qid = h.task[t].qid
  BY DEF OnlyTask
<1> QED
  BY <1>1, <1>4, <1>5 DEF QueueOK

(* The operation of a current task ends: its queue is being completed.     *)
LEMMA EndOperationSound ==
    ASSUME NEW h, NEW g, NEW k \in Keys, NEW x \in {k, None}, Sound(h, x),
           NEW t, t = h.queue[k].current, t # None,
           OnlyTask(h, g, t), ~g.task[t].paction, ~g.task[t].inflight
    PROVE  Sound(g, k)
<1>1. h \in HeapType /\ h.fault = "none" /\ QueueOK(h, k, x)
  BY DEF Sound
<1>2. h.task[t].mem = "live" /\ h.task[t].qid = k
  BY <1>1 DEF QueueOK
<1>3. g \in HeapType /\ g.queue = h.queue /\ g.fault = "none"
  BY <1>1 DEF OnlyTask
<1>4. ASSUME NEW j \in Keys PROVE QueueOK(g, j, k)
  <2>1. QueueOK(h, j, x)
    BY DEF Sound
  <2>2. HasEnd(g, k, k)
    BY <1>3 DEF HasEnd
  <2>3. CASE j = k
    BY <2>2, <2>3, <1>1, OwnQueueFrame
  <2>4. CASE j # k
    BY <2>1, <2>4, <1>1, <1>2, OtherQueueFrame
  <2> QED
    BY <2>3, <2>4
<1>5. ASSUME NEW u \in Tasks PROVE TaskOK(g, u)
  <2>1. TaskOK(h, u)
    BY DEF Sound
  <2>2. CASE u = t
    BY <2>1, <2>2, <1>2, <1>3 DEF TaskOK, OnlyTask
  <2>3. CASE u # t
    BY <2>1, <2>3, <1>3 DEF TaskOK, OnlyTask
  <2> QED
    BY <2>2, <2>3
<1> QED
  BY <1>3, <1>4, <1>5 DEF Sound

(* The current task gets the operation that will end it.                   *)
LEMMA BeginOperationSound ==
    ASSUME NEW h, NEW g, NEW k \in Keys, Sound(h, k),
           NEW t, t = h.queue[k].current, t # None,
           OnlyTask(h, g, t), g.task[t].inflight,
           k \in Service => g.task[t].paction /\ g.task[t].proxy,
           k \notin Service => ~g.task[t].paction
    PROVE  Sound(g, None)
<1>1. h \in HeapType /\ h.fault = "none" /\ QueueOK(h, k, k)
  BY DEF Sound
<1>2. h.task[t].mem = "live" /\ h.task[t].qid = k
  BY <1>1 DEF QueueOK
<1>3. g \in HeapType /\ g.queue = h.queue /\ g.fault = "none"
  BY <1>1 DEF OnlyTask
<1>4. ASSUME NEW j \in Keys PROVE QueueOK(g, j, None)
  <2>1. QueueOK(h, j, k)
    BY DEF Sound
  <2>2. HasEnd(g, k, None)
    BY <1>3, ConstantsAssumption DEF HasEnd
  <2>3. CASE j = k
    BY <2>2, <2>3, <1>1, OwnQueueFrame
  <2>4. CASE j # k
    BY <2>1, <2>4, <1>1, <1>2, OtherQueueFrame
  <2> QED
    BY <2>3, <2>4
<1>5. ASSUME NEW u \in Tasks PROVE TaskOK(g, u)
  <2>1. TaskOK(h, u)
    BY DEF Sound
  <2>2. CASE u = t
    BY <2>1, <2>2, <1>2, <1>3 DEF TaskOK, OnlyTask
  <2>3. CASE u # t
    BY <2>1, <2>3, <1>3 DEF TaskOK, OnlyTask
  <2> QED
    BY <2>2, <2>3
<1> QED
  BY <1>3, <1>4, <1>5 DEF Sound

(* dleyna_service_task_cancel_cb on a task whose action is in flight takes *)
(* the action from it and completes it.                                    *)
LEMMA ServiceTaskCancelEffect ==
    ASSUME NEW h, Sound(h, None), NEW k \in Live(h), k \in Service,
           NEW t, t = h.queue[k].current, t # None,
           NEW c, c = ServiceTaskCancel(h, t)
    PROVE  \E g : /\ OnlyTask(h, g, t) /\ Sound(g, k)
                  /\ c = TaskCompleted(g, k)
<1>1. h \in HeapType /\ k \in Keys /\ h.queue[k].mem = "live"
  BY DEF Sound, Live
<1>2. QueueOK(h, k, None)
  BY <1>1 DEF Sound
<1>3. t \in Tasks /\ h.task[t] \in Task
  BY <1>1 DEF HeapType, Queue
<1>4. TaskOK(h, t)
  BY <1>3 DEF Sound
<1>5. h.task[t].qid = k /\ h.task[t].paction
  BY <1>1, <1>2, ConstantsAssumption DEF QueueOK, HasEnd
<1>6. h.task[t].inflight => h.task[t].proxy
  BY <1>4, <1>5 DEF TaskOK
<1> DEFINE i == IF h.task[t].proxy THEN FALSE ELSE h.task[t].inflight
           a == [h.task[t] EXCEPT !.paction = FALSE, !.inflight = i]
           ts == [h.task EXCEPT ![t] = a]
           g == [h EXCEPT !.task = ts]
<1>7. i = FALSE
  BY <1>3, <1>6 DEF Task
<1>8. c = TaskCompleted([h EXCEPT !.task[t] = a], k)
  BY <1>5 DEF ServiceTaskCancel
<1>9. c = TaskCompleted(g, k)
  BY <1>8
<1> HIDE DEF i
<1>10. /\ a \in Task /\ a.mem = h.task[t].mem /\ a.qid = h.task[t].qid
       /\ a.fate = h.task[t].fate
       /\ ~a.paction /\ ~a.inflight /\ (a.proxy <=> h.task[t].proxy)
  BY <1>3, <1>7 DEF Task
<1> HIDE DEF a
<1>11. /\ ts \in [Tasks -> Task] /\ ts[t] = a
       /\ \A u \in Tasks : u # t => ts[u] = h.task[u]
  BY <1>1, <1>3, <1>10 DEF HeapType
<1> HIDE DEF ts
<1>12. /\ g \in HeapType /\ g.task = ts /\ g.queue = h.queue
       /\ g.sources = h.sources /\ g.fault = h.fault
       /\ g.running = h.running /\ g.onQuit = h.onQuit
  BY <1>1, <1>11 DEF HeapType
<1> HIDE DEF g
<1>13. OnlyTask(h, g, t)
  BY <1>10, <1>11, <1>12 DEF OnlyTask
<1>14. Sound(g, k)
  <2>1. ~g.task[t].paction /\ ~g.task[t].inflight
    BY <1>10, <1>11, <1>12
  <2> QED
    BY <2>1, <1>1, <1>13, EndOperationSound
<1> QED
  BY <1>9, <1>13, <1>14

(* It keeps the heap sound and leaves the queue without a current task.    *)
LEMMA ServiceTaskCancelSound ==
    ASSUME NEW h, Sound(h, None), NEW k \in Live(h), k \in Service,
           NEW t, t = h.queue[k].current, t # None,
           quitting => \A j \in Keys \ {k} :
                          h.queue[j].current = None /\ ~h.queue[j].idle,
           NEW c, c = ServiceTaskCancel(h, t)
    PROVE  /\ Sound(c, None)
           /\ \A j \in Keys \ {k} :
                 \/ c.queue[j] = h.queue[j]
                 \/ quitting /\ c.queue[j].mem = "freed"
           /\ c.queue[k].current = None
           /\ c.queue[k].idle => h.queue[k].tasks # <<>>
<1>1. PICK g : /\ OnlyTask(h, g, t) /\ Sound(g, k)
               /\ c = TaskCompleted(g, k)
  BY ServiceTaskCancelEffect
<1>2. g.queue = h.queue
  BY <1>1 DEF OnlyTask
<1>3. /\ k \in Live(g) /\ g.queue[k].current # None
      /\ quitting => \A j \in Keys \ {k} :
                        g.queue[j].current = None /\ ~g.queue[j].idle
  BY <1>2 DEF Live
<1>4. /\ Sound(c, None)
      /\ \A j \in Keys \ {k} :
            \/ c.queue[j] = g.queue[j]
            \/ quitting /\ c.queue[j].mem = "freed"
      /\ c.queue[k].current = None
      /\ c.queue[k].idle => g.queue[k].tasks # <<>>
  BY <1>1, <1>3, TaskCompletedSound
<1> QED
  BY <1>2, <1>4

(* prv_cancel_only between two events.  Only the queues of service tasks   *)
(* complete their current task on the spot.                                *)
LEMMA CancelOnlySound ==
    ASSUME NEW h, Sound(h, None), NEW k \in Live(h),
           quitting /\ h.queue[k].current # None =>
              \A j \in Keys \ {k} :
                 h.queue[j].current = None /\ ~h.queue[j].idle,
           NEW c, c = CancelOnly(h, k)
    PROVE  /\ Sound(c, None)
           /\ \A j \in Keys \ {k} :
                 \/ c.queue[j] = h.queue[j]
                 \/ /\ quitting /\ h.queue[k].current # None
                    /\ c.queue[j].mem = "freed"
           /\ \/ h.queue[k].cancelled /\ c = h
              \/ /\ ~h.queue[k].cancelled /\ ~c.queue[k].idle
                 /\ IF k \in Service THEN c.queue[k].current = None
                    ELSE c.queue[k].current = h.queue[k].current
                 /\ k \notin Service \/ h.queue[k].current = None
                       => c.queue[k].mem = "live"
                 /\ k \notin Service /\ h.queue[k].defer
                       => c.queue[k].defer
<1>1. h \in HeapType /\ k \in Keys
  BY DEF Sound, Live
<1>2. CASE h.queue[k].cancelled
  BY <1>2 DEF CancelOnly
<1>3. CASE ~h.queue[k].cancelled
  <2> DEFINE w == CancelWaiting(h, k)
  <2>1. /\ Sound(w, None)
        /\ w.queue[k].mem = "live" /\ w.queue[k].tasks = <<>>
        /\ ~w.queue[k].idle
        /\ w.queue[k].current = h.queue[k].current
        /\ h.queue[k].defer => w.queue[k].defer
        /\ \A j \in Keys \ {k} : w.queue[j] = h.queue[j]
    <3> HIDE DEF w
    <3> QED
      BY CancelWaitingSound DEF w
  <2>2. CASE h.queue[k].current = None
    BY <2>1, <2>2, <1>3 DEF CancelOnly
  <2>3. CASE h.queue[k].current # None
    <3> DEFINE t == w.queue[k].current
               m == MarkCancelled(w, {t})
    <3>1. c = IF k \in Service THEN ServiceTaskCancel(m, t) ELSE m
      BY <2>3, <1>3 DEF CancelOnly, CancelCurrent
    <3> HIDE DEF w
    <3>2. t \in Tasks
      BY <2>1, <2>3, <1>1 DEF HeapType, Queue
    <3>3. Sound(m, None) /\ m.queue = w.queue
      <4> HIDE DEF t, m
      <4> QED
        BY <2>1, <3>2, MarkCancelledSound DEF m
    <3> HIDE DEF m
    <3>4. CASE k \in Service
      <4>1. /\ k \in Live(m) /\ t = m.queue[k].current /\ t # None
            /\ quitting => \A j \in Keys \ {k} :
                              m.queue[j].current = None /\ ~m.queue[j].idle
        BY <2>1, <2>3, <3>3, <1>1 DEF Live
      <4>2. c = ServiceTaskCancel(m, t)
        BY <3>1, <3>4
      <4> HIDE DEF t
      <4>3. /\ Sound(c, None)
            /\ \A j \in Keys \ {k} :
                  \/ c.queue[j] = m.queue[j]
                  \/ quitting /\ c.queue[j].mem = "freed"
            /\ c.queue[k].current = None
            /\ c.queue[k].idle => m.queue[k].tasks # <<>>
        BY <3>3, <3>4, <4>1, <4>2, ServiceTaskCancelSound
      <4> QED
        BY <2>1, <2>3, <3>3, <3>4, <4>3, <1>3
    <3>5. CASE k \notin Service
      BY <2>1, <2>3, <3>1, <3>3, <3>5, <1>3
    <3> QED
      BY <3>4, <3>5
  <2> QED
    BY <2>2, <2>3
<1> QED
  BY <1>2, <1>3

(* prv_cancel between two events.                                          *)
LEMMA CancelSound ==
    ASSUME NEW h, Sound(h, None), NEW k \in Live(h),
           quitting /\ h.queue[k].current # None =>
              \A j \in Keys \ {k} :
                 h.queue[j].current = None /\ ~h.queue[j].idle,
           NEW c, c = Cancel(h, k)
    PROVE  /\ Sound(c, None)
           /\ \A j \in Keys \ {k} :
                 \/ c.queue[j] = h.queue[j]
                 \/ quitting /\ c.queue[j].mem = "freed"
           /\ \/ h.queue[k].cancelled /\ c = h
              \/ /\ ~h.queue[k].cancelled /\ ~c.queue[k].idle
                 /\ IF k \in Service THEN c.queue[k].current = None
                    ELSE c.queue[k].current = h.queue[k].current
                 /\ k \notin Service \cup AutoRemove =>
                       /\ c.queue[k].mem = "live"
                       /\ h.queue[k].defer => c.queue[k].defer
<1> DEFINE o == CancelOnly(h, k)
<1>1. /\ Sound(o, None)
      /\ \A j \in Keys \ {k} :
            \/ o.queue[j] = h.queue[j]
            \/ /\ quitting /\ h.queue[k].current # None
               /\ o.queue[j].mem = "freed"
      /\ \/ h.queue[k].cancelled /\ o = h
         \/ /\ ~h.queue[k].cancelled /\ ~o.queue[k].idle
            /\ IF k \in Service THEN o.queue[k].current = None
               ELSE o.queue[k].current = h.queue[k].current
            /\ k \notin Service \/ h.queue[k].current = None
                  => o.queue[k].mem = "live"
            /\ k \notin Service /\ h.queue[k].defer => o.queue[k].defer
  <2>1. o = CancelOnly(h, k)
    OBVIOUS
  <2> HIDE DEF o
  <2> QED
    BY <2>1, CancelOnlySound
<1>2. c = IF CancelRemoves(h, k) THEN RemoveQueues(o, {k}) ELSE o
  BY DEF Cancel
<1> HIDE DEF o
<1>3. CASE CancelRemoves(h, k)
  <2>1. /\ ~h.queue[k].cancelled /\ h.queue[k].current = None
        /\ k \in AutoRemove
    BY <1>3 DEF CancelRemoves
  <2>2. /\ k \in Live(o) /\ o.queue[k].current = None /\ ~o.queue[k].idle
    BY <2>1, <1>1 DEF Live
  <2>3. /\ Sound(c, None) /\ c.queue[k] = FreedQueue(o.queue[k])
        /\ \A j \in Keys \ {k} : c.queue[j] = o.queue[j]
    <3>1. c = RemoveQueues(o, {k})
      BY <1>2, <1>3
    <3> QED
      BY <2>2, <3>1, <1>1, RemoveQueuesSound
  <2> QED
    BY <2>1, <2>3, <1>1, FreedQueueEffect
<1>4. CASE ~CancelRemoves(h, k)
  BY <1>1, <1>2, <1>4
<1> QED
  BY <1>3, <1>4

(* From h to d nothing changes but the defer_remove flag of queue k.       *)
OnlyDefer(h, d, k) ==
    /\ Sound(d, None) /\ d.task = h.task
    /\ d.running = h.running /\ d.onQuit = h.onQuit
    /\ \A j \in Keys \ {k} : d.queue[j] = h.queue[j]
    /\ d.queue[k].mem = h.queue[k].mem /\ d.queue[k].told = h.queue[k].told
    /\ d.queue[k].tasks = h.queue[k].tasks
    /\ d.queue[k].current = h.queue[k].current
    /\ d.queue[k].cancelled <=> h.queue[k].cancelled

(* prv_free_queue_for_source and _for_sink on a queue of a client that is  *)
(* not taken for cancelled: defer_remove is read from a live queue, and    *)
(* the queue is removed if it runs nothing.                                *)
LEMMA FreeQueueForEffect ==
    ASSUME NEW h, Sound(h, None), NEW k \in Live(h), ~quitting,
           k \notin Service \cup AutoRemove,
           ~(h.queue[k].cancelled /\ h.queue[k].idle),
           NEW f, f = FreeQueueFor(h, k)
    PROVE  \E d, c :
              /\ OnlyDefer(h, d, k) /\ c = Cancel(d, k)
              /\ Sound(c, None) /\ k \in Live(c)
              /\ \A j \in Keys \ {k} : c.queue[j] = h.queue[j]
              /\ \/ f = c
                 \/ /\ f = RemoveQueues(c, {k})
                    /\ c.queue[k].current = None /\ ~c.queue[k].idle
<1> DEFINE busy == h.queue[k].current # None
           q == [h.queue[k] EXCEPT !.defer = busy]
           qs == [h.queue EXCEPT ![k] = q]
           d == [h EXCEPT !.queue = qs]
           c == Cancel(d, k)
<1>1. h \in HeapType /\ h.fault = "none" /\ k \in Keys
      /\ h.queue[k] \in Queue /\ h.queue[k].mem = "live"
  BY DEF Sound, Live, HeapType
<1>2. /\ q \in Queue /\ q.mem = h.queue[k].mem /\ q.tasks = h.queue[k].tasks
      /\ q.current = h.queue[k].current /\ q.idle = h.queue[k].idle
      /\ q.cancelled <=> h.queue[k].cancelled
      /\ q.told = h.queue[k].told
      /\ q.defer <=> h.queue[k].current # None
  BY <1>1 DEF Queue
<1>3. d = [h EXCEPT !.queue[k].defer = busy]
  BY <1>1 DEF HeapType
<1>4. f = IF k \notin Live(c) THEN Fail(c, "read_of_freed_queue")
          ELSE IF c.queue[k].defer THEN c
          ELSE RemoveQueues(c, {k})
  BY <1>3 DEF FreeQueueFor
<1> HIDE DEF q
<1>5. /\ qs \in [Keys -> Queue] /\ qs[k] = q
      /\ \A j \in Keys \ {k} : qs[j] = h.queue[j]
  BY <1>1, <1>2 DEF HeapType
<1> HIDE DEF qs, c
<1>6. /\ d \in HeapType /\ d.queue = qs /\ d.task = h.task
      /\ d.sources = h.sources /\ d.fault = h.fault
      /\ d.running = h.running /\ d.onQuit = h.onQuit
  BY <1>1, <1>5 DEF HeapType
<1>7. Sound(d, None)
  <2> HIDE DEF d
  <2>1. \A j \in Keys : /\ d.queue[j].mem = h.queue[j].mem
                        /\ d.queue[j].tasks = h.queue[j].tasks
                        /\ d.queue[j].current = h.queue[j].current
                        /\ d.queue[j].idle = h.queue[j].idle
    BY <1>2, <1>5, <1>6
  <2> QED
    BY <2>1, <1>1, <1>6, SoundFrame
<1> HIDE DEF d
<1>8. /\ Sound(c, None)
      /\ \A j \in Keys \ {k} : c.queue[j] = d.queue[j]
      /\ \/ d.queue[k].cancelled /\ c = d
         \/ /\ ~d.queue[k].cancelled /\ ~c.queue[k].idle
            /\ c.queue[k].current = d.queue[k].current
            /\ c.queue[k].mem = "live"
            /\ d.queue[k].defer => c.queue[k].defer
  <2>1. k \in Live(d)
    BY <1>1, <1>2, <1>5, <1>6 DEF Live
  <2>2. c = Cancel(d, k)
    BY DEF c
  <2> QED
    BY <1>7, <2>1, <2>2, CancelSound
<1>9. k \in Live(c)
  BY <1>1, <1>2, <1>5, <1>6, <1>8 DEF Live
<1>10. OnlyDefer(h, d, k)
  BY <1>2, <1>5, <1>6, <1>7 DEF OnlyDefer
<1>11. \/ f = c
       \/ /\ f = RemoveQueues(c, {k})
          /\ c.queue[k].current = None /\ ~c.queue[k].idle
  BY <1>2, <1>4, <1>5, <1>6, <1>8, <1>9
<1>12. c = Cancel(d, k)
  BY DEF c
<1>13. \A j \in Keys \ {k} : c.queue[j] = h.queue[j]
  BY <1>5, <1>6, <1>8
<1> QED
  BY <1>8, <1>9, <1>10, <1>11, <1>12, <1>13

LEMMA FreeQueueForSound ==
    ASSUME NEW h, Sound(h, None), NEW k \in Live(h), ~quitting,
           k \notin Service \cup AutoRemove,
           ~(h.queue[k].cancelled /\ h.queue[k].idle),
           NEW f, f = FreeQueueFor(h, k)
    PROVE  /\ Sound(f, None)
           /\ \A j \in Keys \ {k} : f.queue[j] = h.queue[j]
<1>1. PICK d, c : /\ Sound(c, None) /\ k \in Live(c)
                  /\ \A j \in Keys \ {k} : c.queue[j] = h.queue[j]
                  /\ \/ f = c
                     \/ /\ f = RemoveQueues(c, {k})
                        /\ c.queue[k].current = None /\ ~c.queue[k].idle
  BY FreeQueueForEffect
<1>2. CASE f = c
  BY <1>1, <1>2
<1>3. CASE f # c
  <2>1. /\ {k} \in SUBSET Live(c) /\ f = RemoveQueues(c, {k})
        /\ \A j \in {k} : c.queue[j].current = None /\ ~c.queue[j].idle
    BY <1>1, <1>3
  <2> QED
    BY <2>1, <1>1, RemoveQueuesSound
<1> QED
  BY <1>2, <1>3

(* prv_cancel on a queue of service tasks in the middle of a completion:   *)
(* the current task has no action left to cancel.                          *)
LEMMA CancelEndingSound ==
    ASSUME NEW h, NEW k \in Live(h), Sound(h, k), k \in Service,
           h.queue[k].current # None,
           NEW c, c = Cancel(h, k)
    PROVE  /\ Sound(c, k)
           /\ c.queue[k].mem = "live"
           /\ c.queue[k].current = h.queue[k].current
           /\ \A j \in Keys \ {k} : c.queue[j] = h.queue[j]
<1>1. h \in HeapType /\ k \in Keys /\ h.queue[k].mem = "live"
  BY DEF Sound, Live
<1>2. c = CancelOnly(h, k)
  BY DEF Cancel, CancelRemoves
<1>3. CASE h.queue[k].cancelled
  BY <1>1, <1>2, <1>3 DEF CancelOnly
<1>4. CASE ~h.queue[k].cancelled
  <2> DEFINE w == CancelWaiting(h, k)
             t == w.queue[k].current
             m == MarkCancelled(w, {t})
  <2>1. c = ServiceTaskCancel(m, t)
    BY <1>2, <1>4 DEF CancelOnly, CancelCurrent
  <2>2. /\ Sound(w, k)
        /\ w.queue[k].mem = "live"
        /\ w.queue[k].current = h.queue[k].current
        /\ \A j \in Keys \ {k} : w.queue[j] = h.queue[j]
    <3> HIDE DEF w
    <3> QED
      BY CancelWaitingSound DEF w
  <2> HIDE DEF w
  <2>3. t \in Tasks
    BY <2>2, <1>1 DEF HeapType, Queue
  <2>4. Sound(m, k) /\ m.queue = w.queue
    <3> HIDE DEF t, m
    <3> QED
      BY <2>2, <2>3, MarkCancelledSound DEF m
  <2> HIDE DEF m
  <2>5. ~m.task[t].paction
    <3>1. QueueOK(m, k, k)
      BY <2>4, <1>1 DEF Sound
    <3> QED
      BY <3>1, <2>2, <2>4 DEF QueueOK, HasEnd
  <2>6. c = m
    BY <2>1, <2>5 DEF ServiceTaskCancel
  <2> HIDE DEF t
  <2> QED
    BY <2>2, <2>4, <2>6
<1> QED
  BY <1>3, <1>4

(* Taking the first element of a queue in which no task occurs twice.      *)
LEMMA HeadAndTail ==
    ASSUME NEW s \in Seq(Tasks), s # <<>>,
           \A i, j \in DOMAIN s : s[i] = s[j] => i = j
    PROVE  /\ Head(s) \in Tasks /\ Tail(s) \in Seq(Tasks)
           /\ Head(s) \in Range(s) /\ Head(s) \notin Range(Tail(s))
           /\ Range(Tail(s)) \subseteq Range(s)
           /\ \A t \in Range(s) : t = Head(s) \/ t \in Range(Tail(s))
           /\ \A i, j \in DOMAIN Tail(s) : Tail(s)[i] = Tail(s)[j] => i = j
<1>1. /\ Len(s) \in Nat /\ Len(s) > 0 /\ DOMAIN s = 1..Len(s)
      /\ Head(s) = s[1] /\ Head(s) \in Tasks
      /\ Tail(s) \in Seq(Tasks)
      /\ DOMAIN Tail(s) = 1..(Len(s) - 1)
      /\ \A i \in 1..(Len(s) - 1) : Tail(s)[i] = s[i + 1]
  OBVIOUS
<1>2. Head(s) \in Range(s) /\ Range(Tail(s)) \subseteq Range(s)
  BY <1>1 DEF Range
<1>3. Head(s) \notin Range(Tail(s))
  BY <1>1 DEF Range
<1>4. ASSUME NEW t \in Range(s), t # Head(s) PROVE t \in Range(Tail(s))
  <2>1. PICK i \in 1..Len(s) : t = s[i]
    BY <1>1 DEF Range
  <2>2. i - 1 \in 1..(Len(s) - 1) /\ t = Tail(s)[i - 1]
    BY <2>1, <1>1, <1>4
  <2> QED
    BY <2>2, <1>1 DEF Range
<1>5. \A i, j \in DOMAIN Tail(s) : Tail(s)[i] = Tail(s)[j] => i = j
  BY <1>1
<1> QED
  BY <1>1, <1>2, <1>3, <1>4, <1>5

(* prv_process_task up to task_process_cb: the queue has a current task,   *)
(* and nothing yet that will end it.  The main loop dropped the source     *)
(* before, which leads from h to g.                                        *)
LEMMA TakeNextSound ==
    ASSUME NEW h, Sound(h, None), NEW k \in Keys, h.queue[k].idle,
           NEW g, OnlySource(h, g, k), NEW n, n = TakeNext(g, k)
    PROVE  Took(h, n, k)
<1> USE DEF OnlySource
<1> DEFINE old == g.queue[k]
           t == Head(old.tasks)
           q == [old EXCEPT !.cancelled = FALSE, !.idle = FALSE,
                            !.current = t, !.tasks = Tail(old.tasks)]
           a == [g.task[t] EXCEPT !.fate = "started"]
           qs == [g.queue EXCEPT ![k] = q]
           ts == [g.task EXCEPT ![t] = a]
           up == Increment(g.running)
<1>1. n = [g EXCEPT !.queue = qs, !.task = ts, !.running = up]
  BY DEF TakeNext
<1>2. h \in HeapType /\ g.fault = "none" /\ old \in Queue /\ QueueOK(h, k, None)
  BY DEF Sound, HeapType
<1>3. /\ old.idle /\ old.mem = "live" /\ old.current = None
      /\ old.tasks # <<>> /\ g.sources[k] = 0
  BY <1>2 DEF QueueOK
<1>4. /\ old.tasks \in Seq(Tasks)
      /\ \A i, j \in DOMAIN old.tasks : old.tasks[i] = old.tasks[j] => i = j
  BY <1>2 DEF QueueOK, Queue
<1>5. /\ t \in Tasks /\ Tail(old.tasks) \in Seq(Tasks)
      /\ t \in Range(old.tasks) /\ t \notin Range(Tail(old.tasks))
      /\ Range(Tail(old.tasks)) \subseteq Range(old.tasks)
      /\ \A u \in Range(old.tasks) : u = t \/ u \in Range(Tail(old.tasks))
      /\ \A i, j \in DOMAIN Tail(old.tasks) :
            Tail(old.tasks)[i] = Tail(old.tasks)[j] => i = j
  <2> HIDE DEF old
  <2> QED
    BY <1>3, <1>4, HeadAndTail DEF old
<1>6. \A u \in Range(old.tasks) :
         /\ g.task[u].mem = "live" /\ g.task[u].qid = k
         /\ ~g.task[u].paction /\ ~g.task[u].inflight
  <2>1. \A u \in Range(h.queue[k].tasks) :
           /\ h.task[u].mem = "live" /\ h.task[u].qid = k
           /\ ~h.task[u].paction /\ ~h.task[u].inflight
    BY <1>2 DEF QueueOK
  <2>2. old = h.queue[k]
    OBVIOUS
  <2> HIDE DEF old
  <2> QED
    BY <2>1, <2>2
<1>7. /\ q \in Queue /\ q.mem = "live" /\ q.current = t
      /\ q.tasks = Tail(old.tasks) /\ ~q.idle /\ ~q.cancelled
      /\ q.told = old.told /\ (q.defer <=> old.defer)
  BY <1>2, <1>3, <1>5 DEF Queue
<1>8. /\ a \in Task /\ a.mem = "live" /\ a.qid = k
      /\ ~a.paction /\ ~a.inflight /\ (a.proxy <=> g.task[t].proxy)
      /\ a.fate = "started"
  <2>1. g.task[t] \in Task
    BY <1>5 DEF HeapType
  <2> QED
    BY <2>1, <1>5, <1>6 DEF Task, Fates
<1>9. up \in 0..MaxUInt
  <2>1. g.running \in 0..MaxUInt /\ MaxUInt \in Nat
    BY BoundAssumption DEF HeapType
  <2> QED
    BY <2>1 DEF Increment
<1> HIDE DEF q, a, up, t
<1>10. /\ qs \in [Keys -> Queue] /\ qs[k] = q
       /\ \A j \in Keys \ {k} : qs[j] = g.queue[j]
  BY <1>7 DEF HeapType
<1>11. /\ ts \in [Tasks -> Task] /\ ts[t] = a
       /\ \A u \in Tasks \ {t} : ts[u] = g.task[u]
  BY <1>5, <1>8 DEF HeapType
<1> HIDE DEF qs, ts
<1>12. /\ n \in HeapType /\ n.queue = qs /\ n.task = ts
       /\ n.sources = g.sources /\ n.fault = "none"
       /\ n.running = up /\ n.onQuit = g.onQuit
  BY <1>1, <1>2, <1>9, <1>10, <1>11 DEF HeapType
<1>13. n.queue[k] = q /\ n.sources[k] = 0 /\ n.task[t] = a
  BY <1>3, <1>10, <1>11, <1>12
<1>14. \A j \in Keys \ {k} : /\ n.queue[j] = h.queue[j]
                             /\ n.sources[j] = h.sources[j]
  BY <1>10, <1>12
<1>15. \A u \in Tasks \ {t} : n.task[u] = h.task[u]
  BY <1>11, <1>12
<1>16. QueueOK(n, k, k)
  <2>1. \A u \in Range(q.tasks) : /\ n.task[u].mem = "live"
                                  /\ n.task[u].qid = k
                                  /\ ~n.task[u].paction /\ ~n.task[u].inflight
    <3>1. Range(old.tasks) \subseteq Tasks
      BY <1>4 DEF Range
    <3> HIDE DEF old
    <3> QED
      BY <3>1, <1>5, <1>6, <1>7, <1>15
  <2> HIDE DEF old
  <2> QED
    <3>1. /\ q.tasks # <<>> \/ ~q.idle
          /\ q.current \notin Range(q.tasks)
          /\ \A i, j \in DOMAIN q.tasks : q.tasks[i] = q.tasks[j] => i = j
      BY <1>5, <1>7
    <3>2. HasEnd(n, k, k)
      BY <1>7, <1>8, <1>13 DEF HasEnd
    <3>3. /\ n.task[q.current].mem = "live" /\ n.task[q.current].qid = k
      BY <1>7, <1>8, <1>13
    <3>4. n.queue[k] = q /\ n.sources[k] = 0 /\ q.mem = "live" /\ ~q.idle
      BY <1>7, <1>13
    <3> QED
      BY <2>1, <3>1, <3>2, <3>3, <3>4 DEF QueueOK
<1>17. ASSUME NEW j \in Keys, j # k PROVE QueueOK(n, j, k)
  <2>1. QueueOK(h, j, None)
    BY DEF Sound
  <2>2. h.queue[j].current \in Tasks \cup {None}
        /\ Range(h.queue[j].tasks) \subseteq Tasks
    BY <1>2, WaitingAreTasks DEF Queue
  <2>3. n.queue[j] = h.queue[j] /\ n.sources[j] = h.sources[j]
    BY <1>14, <1>17
  <2>4. \A u \in Tasks : h.task[u].qid = j => n.task[u] = h.task[u]
    BY <1>5, <1>6, <1>15, <1>17
  <2>5. h.queue[j].current # None =>
           /\ n.task[h.queue[j].current] = h.task[h.queue[j].current]
           /\ HasEnd(h, j, None)
    BY <2>1, <2>2, <2>4 DEF QueueOK
  <2>6. j # None
    BY ConstantsAssumption
  <2>7. h.queue[j].current # None => HasEnd(n, j, k)
    BY <2>3, <2>5, <2>6, <1>17, HasEndFrame
  <2>8. \A u \in Range(h.queue[j].tasks) : n.task[u] = h.task[u]
    BY <2>1, <2>2, <2>4 DEF QueueOK
  <2> QED
    BY <2>1, <2>3, <2>5, <2>7, <2>8, QueueFrame
<1>18. ASSUME NEW u \in Tasks PROVE TaskOK(n, u)
  <2>1. TaskOK(h, u)
    BY DEF Sound
  <2>2. CASE u = t
    <3>1. /\ n.task[u] = a /\ n.queue[k].current = u
          /\ n.queue[k].mem = "live" /\ h.task[u].qid = k
          /\ a.proxy => h.task[u].proxy
      BY <2>2, <1>5, <1>6, <1>7, <1>8, <1>13
    <3> QED
      BY <2>1, <3>1, <1>8 DEF TaskOK
  <2>3. CASE u # t
    <3>1. n.task[u] = h.task[u]
      BY <2>3, <1>15
    <3>2. n.queue[k].mem = h.queue[k].mem /\ h.queue[k].current # u
      BY <1>3, <1>7, <1>13, ConstantsAssumption
    <3>3. u \in Range(h.queue[k].tasks) => u \in Range(n.queue[k].tasks)
      BY <2>3, <1>5, <1>7, <1>13
    <3> QED
      BY <2>1, <3>1, <3>2, <3>3, <1>14 DEF TaskOK
  <2> QED
    BY <2>2, <2>3
<1>19. Sound(n, k)
  BY <1>12, <1>16, <1>17, <1>18 DEF Sound
<1>20. /\ h.queue[k].mem = "live" /\ h.queue[k].tasks # <<>>
       /\ h.queue[k].current = None /\ t = Head(h.queue[k].tasks)
       /\ t \in Range(h.queue[k].tasks) /\ t \in Tasks
       /\ h.task[t].mem = "live" /\ h.task[t].qid = k
  BY <1>3, <1>5, <1>6 DEF t
<1>21. /\ n.queue[k].mem = "live" /\ ~n.queue[k].cancelled
       /\ n.queue[k].current = t
       /\ n.queue[k].tasks = Tail(h.queue[k].tasks)
       /\ n.queue[k].told = h.queue[k].told
       /\ n.queue[k].defer <=> h.queue[k].defer
  BY <1>7, <1>13
<1>22. /\ n.task[t].mem = h.task[t].mem /\ n.task[t].qid = h.task[t].qid
       /\ h.task[t].proxy => n.task[t].proxy
       /\ n.task[t].fate = "started"
  BY <1>8, <1>13, <1>20
<1>23. n.running = Increment(h.running) /\ n.onQuit = h.onQuit
  BY <1>12 DEF up
<1> QED
  BY <1>14, <1>15, <1>19, <1>20, <1>21, <1>22, <1>23 DEF Took

(* Setting p_action changes that task alone, and nothing in it but its     *)
(* operation.                                                              *)
LEMMA SetActionEffect ==
    ASSUME NEW h \in HeapType, NEW t \in Tasks, NEW action \in BOOLEAN,
           NEW a, a = SetAction(h, t, action)
    PROVE  /\ OnlyTask(h, a, t)
           /\ a.task[t].paction <=> action
           /\ a.task[t].inflight <=> action
<1> DEFINE new == [h.task[t] EXCEPT !.paction = action, !.inflight = action]
           ts == [h.task EXCEPT ![t] = new]
<1>1. a = [h EXCEPT !.task = ts]
  BY DEF SetAction, HeapType, Task
<1>2. /\ new \in Task
      /\ new.mem = h.task[t].mem /\ new.qid = h.task[t].qid
      /\ new.fate = h.task[t].fate
      /\ new.proxy <=> h.task[t].proxy
      /\ new.paction <=> action
      /\ new.inflight <=> action
  <2>1. h.task[t] \in Task
    BY DEF HeapType
  <2> QED
    BY <2>1 DEF Task
<1> HIDE DEF new
<1>3. /\ ts \in [Tasks -> Task] /\ ts[t] = new
      /\ \A u \in Tasks : u # t => ts[u] = h.task[u]
  BY <1>2 DEF HeapType
<1> HIDE DEF ts
<1>4. /\ a \in HeapType /\ a.task = ts /\ a.queue = h.queue
      /\ a.sources = h.sources /\ a.fault = h.fault
      /\ a.running = h.running /\ a.onQuit = h.onQuit
  BY <1>1, <1>3 DEF HeapType
<1> QED
  BY <1>2, <1>3, <1>4 DEF OnlyTask

(* Starting an operation changes that task alone, and only inflight in it. *)
LEMMA BeginOperationEffect ==
    ASSUME NEW h \in HeapType, NEW t \in Tasks,
           NEW a, a = BeginOperation(h, t)
    PROVE  /\ OnlyTask(h, a, t)
           /\ a.task[t].paction <=> h.task[t].paction
           /\ a.task[t].inflight
<1> DEFINE new == [h.task[t] EXCEPT !.inflight = TRUE]
           ts == [h.task EXCEPT ![t] = new]
<1>1. a = [h EXCEPT !.task = ts]
  BY DEF BeginOperation
<1>2. /\ new \in Task
      /\ new.mem = h.task[t].mem /\ new.qid = h.task[t].qid
      /\ new.fate = h.task[t].fate
      /\ new.proxy <=> h.task[t].proxy
      /\ new.paction <=> h.task[t].paction
      /\ new.inflight
  <2>1. h.task[t] \in Task
    BY DEF HeapType
  <2> QED
    BY <2>1 DEF Task
<1> HIDE DEF new
<1>3. /\ ts \in [Tasks -> Task] /\ ts[t] = new
      /\ \A u \in Tasks : u # t => ts[u] = h.task[u]
  BY <1>2 DEF HeapType
<1> HIDE DEF ts
<1>4. /\ a \in HeapType /\ a.task = ts /\ a.queue = h.queue
      /\ a.sources = h.sources /\ a.fault = h.fault
      /\ a.running = h.running /\ a.onQuit = h.onQuit
  BY <1>1, <1>3 DEF HeapType
<1> QED
  BY <1>2, <1>3, <1>4 DEF OnlyTask

(* Ending an operation changes that task alone, and only inflight in it.   *)
LEMMA EndOperationEffect ==
    ASSUME NEW h \in HeapType, NEW t \in Tasks,
           NEW a, a = EndOperation(h, t)
    PROVE  /\ OnlyTask(h, a, t)
           /\ a.task[t].paction <=> h.task[t].paction
           /\ ~a.task[t].inflight
<1> DEFINE new == [h.task[t] EXCEPT !.inflight = FALSE]
           ts == [h.task EXCEPT ![t] = new]
<1>1. a = [h EXCEPT !.task = ts]
  BY DEF EndOperation
<1>2. /\ new \in Task
      /\ new.mem = h.task[t].mem /\ new.qid = h.task[t].qid
      /\ new.fate = h.task[t].fate
      /\ new.proxy <=> h.task[t].proxy
      /\ new.paction <=> h.task[t].paction
      /\ ~new.inflight
  <2>1. h.task[t] \in Task
    BY DEF HeapType
  <2> QED
    BY <2>1 DEF Task
<1> HIDE DEF new
<1>3. /\ ts \in [Tasks -> Task] /\ ts[t] = new
      /\ \A u \in Tasks : u # t => ts[u] = h.task[u]
  BY <1>2 DEF HeapType
<1> HIDE DEF ts
<1>4. /\ a \in HeapType /\ a.task = ts /\ a.queue = h.queue
      /\ a.sources = h.sources /\ a.fault = h.fault
      /\ a.running = h.running /\ a.onQuit = h.onQuit
  BY <1>1, <1>3 DEF HeapType
<1> QED
  BY <1>2, <1>3, <1>4 DEF OnlyTask

(* dleyna_service_task_process_cb on a task just taken: if no action was   *)
(* started the task is completed at once, after the cancellation of the    *)
(* queue if it failed.                                                     *)
LEMMA ServiceTaskProcessSound ==
    ASSUME NEW n, NEW k \in Live(n), k \in Service, Sound(n, k), ~quitting,
           ~n.queue[k].cancelled,
           NEW t, t = n.queue[k].current, t # None,
           NEW failed \in BOOLEAN, NEW action \in BOOLEAN,
           ~(failed /\ action), action => n.task[t].proxy
    PROVE  LET r == ServiceTaskProcess(n, k, t, failed, action)
           IN  /\ Sound(r, None)
               /\ \A j \in Keys \ {k} : r.queue[j] = n.queue[j]
               /\ r.queue[k].current = None \/ ~r.queue[k].cancelled
<1> DEFINE a == SetAction(n, t, action)
           c == IF failed THEN Cancel(a, k) ELSE a
           r == ServiceTaskProcess(n, k, t, failed, action)
<1>1. /\ n \in HeapType /\ n.fault = "none" /\ k \in Keys
      /\ n.queue[k].mem = "live" /\ QueueOK(n, k, k)
  BY DEF Sound, Live
<1>2. /\ t \in Tasks /\ n.task[t].mem = "live"
      /\ ~n.task[t].paction /\ ~n.task[t].inflight
  BY <1>1 DEF QueueOK, HasEnd, HeapType, Queue
<1>3. r = IF c.task[t].mem = "freed" THEN Fail(c, "read_of_freed_task")
          ELSE IF action THEN c
          ELSE TaskCompleted(c, k)
  BY DEF ServiceTaskProcess
<1> SUFFICES /\ Sound(r, None)
             /\ \A j \in Keys \ {k} : r.queue[j] = n.queue[j]
             /\ r.queue[k].current = None \/ ~r.queue[k].cancelled
  OBVIOUS
<1> HIDE DEF r
<1>4. /\ OnlyTask(n, a, t)
      /\ a.task[t].paction <=> action
      /\ a.task[t].inflight <=> action
  <2>1. a = SetAction(n, t, action)
    OBVIOUS
  <2> HIDE DEF a, c
  <2> QED
    BY <2>1, <1>1, <1>2, SetActionEffect
<1> HIDE DEF a
<1>7. /\ a \in HeapType /\ a.queue = n.queue /\ a.fault = "none"
      /\ a.task[t].mem = n.task[t].mem
  BY <1>1, <1>4 DEF OnlyTask
<1>5. CASE action
  <2>1. ~failed
    BY <1>5
  <2>2. r = a
    BY <2>1, <1>2, <1>3, <1>5, <1>7
  <2>3. /\ a.task[t].inflight /\ a.task[t].paction
        /\ a.task[t].proxy
    BY <1>4, <1>5 DEF OnlyTask
  <2>4. Sound(a, None)
    BY <2>3, <1>1, <1>4, BeginOperationSound
  <2> QED
    BY <2>2, <2>4, <1>7
<1>6. CASE ~action
  <2>1. Sound(a, k)
    BY <1>1, <1>4, <1>6, EndOperationSound
  <2>2. /\ Sound(c, k) /\ c.queue[k].mem = "live" /\ c.queue[k].current = t
        /\ \A j \in Keys \ {k} : c.queue[j] = n.queue[j]
    <3>1. CASE failed
      <4>1. k \in Live(a) /\ a.queue[k].current # None
        BY <1>1, <1>7 DEF Live
      <4>2. c = Cancel(a, k)
        BY <3>1
      <4> HIDE DEF c
      <4> QED
        BY <2>1, <4>1, <4>2, <1>7, CancelEndingSound
    <3>2. CASE ~failed
      BY <2>1, <3>2, <1>1, <1>7
    <3> QED
      BY <3>1, <3>2
  <2> HIDE DEF c
  <2>3. c.task[t].mem = "live"
    <3>1. QueueOK(c, k, k)
      BY <2>2, <1>1 DEF Sound
    <3> QED
      BY <3>1, <2>2 DEF QueueOK
  <2>4. r = TaskCompleted(c, k)
    BY <2>3, <1>3, <1>6
  <2>5. k \in Live(c)
    BY <2>2, <1>1 DEF Live
  <2>6. /\ Sound(r, None) /\ r.queue[k].current = None
        /\ \A j \in Keys \ {k} :
              \/ r.queue[j] = c.queue[j]
              \/ quitting /\ r.queue[j].mem = "freed"
    BY <2>2, <2>4, <2>5, TaskCompletedSound
  <2> QED
    BY <2>2, <2>6
<1> QED
  BY <1>5, <1>6

(* task_process_cb of the control point on a task just taken.              *)
LEMMA ClientTaskProcessSound ==
    ASSUME NEW n, NEW k \in Live(n), k \notin Service, Sound(n, k), ~quitting,
           NEW t, t = n.queue[k].current, t # None,
           NEW action \in BOOLEAN
    PROVE  LET r == ClientTaskProcess(n, k, t, action)
           IN  /\ Sound(r, None)
               /\ \A j \in Keys \ {k} : r.queue[j] = n.queue[j]
<1> DEFINE r == ClientTaskProcess(n, k, t, action)
<1> SUFFICES /\ Sound(r, None)
             /\ \A j \in Keys \ {k} : r.queue[j] = n.queue[j]
  OBVIOUS
<1>1. n \in HeapType /\ k \in Keys /\ QueueOK(n, k, k)
  BY DEF Sound, Live
<1>2. t \in Tasks /\ ~n.task[t].paction
  BY <1>1 DEF QueueOK, HasEnd, HeapType, Queue
<1>3. CASE action
  <2>1. r = BeginOperation(n, t)
    BY <1>3 DEF ClientTaskProcess
  <2> HIDE DEF r
  <2>2. /\ OnlyTask(n, r, t)
        /\ r.task[t].paction <=> n.task[t].paction
        /\ r.task[t].inflight
    BY <2>1, <1>1, <1>2, BeginOperationEffect
  <2>3. r.queue = n.queue
    BY <2>2 DEF OnlyTask
  <2>4. Sound(r, None)
    BY <2>2, <1>1, <1>2, BeginOperationSound
  <2> QED
    BY <2>3, <2>4
<1>4. CASE ~action
  <2>1. r = TaskCompleted(n, k)
    BY <1>4 DEF ClientTaskProcess
  <2> HIDE DEF r
  <2>2. /\ Sound(r, None)
        /\ \A j \in Keys \ {k} :
              \/ r.queue[j] = n.queue[j]
              \/ quitting /\ r.queue[j].mem = "freed"
    BY <2>1, TaskCompletedSound
  <2> QED
    BY <2>2
<1> QED
  BY <1>3, <1>4

(* The source of a queue is dropped, and the next task taken.              *)
LEMMA DropAndTakeSound ==
    ASSUME NEW h, Sound(h, None), NEW k \in Keys, h.sources[k] > 0,
           NEW g, g = DropSource(h, k)
    PROVE  OnlySource(h, g, k) /\ Took(h, TakeNext(g, k), k)
<1>1. h \in HeapType /\ h.sources[k] \in Nat
  BY DEF Sound, HeapType
<1>2. h.queue[k].idle /\ h.sources[k] = 1
  BY DEF Sound, QueueOK
<1>3. OnlySource(h, g, k)
  <2> DEFINE ss == [h.sources EXCEPT ![k] = h.sources[k] - 1]
  <2>1. g = [h EXCEPT !.sources = ss]
    BY DEF DropSource
  <2>2. /\ ss \in [Keys -> Nat] /\ ss[k] = h.sources[k] - 1
        /\ \A j \in Keys : j # k => ss[j] = h.sources[j]
    BY <1>1 DEF HeapType
  <2> HIDE DEF ss
  <2> QED
    BY <2>1, <2>2, <1>1, <1>2 DEF HeapType, OnlySource
<1> DEFINE n == TakeNext(g, k)
<1>4. n = TakeNext(g, k)
  OBVIOUS
<1> HIDE DEF n
<1>5. Took(h, n, k)
  BY <1>2, <1>3, <1>4, TakeNextSound
<1> QED
  BY <1>3, <1>4, <1>5

(* prv_process_task: the source of a queue always finds a live queue that  *)
(* has a task to take.                                                     *)
LEMMA RunNextSound ==
    ASSUME NEW h, Sound(h, None), NEW k \in Keys, h.sources[k] > 0, ~quitting,
           NEW failed \in BOOLEAN, NEW action \in BOOLEAN,
           ~(failed /\ action),
           k \in Service /\ action /\ h.queue[k].tasks # <<>>
               => h.task[Head(h.queue[k].tasks)].proxy
    PROVE  LET r == RunNext(DropSource(h, k), k, failed, action)
           IN  /\ Sound(r, None)
               /\ \A j \in Keys \ {k} : r.queue[j] = h.queue[j]
               /\ k \in Service =>
                     r.queue[k].current = None \/ ~r.queue[k].cancelled
<1> DEFINE r == RunNext(DropSource(h, k), k, failed, action)
           g == DropSource(h, k)
           n == TakeNext(g, k)
           t == Head(h.queue[k].tasks)
<1> SUFFICES /\ Sound(r, None)
             /\ \A j \in Keys \ {k} : r.queue[j] = h.queue[j]
             /\ k \in Service =>
                   r.queue[k].current = None \/ ~r.queue[k].cancelled
  OBVIOUS
<1>1. r = IF k \notin Live(g) THEN Fail(g, "idle_on_freed_queue")
          ELSE IF g.queue[k].tasks = <<>> THEN Fail(g, "empty_queue")
          ELSE IF k \in Service
          THEN ServiceTaskProcess(n, k, Head(g.queue[k].tasks), failed, action)
          ELSE ClientTaskProcess(n, k, Head(g.queue[k].tasks), action)
  BY DEF RunNext
<1> HIDE DEF r
<1>2. /\ g.queue = h.queue /\ k \in Live(g) /\ h.queue[k].tasks # <<>>
      /\ Sound(n, k) /\ k \in Live(n) /\ ~n.queue[k].cancelled
      /\ n.queue[k].current = t /\ t \in Tasks
      /\ h.task[t].proxy => n.task[t].proxy
      /\ \A j \in Keys \ {k} : n.queue[j] = h.queue[j]
  <2>1. g = DropSource(h, k) /\ n = TakeNext(g, k)
    OBVIOUS
  <2> HIDE DEF n, g
  <2>2. OnlySource(h, g, k) /\ Took(h, n, k)
    BY <2>1, DropAndTakeSound
  <2> QED
    BY <2>2 DEF OnlySource, Took, Live, t
<1> HIDE DEF n, g
<1>3. r = IF k \in Service THEN ServiceTaskProcess(n, k, t, failed, action)
                           ELSE ClientTaskProcess(n, k, t, action)
  BY <1>1, <1>2
<1>4. t # None
  BY <1>2, ConstantsAssumption
<1>5. k \in Service /\ action => n.task[t].proxy
  BY <1>2
<1> HIDE DEF t
<1>7. CASE k \in Service
  <2>1. r = ServiceTaskProcess(n, k, t, failed, action)
    BY <1>3, <1>7
  <2>2. action => n.task[t].proxy
    BY <1>5, <1>7
  <2>3. /\ Sound(r, None)
        /\ \A j \in Keys \ {k} : r.queue[j] = n.queue[j]
        /\ r.queue[k].current = None \/ ~r.queue[k].cancelled
    BY <2>1, <2>2, <1>2, <1>4, <1>7, ServiceTaskProcessSound
  <2> QED
    BY <2>3, <1>2
<1>8. CASE k \notin Service
  <2>1. r = ClientTaskProcess(n, k, t, action)
    BY <1>3, <1>8
  <2>2. /\ Sound(r, None)
        /\ \A j \in Keys \ {k} : r.queue[j] = n.queue[j]
    BY <2>1, <1>2, <1>4, <1>8, ClientTaskProcessSound
  <2> QED
    BY <2>2, <1>2, <1>8
<1> QED
  BY <1>7, <1>8

-----------------------------------------------------------------------------

(* The actions.                                                            *)

(* The components of the heap are the variables.                           *)
LEMMA HeapIsState ==
    /\ Heap.queue = queue /\ Heap.task = task /\ Heap.running = running
    /\ Heap.onQuit = onQuit /\ Heap.sources = sources /\ Heap.fault = fault
    /\ Live(Heap) = {k \in Keys : queue[k].mem = "live"}
BY DEF Heap, Live

(* A step that makes h the heap.                                           *)
LEMMA BecomeEffect ==
    ASSUME NEW h \in HeapType, Become(h)
    PROVE  Heap' = h /\ queue' = h.queue /\ task' = h.task
BY DEF Become, Heap, HeapType

(* An entry point that finds a live queue is called before quit.           *)
LEMMA LiveBeforeQuit ==
    ASSUME IInv, Dispatching, NEW k \in Live(Heap)
    PROVE  ~quitting
BY DEF IInv, Dispatching, WalkOK, NoWalk

(* An event that is not part of a walk keeps the invariant if it leaves a  *)
(* sound heap, in which all queues but k are the same.                     *)
LEMMA EventKeepsIInv ==
    ASSUME IInv, Dispatching, ~quitting, NEW k \in Keys,
           NEW h, Sound(h, None), Become(h),
           \A j \in Keys \ {k} : h.queue[j] = queue[j],
           k \in Service =>
              h.queue[k].current = None \/ ~h.queue[k].cancelled,
           UNCHANGED <<quitting, walk>>
    PROVE  IInv'
<1>1. Heap' = h /\ queue' = h.queue
  BY BecomeEffect DEF Sound
<1>2. Sound(Heap', None)
  BY <1>1
<1>3. ServiceNotCancelled'
  <2>1. \A j \in Service \ {k} :
           queue[j].current # None => ~queue[j].cancelled
    BY DEF IInv, ServiceNotCancelled
  <2>2. \A j \in Service \ {k} : j \in Keys
    BY ConstantsAssumption
  <2>3. \A j \in Service \ {k} :
           h.queue[j].current # None => ~h.queue[j].cancelled
    BY <2>1, <2>2
  <2>4. \A j \in Service : h.queue[j].current # None => ~h.queue[j].cancelled
    BY <2>3
  <2> QED
    BY <1>1, <2>4 DEF ServiceNotCancelled
<1>4. walk' = NoWalk /\ ~quitting' /\ quitting' \in BOOLEAN
  BY DEF Dispatching, IInv
<1>5. WalkOK'
  BY <1>4 DEF WalkOK, NoWalk
<1> QED
  BY <1>2, <1>3, <1>4, <1>5 DEF IInv

(* dleyna_task_queue_set_finally keeps the invariant.                      *)
LEMMA SetFinallyStep ==
    ASSUME IInv, NEW k \in Keys, SetFinally(k)
    PROVE  IInv'
<1> DEFINE q == [Heap.queue[k] EXCEPT !.finally = TRUE]
           qs == [Heap.queue EXCEPT ![k] = q]
           h == [Heap EXCEPT !.queue = qs]
<1>1. /\ Sound(Heap, None) /\ Heap \in HeapType /\ Heap.fault = "none"
      /\ Dispatching /\ k \in Live(Heap)
  BY HeapIsState DEF IInv, Sound, SetFinally
<1>2. /\ Become(h) /\ UNCHANGED <<quitting, walk>>
  BY DEF SetFinally, Heap
<1>3. /\ q \in Queue /\ q.mem = Heap.queue[k].mem
      /\ q.tasks = Heap.queue[k].tasks
      /\ q.current = Heap.queue[k].current /\ q.idle = Heap.queue[k].idle
      /\ q.cancelled <=> Heap.queue[k].cancelled
  BY <1>1 DEF HeapType, Queue
<1> HIDE DEF q
<1>4. /\ qs \in [Keys -> Queue] /\ qs[k] = q
      /\ \A j \in Keys \ {k} : qs[j] = Heap.queue[j]
  BY <1>1, <1>3 DEF HeapType
<1> HIDE DEF qs
<1>5. /\ h \in HeapType /\ h.queue = qs /\ h.task = Heap.task
      /\ h.sources = Heap.sources /\ h.fault = "none"
  BY <1>1, <1>4 DEF HeapType
<1> HIDE DEF h
<1>6. Sound(h, None)
  <2>1. \A j \in Keys : /\ h.queue[j].mem = Heap.queue[j].mem
                        /\ h.queue[j].tasks = Heap.queue[j].tasks
                        /\ h.queue[j].current = Heap.queue[j].current
                        /\ h.queue[j].idle = Heap.queue[j].idle
    BY <1>3, <1>4, <1>5
  <2> QED
    BY <2>1, <1>1, <1>5, SoundFrame
<1>7. ~quitting
  BY <1>1, LiveBeforeQuit
<1>8. k \in Service => h.queue[k].current = None \/ ~h.queue[k].cancelled
  BY <1>3, <1>4, <1>5, HeapIsState DEF IInv, ServiceNotCancelled
<1> QED
  BY <1>1, <1>2, <1>4, <1>5, <1>6, <1>7, <1>8, HeapIsState, EventKeepsIInv

(* dleyna_task_processor_add_queue keeps the invariant: by lookup_first it *)
(* replaces no queue.                                                      *)
LEMMA AddQueueStep ==
    ASSUME IInv, Contract = Clauses, NEW k \in Keys, AddQueue(k)
    PROVE  IInv'
<1> DEFINE q == [Heap.queue[k] EXCEPT !.mem = "live"]
           qs == [Heap.queue EXCEPT ![k] = q]
           h == [Heap EXCEPT !.queue = qs]
<1>1. /\ Sound(Heap, None) /\ Heap \in HeapType /\ Heap.fault = "none"
      /\ Dispatching /\ Heap.queue[k].mem = "unused"
  BY HeapIsState DEF IInv, Sound, AddQueue
<1>2. /\ Become(h) /\ UNCHANGED <<quitting, walk>> /\ ~quitting
  BY DEF AddQueue, Kept, Clauses, Heap
<1>3. /\ q \in Queue /\ q.mem = "live"
      /\ q.tasks = Heap.queue[k].tasks
      /\ q.current = Heap.queue[k].current /\ q.idle = Heap.queue[k].idle
  BY <1>1 DEF HeapType, Queue, Memory
<1> HIDE DEF q
<1>4. /\ qs \in [Keys -> Queue] /\ qs[k] = q
      /\ \A j \in Keys \ {k} : qs[j] = Heap.queue[j]
  BY <1>1, <1>3 DEF HeapType
<1> HIDE DEF qs
<1>5. /\ h \in HeapType /\ h.queue = qs /\ h.task = Heap.task
      /\ h.sources = Heap.sources /\ h.fault = "none"
  BY <1>1, <1>4 DEF HeapType
<1> HIDE DEF h
<1>6. Sound(h, None)
  <2>1. \A j \in Keys : /\ Heap.queue[j].mem = "live" => h.queue[j].mem = "live"
                        /\ h.queue[j].tasks = Heap.queue[j].tasks
                        /\ h.queue[j].current = Heap.queue[j].current
                        /\ h.queue[j].idle = Heap.queue[j].idle
    BY <1>3, <1>4, <1>5
  <2>2. ASSUME NEW j \in Keys PROVE QueueOK(h, j, None)
    <3>1. QueueOK(Heap, j, None)
      BY <1>1 DEF Sound
    <3> QED
      BY <2>1, <3>1, <1>5 DEF QueueOK, HasEnd
  <2>3. ASSUME NEW t \in Tasks PROVE TaskOK(h, t)
    <3>1. TaskOK(Heap, t)
      BY <1>1 DEF Sound
    <3> QED
      BY <2>1, <3>1, <1>5 DEF TaskOK
  <2> QED
    BY <2>2, <2>3, <1>5 DEF Sound
<1>7. h.queue[k].current = None
  <2>1. QueueOK(Heap, k, None)
    BY <1>1 DEF Sound
  <2> QED
    BY <2>1, <1>1, <1>3, <1>4, <1>5 DEF QueueOK
<1> QED
  BY <1>1, <1>2, <1>4, <1>5, <1>6, <1>7, HeapIsState, EventKeepsIInv

(* dleyna_task_queue_start keeps the invariant: by start_idle it frees no  *)
(* queue that runs a task.                                                 *)
LEMMA StartQueueStep ==
    ASSUME IInv, Contract = Clauses, NEW k \in Keys, StartQueue(k)
    PROVE  IInv'
<1>1. /\ Sound(Heap, None) /\ Dispatching /\ k \in Live(Heap) /\ ~quitting
      /\ UNCHANGED <<quitting, walk>> /\ QueueOK(Heap, k, None)
  BY HeapIsState DEF IInv, Sound, StartQueue
<1>2. CASE /\ queue[k].tasks # <<>>
           /\ queue[k].current = None /\ ~queue[k].idle
           /\ Become(ScheduleProcess(Heap, k))
  <2> DEFINE h == ScheduleProcess(Heap, k)
  <2>1. Become(h)
    BY <1>2
  <2>2. /\ Sound(h, None) /\ h.queue[k].current = None
        /\ \A j \in Keys \ {k} : h.queue[j] = Heap.queue[j]
    <3> HIDE DEF h
    <3> QED
      BY <1>1, <1>2, HeapIsState, ScheduleProcessSound DEF h
  <2> HIDE DEF h
  <2> QED
    BY <2>1, <2>2, <1>1, HeapIsState, EventKeepsIInv
<1>3. CASE queue[k].tasks = <<>> /\ Become(RemoveQueues(Heap, {k}))
  <2> DEFINE h == RemoveQueues(Heap, {k})
  <2>1. Become(h)
    BY <1>3
  <2>2. Heap.queue[k].current = None /\ ~Heap.queue[k].idle
    BY <1>1, <1>3, HeapIsState DEF StartQueue, Kept, Clauses, QueueOK
  <2>3. /\ Sound(h, None) /\ h.queue[k] = FreedQueue(Heap.queue[k])
        /\ \A j \in Keys \ {k} : h.queue[j] = Heap.queue[j]
    <3> HIDE DEF h
    <3> QED
      BY <1>1, <2>2, RemoveQueuesSound DEF h
  <2>4. h.queue[k].current = None
    BY <2>3, FreedQueueEffect
  <2> HIDE DEF h
  <2> QED
    BY <2>1, <2>3, <2>4, <1>1, HeapIsState, EventKeepsIInv
<1> QED
  BY <1>2, <1>3 DEF StartQueue

(* dleyna_task_processor_cancel_queue keeps the invariant.                 *)
LEMMA CancelQueueStep ==
    ASSUME IInv, NEW k \in Keys, CancelQueue(k)
    PROVE  IInv'
<1> DEFINE h == Cancel(Heap, k)
<1>1. /\ Sound(Heap, None) /\ Dispatching /\ k \in Live(Heap)
      /\ UNCHANGED <<quitting, walk>> /\ Become(h)
  BY HeapIsState DEF IInv, CancelQueue
<1>2. ~quitting
  BY <1>1, LiveBeforeQuit
<1>3. h = Cancel(Heap, k)
  OBVIOUS
<1> HIDE DEF h
<1>4. /\ Sound(h, None)
      /\ \A j \in Keys \ {k} : h.queue[j] = Heap.queue[j]
      /\ \/ Heap.queue[k].cancelled /\ h = Heap
         \/ k \in Service => h.queue[k].current = None
  <2>1. /\ Sound(h, None)
        /\ \A j \in Keys \ {k} : \/ h.queue[j] = Heap.queue[j]
                                 \/ quitting /\ h.queue[j].mem = "freed"
        /\ \/ Heap.queue[k].cancelled /\ h = Heap
           \/ /\ ~Heap.queue[k].cancelled /\ ~h.queue[k].idle
              /\ IF k \in Service THEN h.queue[k].current = None
                 ELSE h.queue[k].current = Heap.queue[k].current
              /\ k \notin Service \cup AutoRemove =>
                    /\ h.queue[k].mem = "live"
                    /\ Heap.queue[k].defer => h.queue[k].defer
    BY <1>1, <1>2, <1>3, CancelSound
  <2> QED
    BY <2>1, <1>2
<1>5. k \in Service => h.queue[k].current = None \/ ~h.queue[k].cancelled
  BY <1>4, HeapIsState DEF IInv, ServiceNotCancelled
<1> QED
  BY <1>1, <1>2, <1>4, <1>5, HeapIsState, EventKeepsIInv

(* prv_process_task keeps the invariant: its queue is live and has a task. *)
LEMMA ProcessTaskStep ==
    ASSUME IInv, Contract = Clauses, NEW k \in Keys,
           NEW failed \in BOOLEAN, NEW action \in BOOLEAN,
           ProcessTask(k, failed, action)
    PROVE  IInv'
<1> DEFINE h == RunNext(DropSource(Heap, k), k, failed, action)
<1>1. /\ Sound(Heap, None) /\ Dispatching /\ UNCHANGED <<quitting, walk>>
      /\ Become(h) /\ Heap.sources[k] > 0 /\ QueueOK(Heap, k, None)
  BY HeapIsState DEF IInv, Sound, ProcessTask
<1>2. ~(failed /\ action)
  BY DEF ProcessTask, Kept, Clauses
<1>3. k \in Service /\ action /\ Heap.queue[k].tasks # <<>>
         => Heap.task[Head(Heap.queue[k].tasks)].proxy
  BY HeapIsState DEF ProcessTask
<1>4. k \in Live(Heap)
  BY <1>1 DEF QueueOK, Live
<1>5. ~quitting
  BY <1>1, <1>4, LiveBeforeQuit
<1>6. /\ Sound(h, None)
      /\ \A j \in Keys \ {k} : h.queue[j] = Heap.queue[j]
      /\ k \in Service => h.queue[k].current = None \/ ~h.queue[k].cancelled
  BY <1>1, <1>2, <1>3, <1>5, RunNextSound
<1> HIDE DEF h
<1> QED
  BY <1>1, <1>5, <1>6, HeapIsState, EventKeepsIInv

(* What is in flight belongs to the current task of a live queue.          *)
LEMMA InFlightHasQueue ==
    ASSUME NEW h, Sound(h, None), NEW t \in Tasks,
           h.task[t].inflight \/ h.task[t].paction
    PROVE  /\ h.task[t].mem = "live" /\ h.task[t].qid \in Live(h)
           /\ h.queue[h.task[t].qid].current = t
<1>1. TaskOK(h, t)
  BY DEF Sound
<1>2. h.task[t].mem = "live" /\ h.task[t].qid \in Keys
  BY <1>1 DEF TaskOK
<1>3. QueueOK(h, h.task[t].qid, None)
  BY <1>2 DEF Sound
<1> QED
  BY <1>1, <1>2, <1>3 DEF TaskOK, QueueOK, Live

(* The answer to a UPnP action keeps the invariant, also when its callback *)
(* cancels the queue below the completion.                                 *)
LEMMA ServiceTaskDoneStep ==
    ASSUME IInv, NEW t \in Tasks, NEW cancels \in BOOLEAN,
           ServiceTaskDone(t, cancels)
    PROVE  IInv'
<1> DEFINE k == Heap.task[t].qid
           no == FALSE
           a == SetAction(Heap, t, no)
           c == IF cancels THEN Cancel(a, k) ELSE a
           h == TaskCompleted(c, k)
<1>1. /\ Sound(Heap, None) /\ Heap \in HeapType /\ Heap.fault = "none"
      /\ Dispatching /\ UNCHANGED <<quitting, walk>>
      /\ Heap.task[t].inflight /\ k \in Service
  BY HeapIsState DEF IInv, Sound, ServiceTaskDone
<1>2. /\ Heap.task[t].mem = "live" /\ k \in Live(Heap)
      /\ Heap.queue[k].current = t
  BY <1>1, InFlightHasQueue
<1>3. Become(h)
  BY <1>2, HeapIsState DEF ServiceTaskDone
<1>4. no \in BOOLEAN /\ ~no
  OBVIOUS
<1> HIDE DEF no, k
<1>5. ~quitting
  BY <1>1, <1>2, LiveBeforeQuit
<1>6. OnlyTask(Heap, a, t) /\ ~a.task[t].paction /\ ~a.task[t].inflight
  <2>1. a = SetAction(Heap, t, no)
    OBVIOUS
  <2> HIDE DEF a, c, h
  <2> QED
    BY <2>1, <1>1, <1>4, SetActionEffect
<1> HIDE DEF a
<1>7. Sound(a, k) /\ a.queue = Heap.queue
  <2>1. t # None /\ k \in Keys /\ t = Heap.queue[k].current
    BY <1>2, ConstantsAssumption DEF Live
  <2>2. a.queue = Heap.queue
    BY <1>6 DEF OnlyTask
  <2> HIDE DEF c, h
  <2>3. Sound(a, k)
    BY <2>1, <1>1, <1>6, EndOperationSound
  <2> QED
    BY <2>2, <2>3
<1>8. k \in Keys /\ k \in Live(a) /\ a.queue[k].current # None
  BY <1>2, <1>7, ConstantsAssumption DEF Live
<1>9. /\ Sound(c, k) /\ k \in Live(c) /\ c.queue[k].current # None
      /\ \A j \in Keys \ {k} : c.queue[j] = Heap.queue[j]
  <2>1. CASE cancels
    <3>1. c = Cancel(a, k)
      BY <2>1
    <3> HIDE DEF c, h
    <3>2. /\ Sound(c, k) /\ c.queue[k].mem = "live"
          /\ c.queue[k].current = a.queue[k].current
          /\ \A j \in Keys \ {k} : c.queue[j] = a.queue[j]
      BY <3>1, <1>1, <1>7, <1>8, CancelEndingSound
    <3> QED
      BY <3>2, <1>7, <1>8 DEF Live
  <2>2. CASE ~cancels
    BY <2>2, <1>7, <1>8
  <2> QED
    BY <2>1, <2>2
<1> HIDE DEF c
<1>10. /\ Sound(h, None) /\ h.queue[k].current = None
       /\ \A j \in Keys \ {k} : h.queue[j] = Heap.queue[j]
  <2>1. h = TaskCompleted(c, k)
    OBVIOUS
  <2> HIDE DEF h
  <2>2. /\ Sound(h, None)
        /\ \A j \in Keys \ {k} : \/ h.queue[j] = c.queue[j]
                                 \/ quitting /\ h.queue[j].mem = "freed"
        /\ h.queue[k].current = None
    BY <2>1, <1>5, <1>9, TaskCompletedSound
  <2> QED
    BY <2>2, <1>5, <1>9
<1> HIDE DEF h
<1> QED
  BY <1>1, <1>3, <1>5, <1>8, <1>10, HeapIsState, EventKeepsIInv

(* The completion of a task of the control point keeps the invariant.      *)
LEMMA ClientTaskDoneStep ==
    ASSUME IInv, NEW t \in Tasks, ClientTaskDone(t)
    PROVE  IInv'
<1> DEFINE k == Heap.task[t].qid
           a == EndOperation(Heap, t)
           h == TaskCompleted(a, k)
<1>1. /\ Sound(Heap, None) /\ Heap \in HeapType /\ Heap.fault = "none"
      /\ Dispatching /\ UNCHANGED <<quitting, walk>>
      /\ Heap.task[t].inflight /\ k \notin Service
  BY HeapIsState DEF IInv, Sound, ClientTaskDone
<1>2. /\ k \in Live(Heap) /\ Heap.queue[k].current = t
  BY <1>1, InFlightHasQueue
<1>3. Become(h)
  BY HeapIsState DEF ClientTaskDone
<1>4. ~Heap.task[t].paction
  BY <1>1 DEF Sound, TaskOK
<1> HIDE DEF k
<1>5. ~quitting
  BY <1>1, <1>2, LiveBeforeQuit
<1>6. /\ OnlyTask(Heap, a, t) /\ ~a.task[t].inflight
      /\ a.task[t].paction <=> Heap.task[t].paction
  <2>1. a = EndOperation(Heap, t)
    OBVIOUS
  <2> HIDE DEF a, h
  <2> QED
    BY <2>1, <1>1, EndOperationEffect
<1> HIDE DEF a
<1>7. Sound(a, k) /\ a.queue = Heap.queue
  <2>1. t # None /\ k \in Keys /\ t = Heap.queue[k].current
    BY <1>2, ConstantsAssumption DEF Live
  <2>2. ~a.task[t].paction
    BY <1>4, <1>6
  <2>3. a.queue = Heap.queue
    BY <1>6 DEF OnlyTask
  <2> HIDE DEF h
  <2>4. Sound(a, k)
    BY <2>1, <2>2, <1>1, <1>6, EndOperationSound
  <2> QED
    BY <2>3, <2>4
<1>8. k \in Keys /\ k \in Live(a) /\ a.queue[k].current # None
  BY <1>2, <1>7, ConstantsAssumption DEF Live
<1>9. /\ Sound(h, None) /\ h.queue[k].current = None
      /\ \A j \in Keys \ {k} : h.queue[j] = Heap.queue[j]
  <2>1. h = TaskCompleted(a, k)
    OBVIOUS
  <2> HIDE DEF h
  <2>2. /\ Sound(h, None)
        /\ \A j \in Keys \ {k} : \/ h.queue[j] = a.queue[j]
                                 \/ quitting /\ h.queue[j].mem = "freed"
        /\ h.queue[k].current = None
    BY <2>1, <1>5, <1>7, <1>8, TaskCompletedSound
  <2> QED
    BY <2>2, <1>5, <1>7
<1> HIDE DEF h
<1> QED
  BY <1>1, <1>3, <1>5, <1>8, <1>9, HeapIsState, EventKeepsIInv

(* The disposal of a proxy keeps the invariant: p_action of its task       *)
(* remains, for a cancellation to complete.                                *)
LEMMA ProxyLostStep ==
    ASSUME IInv, NEW t \in Tasks, ProxyLost(t)
    PROVE  IInv'
<1> DEFINE k == Heap.task[t].qid
           new == [Heap.task[t] EXCEPT !.proxy = FALSE, !.inflight = FALSE]
           ts == [Heap.task EXCEPT ![t] = new]
           h == [Heap EXCEPT !.task = ts]
<1>1. /\ Sound(Heap, None) /\ Heap \in HeapType /\ Heap.fault = "none"
      /\ Dispatching /\ UNCHANGED <<quitting, walk>> /\ Heap.task[t].proxy
  BY HeapIsState DEF IInv, Sound, ProxyLost
<1>2. /\ TaskOK(Heap, t) /\ Heap.task[t].mem = "live" /\ k \in Service
      /\ k \in Live(Heap) /\ k \in Keys
  BY <1>1 DEF Sound, TaskOK, Live
<1>3. Become(h)
  <2>1. h = [Heap EXCEPT !.task[t].proxy = FALSE, !.task[t].inflight = FALSE]
    BY <1>1 DEF HeapType, Task
  <2>2. Become([Heap EXCEPT !.task[t].proxy = FALSE,
                            !.task[t].inflight = FALSE])
    BY <1>2, HeapIsState DEF ProxyLost
  <2> QED
    BY <2>1, <2>2
<1>4. ~quitting
  BY <1>1, <1>2, LiveBeforeQuit
<1>5. /\ new \in Task
      /\ new.mem = Heap.task[t].mem /\ new.qid = Heap.task[t].qid
      /\ new.paction <=> Heap.task[t].paction
      /\ ~new.proxy /\ ~new.inflight
  <2>1. Heap.task[t] \in Task
    BY <1>1 DEF HeapType
  <2> QED
    BY <2>1 DEF Task
<1> HIDE DEF new
<1>6. /\ ts \in [Tasks -> Task] /\ ts[t] = new
      /\ \A u \in Tasks : u # t => ts[u] = Heap.task[u]
  BY <1>1, <1>5 DEF HeapType
<1> HIDE DEF ts
<1>7. /\ h \in HeapType /\ h.task = ts /\ h.queue = Heap.queue
      /\ h.sources = Heap.sources /\ h.fault = "none"
  BY <1>1, <1>6 DEF HeapType
<1> HIDE DEF h
<1>8. \A u \in Tasks : /\ h.task[u].mem = Heap.task[u].mem
                       /\ h.task[u].qid = Heap.task[u].qid
                       /\ h.task[u].paction <=> Heap.task[u].paction
                       /\ h.task[u].inflight => Heap.task[u].inflight
                       /\ u # t => h.task[u] = Heap.task[u]
  BY <1>5, <1>6, <1>7
<1>9. ASSUME NEW j \in Keys PROVE QueueOK(h, j, None)
  <2>1. QueueOK(Heap, j, None)
    BY <1>1 DEF Sound
  <2>2. Heap.queue[j].current \in Tasks \cup {None}
        /\ Range(Heap.queue[j].tasks) \subseteq Tasks
    BY <1>1, WaitingAreTasks DEF Queue
  <2>3. Heap.queue[j].current # None => HasEnd(h, j, None)
    BY <2>1, <2>2, <1>2, <1>7, <1>8, ConstantsAssumption DEF QueueOK, HasEnd
  <2> QED
    BY <2>1, <2>2, <2>3, <1>7, <1>8 DEF QueueOK
<1>10. ASSUME NEW u \in Tasks PROVE TaskOK(h, u)
  <2>1. TaskOK(Heap, u)
    BY <1>1 DEF Sound
  <2>2. CASE u = t
    BY <2>1, <2>2, <1>2, <1>5, <1>6, <1>7 DEF TaskOK
  <2>3. CASE u # t
    BY <2>1, <2>3, <1>7, <1>8 DEF TaskOK
  <2> QED
    BY <2>2, <2>3
<1>11. Sound(h, None)
  BY <1>7, <1>9, <1>10 DEF Sound
<1>12. h.queue[k].current = None \/ ~h.queue[k].cancelled
  BY <1>2, <1>7, HeapIsState DEF IInv, ServiceNotCancelled
<1> QED
  BY <1>1, <1>2, <1>3, <1>4, <1>7, <1>11, <1>12, HeapIsState, EventKeepsIInv

(* No task is in two places of s.                                          *)
Distinct(s) == \A i, j \in DOMAIN s : s[i] = s[j] => i = j

(* r is a sequence of distinct tasks that holds those of s, and t.         *)
Extends(s, r, t) ==
    /\ r \in Seq(Tasks) /\ r # <<>> /\ Distinct(r)
    /\ \A u \in Range(r) : u \in Range(s) \/ u = t
    /\ \A u \in Range(s) : u \in Range(r)
    /\ t \in Range(r)

(* g_ptr_array_add of a task that is in no slot yet.                       *)
LEMMA AppendEffect ==
    ASSUME NEW t \in Tasks, NEW s \in Seq(Tasks), t \notin Range(s),
           Distinct(s), NEW r, r = Append(s, t)
    PROVE  Extends(s, r, t)
<1>1. /\ DOMAIN s = 1..Len(s) /\ DOMAIN r = 1..(Len(s) + 1)
      /\ Len(s) \in Nat /\ r \in Seq(Tasks) /\ Len(r) = Len(s) + 1
      /\ \A i \in 1..Len(s) : r[i] = s[i]
      /\ r[Len(s) + 1] = t
  OBVIOUS
<1>2. r # <<>>
  BY <1>1
<1>3. \A u \in Range(r) : u \in Range(s) \/ u = t
  BY <1>1 DEF Range
<1>4. \A u \in Range(s) : u \in Range(r)
  <2>1. ASSUME NEW i \in DOMAIN s PROVE s[i] \in Range(r)
    <3>1. i \in DOMAIN r /\ r[i] = s[i]
      BY <1>1
    <3> QED
      BY <3>1 DEF Range
  <2> QED
    BY <2>1 DEF Range
<1>5. t \in Range(r)
  <2>1. Len(s) + 1 \in DOMAIN r
    BY <1>1
  <2> QED
    BY <2>1, <1>1 DEF Range
<1>6. ASSUME NEW i \in DOMAIN r, NEW j \in DOMAIN r, r[i] = r[j]
      PROVE  i = j
  <2>1. \A m \in 1..Len(s) : s[m] # t
    BY <1>1 DEF Range
  <2> QED
    BY <2>1, <1>1, <1>6 DEF Distinct
<1> QED
  BY <1>1, <1>2, <1>3, <1>4, <1>5, <1>6 DEF Extends, Distinct

(* A task that was never used is put at the end of a live queue.           *)
LEMMA AddedSound ==
    ASSUME NEW h, Sound(h, None), NEW k \in Live(h), NEW t \in Tasks,
           h.task[t].mem = "unused",
           NEW n \in Task, n.mem = "live", n.qid = k,
           ~n.paction, ~n.inflight, n.proxy => k \in Service
    PROVE  LET g == Enqueue(h, k, t, n)
           IN  /\ Sound(g, None) /\ k \in Live(g)
               /\ g.queue[k].tasks # <<>>
               /\ g.queue[k].current = h.queue[k].current
               /\ g.queue[k].idle <=> h.queue[k].idle
               /\ g.queue[k].cancelled <=> h.queue[k].cancelled
               /\ \A j \in Keys \ {k} : g.queue[j] = h.queue[j]
<1> DEFINE g == Enqueue(h, k, t, n)
<1> SUFFICES /\ Sound(g, None) /\ k \in Live(g) /\ g.queue[k].tasks # <<>>
             /\ g.queue[k].current = h.queue[k].current
             /\ g.queue[k].idle <=> h.queue[k].idle
             /\ g.queue[k].cancelled <=> h.queue[k].cancelled
             /\ \A j \in Keys \ {k} : g.queue[j] = h.queue[j]
  OBVIOUS
<1> DEFINE old == h.queue[k].tasks
           r == Append(old, t)
           q == [h.queue[k] EXCEPT !.tasks = r]
           qs == [h.queue EXCEPT ![k] = q]
           ts == [h.task EXCEPT ![t] = n]
<1>1. /\ h \in HeapType /\ h.fault = "none" /\ k \in Keys
      /\ h.queue[k] \in Queue /\ h.queue[k].mem = "live"
      /\ h.queue[k].tasks \in Seq(Tasks) /\ QueueOK(h, k, None)
  BY DEF Sound, Live, HeapType, Queue
<1>2. g = [h EXCEPT !.task = ts, !.queue = qs]
  BY <1>1 DEF Enqueue, HeapType
<1> HIDE DEF g
<1>3. \A j \in Keys : t \notin Range(h.queue[j].tasks)
                      /\ t # h.queue[j].current
  <2>1. ASSUME NEW j \in Keys PROVE QueueOK(h, j, None)
    BY DEF Sound
  <2> QED
    BY <2>1, ConstantsAssumption DEF QueueOK
<1>4. /\ r \in Seq(Tasks) /\ r # <<>>
      /\ \A u \in Range(r) : u \in Range(h.queue[k].tasks) \/ u = t
      /\ \A u \in Range(h.queue[k].tasks) : u \in Range(r)
      /\ t \in Range(r)
      /\ \A i, j \in DOMAIN r : r[i] = r[j] => i = j
  <2>1. /\ old \in Seq(Tasks) /\ t \notin Range(old)
        /\ Distinct(old)
    BY <1>1, <1>3 DEF QueueOK, Distinct
  <2>2. old = h.queue[k].tasks /\ r = Append(old, t)
    OBVIOUS
  <2> HIDE DEF old, r
  <2>3. Extends(old, r, t)
    BY <2>1, <2>2, AppendEffect
  <2> QED
    BY <2>2, <2>3 DEF Extends, Distinct
<1> HIDE DEF r, old
<1>6. /\ q \in Queue /\ q.mem = "live" /\ q.tasks = r
      /\ q.current = h.queue[k].current
      /\ q.idle <=> h.queue[k].idle
      /\ q.cancelled <=> h.queue[k].cancelled
  BY <1>1, <1>4 DEF Queue
<1> HIDE DEF q
<1>7. /\ ts \in [Tasks -> Task] /\ ts[t] = n
      /\ \A u \in Tasks : u # t => ts[u] = h.task[u]
      /\ qs \in [Keys -> Queue] /\ qs[k] = q
      /\ \A j \in Keys \ {k} : qs[j] = h.queue[j]
  BY <1>1, <1>6 DEF HeapType
<1> HIDE DEF ts, qs
<1>8. /\ g \in HeapType /\ g.task = ts /\ g.queue = qs
      /\ g.sources = h.sources /\ g.fault = "none"
  BY <1>1, <1>2, <1>7 DEF HeapType
<1>9. QueueOK(g, k, None)
  <2>1. /\ g.queue[k] = q /\ g.sources[k] = h.sources[k]
        /\ g.task[t] = n /\ \A u \in Tasks : u # t => g.task[u] = h.task[u]
    BY <1>7, <1>8
  <2>2. h.queue[k].current \in Tasks \cup {None}
        /\ Range(h.queue[k].tasks) \subseteq Tasks
    BY <1>1, WaitingAreTasks DEF Queue
  <2>3. q.current # None =>
           /\ g.task[q.current] = h.task[q.current]
           /\ q.current \notin Range(q.tasks)
           /\ HasEnd(g, k, None)
    BY <2>1, <2>2, <1>1, <1>3, <1>4, <1>6, ConstantsAssumption
    DEF QueueOK, HasEnd
  <2>4. \A u \in Range(q.tasks) :
           /\ g.task[u].mem = "live" /\ g.task[u].qid = k
           /\ ~g.task[u].paction /\ ~g.task[u].inflight
    <3>1. ASSUME NEW u \in Range(h.queue[k].tasks)
          PROVE  /\ g.task[u].mem = "live" /\ g.task[u].qid = k
                 /\ ~g.task[u].paction /\ ~g.task[u].inflight
      <4>1. g.task[u] = h.task[u]
        BY <2>1, <2>2, <1>3, <1>1
      <4> QED
        BY <4>1, <1>1 DEF QueueOK
    <3>2. /\ g.task[t].mem = "live" /\ g.task[t].qid = k
          /\ ~g.task[t].paction /\ ~g.task[t].inflight
      BY <2>1
    <3> QED
      BY <3>1, <3>2, <1>4, <1>6
  <2>5. h.sources[k] = IF q.idle THEN 1 ELSE 0
    BY <1>1, <1>6 DEF QueueOK
  <2>6. q.idle => q.tasks # <<>> /\ q.current = None
    BY <1>1, <1>4, <1>6 DEF QueueOK
  <2>7. q.current # None => /\ h.task[q.current].mem = "live"
                            /\ h.task[q.current].qid = k
    BY <1>1, <1>6 DEF QueueOK
  <2>8. /\ q.mem = "live"
        /\ \A i, j \in DOMAIN q.tasks : q.tasks[i] = q.tasks[j] => i = j
    BY <1>4, <1>6
  <2> HIDE DEF q
  <2> QED
    BY <2>1, <2>3, <2>4, <2>5, <2>6, <2>7, <2>8 DEF QueueOK
<1>10. ASSUME NEW j \in Keys, j # k PROVE QueueOK(g, j, None)
  <2>1. QueueOK(h, j, None)
    BY DEF Sound
  <2>2. h.queue[j].current \in Tasks \cup {None}
        /\ Range(h.queue[j].tasks) \subseteq Tasks
    BY <1>1, WaitingAreTasks DEF Queue
  <2>3. /\ g.queue[j] = h.queue[j] /\ g.sources[j] = h.sources[j]
        /\ \A u \in Tasks : u # t => g.task[u] = h.task[u]
    BY <1>7, <1>8, <1>10
  <2>4. \A u \in Range(h.queue[j].tasks) : g.task[u] = h.task[u]
    BY <2>2, <2>3, <1>3
  <2>5. h.queue[j].current # None =>
           /\ g.task[h.queue[j].current] = h.task[h.queue[j].current]
           /\ HasEnd(g, j, None)
    BY <2>1, <2>2, <2>3, <1>3 DEF QueueOK, HasEnd
  <2> QED
    BY <2>1, <2>3, <2>4, <2>5, QueueFrame
<1>11. ASSUME NEW u \in Tasks PROVE TaskOK(g, u)
  <2>1. TaskOK(h, u)
    BY DEF Sound
  <2>2. CASE u = t
    <3>1. g.task[u] = n /\ g.queue[k] = q
      BY <2>2, <1>7, <1>8
    <3> QED
      BY <2>2, <3>1, <1>1, <1>4, <1>6 DEF TaskOK
  <2>3. CASE u # t
    <3>1. g.task[u] = h.task[u]
      BY <2>3, <1>7, <1>8
    <3>2. \A j \in Keys : /\ g.queue[j].mem = h.queue[j].mem
                          /\ g.queue[j].current = h.queue[j].current
                          /\ u \in Range(h.queue[j].tasks)
                                => u \in Range(g.queue[j].tasks)
      <4>1. ASSUME NEW j \in Keys, j # k
            PROVE  g.queue[j] = h.queue[j]
        BY <4>1, <1>7, <1>8
      <4>2. /\ g.queue[k].mem = h.queue[k].mem
            /\ g.queue[k].current = h.queue[k].current
            /\ g.queue[k].tasks = r
        BY <1>1, <1>6, <1>7, <1>8
      <4> QED
        BY <4>1, <4>2, <1>4
    <3> QED
      BY <2>1, <3>1, <3>2 DEF TaskOK
  <2> QED
    BY <2>2, <2>3
<1>12. Sound(g, None)
  BY <1>8, <1>9, <1>10, <1>11 DEF Sound
<1> QED
  BY <1>1, <1>4, <1>6, <1>7, <1>8, <1>12 DEF Live

(* dleyna_task_queue_add_task keeps the invariant: it schedules no second  *)
(* idle source.                                                            *)
LEMMA AddTaskStep ==
    ASSUME IInv, NEW k \in Keys, NEW t \in Tasks, NEW proxy \in BOOLEAN,
           AddTask(k, t, proxy)
    PROVE  IInv'
<1> DEFINE n == [NoTask EXCEPT !.mem = "live", !.qid = k,
                               !.proxy = proxy, !.fate = "waiting"]
           g == Enqueue(Heap, k, t, n)
           starts == /\ ~queue[k].defer /\ k \in AutoStart
                     /\ queue[k].current = None /\ ~queue[k].idle
           h == IF starts THEN ScheduleProcess(g, k) ELSE g
<1>1. /\ Sound(Heap, None) /\ Dispatching /\ k \in Live(Heap)
      /\ UNCHANGED <<quitting, walk>> /\ Heap.task[t].mem = "unused"
      /\ proxy => k \in Service
  BY HeapIsState DEF IInv, AddTask
<1>2. Become(h)
  BY DEF AddTask
<1>3. ~quitting
  BY <1>1, LiveBeforeQuit
<1>4. /\ Sound(g, None) /\ k \in Live(g) /\ g.queue[k].tasks # <<>>
      /\ g.queue[k].current = Heap.queue[k].current
      /\ g.queue[k].idle <=> Heap.queue[k].idle
      /\ g.queue[k].cancelled <=> Heap.queue[k].cancelled
      /\ \A j \in Keys \ {k} : g.queue[j] = Heap.queue[j]
  <2>1. /\ n \in Task /\ n.mem = "live" /\ n.qid = k
        /\ ~n.paction /\ ~n.inflight /\ (n.proxy => k \in Service)
    BY <1>1 DEF NoTask, Task, Memory, Fates
  <2> HIDE DEF n
  <2> HIDE DEF h
  <2> QED
    BY <2>1, <1>1, AddedSound
<1> HIDE DEF g
<1>5. /\ Sound(h, None) /\ \A j \in Keys \ {k} : h.queue[j] = Heap.queue[j]
      /\ k \in Service => h.queue[k].current = None \/ ~h.queue[k].cancelled
  <2>1. CASE starts
    <3>1. h = ScheduleProcess(g, k)
      BY <2>1
    <3>2. g.queue[k].current = None /\ ~g.queue[k].idle
      BY <2>1, <1>4, HeapIsState
    <3> HIDE DEF h, starts
    <3>3. /\ Sound(h, None) /\ h.queue[k].current = None
          /\ \A j \in Keys \ {k} : h.queue[j] = g.queue[j]
      BY <3>1, <3>2, <1>4, ScheduleProcessSound
    <3> QED
      BY <3>3, <1>4
  <2>2. CASE ~starts
    <3>1. h = g
      BY <2>2
    <3> HIDE DEF h
    <3>2. k \in Service =>
             Heap.queue[k].current = None \/ ~Heap.queue[k].cancelled
      BY HeapIsState DEF IInv, ServiceNotCancelled
    <3> QED
      BY <3>1, <3>2, <1>4
  <2> QED
    BY <2>1, <2>2
<1> HIDE DEF h
<1> QED
  BY <1>1, <1>2, <1>3, <1>5, HeapIsState, EventKeepsIInv

(* Where the walk starts, nothing is about to be taken for cancelled, and  *)
(* what runs will be completed by its own cancellation.                    *)
LEMMA SetQuittingStep ==
    ASSUME IInv, Contract = Clauses, SetQuitting
    PROVE  IInv'
<1> DEFINE h == IF running = 0 THEN ScheduleOnQuit(Heap) ELSE Heap
<1>1. Sound(Heap, None) /\ Become(h)
  BY DEF IInv, SetQuitting
<1>2. Sound(h, None) /\ h.queue = Heap.queue
  <2> DEFINE s == ScheduleOnQuit(Heap)
  <2>1. Sound(s, None) /\ s.queue = Heap.queue
    BY <1>1, ScheduleOnQuitSound
  <2> HIDE DEF s
  <2> QED
    BY <2>1, <1>1 DEF s
<1> HIDE DEF h
<1>3. Heap' = h /\ queue' = queue
  BY <1>1, <1>2, HeapIsState, BecomeEffect DEF Sound
<1>4. /\ walk' = [op |-> "quit", todo |-> Live(Heap)] /\ quitting' = TRUE
      /\ Quiet /\ \A k \in Live(Heap) : ~Stale(k)
  BY DEF SetQuitting, Kept, Clauses
<1>5. Live(Heap') = Live(Heap) /\ Live(Heap) \subseteq Keys
  BY <1>2, <1>3 DEF Live
<1>6. Quiet'
  BY <1>3, <1>4, <1>5 DEF Quiet, Busy
<1>7. \A k \in Live(Heap) : ~Stale(k)'
  BY <1>3, <1>4 DEF Stale
<1>8. WalkOK'
  BY <1>4, <1>5, <1>6, <1>7 DEF WalkOK
<1>9. ServiceNotCancelled'
  BY <1>3 DEF IInv, ServiceNotCancelled
<1> QED
  BY <1>2, <1>3, <1>4, <1>8, <1>9 DEF IInv

(* The start of remove_queues_for_source or _for_sink keeps the invariant. *)
LEMMA BeginRemovalStep ==
    ASSUME IInv, Contract = Clauses, NEW matching, BeginRemoval(matching)
    PROVE  IInv'
<1> DEFINE todo == {k \in matching \cap Live(Heap) : ~queue[k].defer}
<1>1. /\ Dispatching /\ todo # {} /\ todo \subseteq Live(Heap)
      /\ todo \cap (AutoRemove \cup Service) = {}
      /\ \A k \in todo : ~Stale(k)
      /\ walk' = [op |-> "remove", todo |-> todo]
      /\ UNCHANGED <<queue, task, running, quitting, onQuit, sources, fault>>
  BY DEF BeginRemoval, Kept, Clauses
<1> HIDE DEF todo
<1>2. ~quitting
  BY <1>1, LiveBeforeQuit
<1>3. Heap' = Heap /\ queue' = queue /\ quitting' = quitting
  BY <1>1 DEF Heap
<1>4. Live(Heap') = Live(Heap) /\ Live(Heap) \subseteq Keys
  BY <1>3 DEF Live
<1>5. \A k \in todo : ~Stale(k)'
  BY <1>1, <1>3 DEF Stale
<1>6. WalkOK'
  BY <1>1, <1>2, <1>3, <1>4, <1>5 DEF WalkOK
<1>7. ServiceNotCancelled'
  BY <1>3 DEF IInv, ServiceNotCancelled
<1> QED
  BY <1>3, <1>6, <1>7 DEF IInv

(* One call of prv_free_queue_for_source or _for_sink keeps the invariant. *)
LEMMA VisitToRemoveStep ==
    ASSUME IInv, NEW k \in Keys, VisitToRemove(k)
    PROVE  IInv'
<1> DEFINE h == FreeQueueFor(Heap, k)
<1>1. /\ Sound(Heap, None) /\ WalkOK /\ walk.op = "remove" /\ k \in walk.todo
      /\ Become(h) /\ walk' = [walk EXCEPT !.todo = walk.todo \ {k}]
      /\ quitting' = quitting /\ quitting \in BOOLEAN
  BY DEF IInv, VisitToRemove
<1>2. /\ k \in Live(Heap) /\ k \notin Service \cup AutoRemove /\ ~Stale(k)
      /\ ~quitting
  BY <1>1 DEF WalkOK
<1>3. ~(Heap.queue[k].cancelled /\ Heap.queue[k].idle)
  BY <1>2, HeapIsState DEF Stale
<1>4. /\ Sound(h, None)
      /\ \A j \in Keys \ {k} : h.queue[j] = Heap.queue[j]
  <2>1. h = FreeQueueFor(Heap, k)
    OBVIOUS
  <2> HIDE DEF h
  <2> QED
    BY <2>1, <1>1, <1>2, <1>3, FreeQueueForSound
<1> HIDE DEF h
<1>5. /\ Heap' = h /\ queue' = h.queue
      /\ \A j \in Keys \ {k} : queue'[j] = queue[j]
  BY <1>1, <1>4, HeapIsState, BecomeEffect DEF Sound
<1>6. ServiceNotCancelled'
  <2>1. \A j \in Service : j \in Keys /\ j # k
    BY <1>2, ConstantsAssumption
  <2> QED
    BY <2>1, <1>5 DEF IInv, ServiceNotCancelled
<1>7. /\ walk' \in [op : {"none", "quit", "remove"}, todo : SUBSET Keys]
      /\ walk'.op = "remove" /\ walk'.todo = walk.todo \ {k}
  BY <1>1 DEF WalkOK
<1>8. WalkOK'
  <2>1. \A j \in walk'.todo : j \in Keys /\ j # k /\ j \in walk.todo
    BY <1>1, <1>7 DEF WalkOK
  <2>2. \A j \in walk'.todo : j \in Live(Heap')
    <3>1. \A j \in walk'.todo : Heap.queue[j].mem = "live"
      BY <2>1, <1>1 DEF WalkOK, Live
    <3> QED
      BY <2>1, <3>1, <1>4, <1>5 DEF Live
  <2>3. \A j \in walk'.todo : ~Stale(j)'
    BY <2>1, <1>1, <1>5 DEF WalkOK, Stale
  <2>4. walk'.todo \cap (AutoRemove \cup Service) = {}
    BY <1>1, <1>7 DEF WalkOK
  <2> QED
    BY <2>2, <2>3, <2>4, <1>1, <1>2, <1>7 DEF WalkOK
<1> QED
  BY <1>1, <1>4, <1>5, <1>6, <1>8 DEF IInv

(* The end of a walk keeps the invariant: what set_quitting then removes   *)
(* runs no task and has no idle source.                                    *)
LEMMA EndWalkStep ==
    ASSUME IInv, EndWalk
    PROVE  IInv'
<1> DEFINE h == IF walk.op = "quit" THEN RemoveAll(Heap) ELSE Heap
<1>1. /\ Sound(Heap, None) /\ WalkOK /\ walk.op # "none" /\ walk.todo = {}
      /\ Become(h) /\ walk' = NoWalk /\ quitting' = quitting
      /\ quitting \in BOOLEAN
  BY DEF IInv, EndWalk
<1>2. /\ Sound(h, None)
      /\ quitting => Live(h) = {}
      /\ \A k \in Keys : \/ h.queue[k] = Heap.queue[k]
                         \/ h.queue[k].current = None
  <2>1. CASE walk.op = "quit"
    <3> DEFINE K == Live(Heap)
               r == RemoveQueues(Heap, K)
    <3>1. \A k \in K : Heap.queue[k].current = None /\ ~Heap.queue[k].idle
      BY <2>1, <1>1, HeapIsState DEF WalkOK
    <3>2. /\ Sound(r, None)
          /\ \A k \in K : r.queue[k] = FreedQueue(Heap.queue[k])
          /\ \A k \in Keys \ K : r.queue[k] = Heap.queue[k]
          /\ Live(r) = Live(Heap) \ K
      <4>1. r = RemoveQueues(Heap, K) /\ K \in SUBSET Live(Heap)
        OBVIOUS
      <4> HIDE DEF r, h, K
      <4> QED
        BY <4>1, <3>1, <1>1, RemoveQueuesSound
    <3>3. h = r
      BY <2>1 DEF RemoveAll
    <3>4. Live(r) = {}
      BY <3>2
    <3> HIDE DEF r, h, K
    <3>5. \A k \in K : r.queue[k].current = None
      BY <3>2, FreedQueueEffect
    <3> QED
      BY <3>2, <3>3, <3>4, <3>5
  <2>2. CASE walk.op # "quit"
    BY <2>2, <1>1 DEF WalkOK
  <2> QED
    BY <2>1, <2>2
<1> HIDE DEF h
<1>3. Heap' = h /\ queue' = h.queue
  BY <1>1, <1>2, BecomeEffect DEF Sound
<1>4. ServiceNotCancelled'
  BY <1>2, <1>3, HeapIsState, ConstantsAssumption DEF IInv, ServiceNotCancelled
<1>5. WalkOK'
  BY <1>1, <1>2, <1>3 DEF WalkOK, NoWalk
<1> QED
  BY <1>1, <1>2, <1>3, <1>4, <1>5 DEF IInv

(* What prv_cancel_cb leaves of the queue it visits: nothing that runs or  *)
(* is about to.  The other queues stay, unless the visit completed the     *)
(* task that was running and nothing else was.                             *)
LEMMA VisitEffect ==
    ASSUME NEW h, Sound(h, None), NEW k \in Live(h), quitting,
           ~(h.queue[k].cancelled /\ h.queue[k].idle),
           h.queue[k].current # None =>
              /\ k \in Service /\ ~h.queue[k].cancelled
              /\ \A j \in Keys \ {k} :
                    h.queue[j].current = None /\ ~h.queue[j].idle,
           NEW c, c = CancelOnly(h, k),
           NEW v, v = IF CancelRemoves(h, k) THEN RemoveQueues(c, {k}) ELSE c
    PROVE  /\ Sound(v, None)
           /\ v.queue[k].current = None /\ ~v.queue[k].idle
           /\ \A j \in Keys \ {k} :
                 \/ v.queue[j] = h.queue[j]
                 \/ /\ h.queue[k].current # None
                    /\ v.queue[j].current = None /\ ~v.queue[j].idle
           /\ h.queue[k].current = None => Live(c) = Live(h)
<1>1. h \in HeapType /\ k \in Keys /\ h.queue[k].mem = "live"
  BY DEF Sound, Live
<1>2. /\ Sound(c, None)
      /\ \A j \in Keys \ {k} :
            \/ c.queue[j] = h.queue[j]
            \/ /\ quitting /\ h.queue[k].current # None
               /\ c.queue[j].mem = "freed"
      /\ \/ h.queue[k].cancelled /\ c = h
         \/ /\ ~h.queue[k].cancelled /\ ~c.queue[k].idle
            /\ IF k \in Service THEN c.queue[k].current = None
               ELSE c.queue[k].current = h.queue[k].current
            /\ k \notin Service \/ h.queue[k].current = None
                  => c.queue[k].mem = "live"
            /\ k \notin Service /\ h.queue[k].defer
                  => c.queue[k].defer
  BY CancelOnlySound
<1>3. c.queue[k].current = None /\ ~c.queue[k].idle
  BY <1>2
<1>4. h.queue[k].current = None => c.queue[k].mem = "live"
  BY <1>1, <1>2
<1>5. \A j \in Keys \ {k} :
         \/ c.queue[j] = h.queue[j]
         \/ /\ h.queue[k].current # None
            /\ c.queue[j].current = None /\ ~c.queue[j].idle
  <2>1. \A j \in Keys : QueueOK(c, j, None)
    BY <1>2 DEF Sound
  <2>2. \A j \in Keys : c.queue[j].mem = "freed" =>
           c.queue[j].current = None /\ ~c.queue[j].idle
    BY <2>1 DEF QueueOK
  <2> QED
    BY <2>2, <1>2
<1>6. h.queue[k].current = None => Live(c) = Live(h)
  BY <1>1, <1>2, <1>4 DEF Live
<1>7. CASE CancelRemoves(h, k)
  <2>1. h.queue[k].current = None
    BY <1>7 DEF CancelRemoves
  <2>2. k \in Live(c) /\ v = RemoveQueues(c, {k})
    BY <2>1, <1>1, <1>4, <1>7 DEF Live
  <2>3. /\ Sound(v, None) /\ v.queue[k] = FreedQueue(c.queue[k])
        /\ \A j \in Keys \ {k} : v.queue[j] = c.queue[j]
    BY <2>2, <1>2, <1>3, RemoveQueuesSound
  <2>4. v.queue[k].current = None /\ ~v.queue[k].idle
    BY <2>3, FreedQueueEffect
  <2> QED
    BY <2>3, <2>4, <1>5, <1>6
<1>8. CASE ~CancelRemoves(h, k)
  <2>1. v = c
    BY <1>8
  <2> QED
    BY <2>1, <1>2, <1>3, <1>5, <1>6
<1> QED
  BY <1>7, <1>8

(* One call of prv_cancel_cb keeps the invariant, even if it makes GLib    *)
(* give up the walk: then the only running queue was the one it cancelled. *)
LEMMA VisitToQuitStep ==
    ASSUME IInv, NEW k \in Keys, VisitToQuit(k)
    PROVE  IInv'
<1> DEFINE c == CancelOnly(Heap, k)
           v == IF CancelRemoves(Heap, k) THEN RemoveQueues(c, {k}) ELSE c
           rest == (walk.todo \ {k}) \cap Live(v)
<1>1. /\ Sound(Heap, None) /\ WalkOK /\ walk.op = "quit" /\ k \in walk.todo
      /\ Become(v) /\ quitting' = quitting /\ quitting
      /\ quitting \in BOOLEAN /\ ServiceNotCancelled
      /\ Live(Heap) \subseteq Keys
  BY DEF IInv, VisitToQuit, WalkOK, Live
<1>2. PICK left \in IF Live(c) # Live(Heap) THEN SUBSET rest ELSE {rest} :
         walk' = [walk EXCEPT !.todo = left]
  BY DEF VisitToQuit
<1>3. left \subseteq rest /\ (Live(c) = Live(Heap) => left = rest)
  BY <1>2
<1>4. /\ k \in Live(Heap) /\ ~Stale(k) /\ Quiet
      /\ \A j \in Live(Heap) \ walk.todo :
            queue[j].current = None /\ ~queue[j].idle
  BY <1>1 DEF WalkOK
<1>5. queue[k].current # None =>
         /\ k \in Service /\ ~queue[k].cancelled
         /\ \A j \in Live(Heap) \ {k} : queue[j].current = None
         /\ \A j \in Live(Heap) : ~queue[j].idle
  BY <1>1, <1>4 DEF Quiet, Busy, ServiceNotCancelled
<1>6. \A j \in Keys : j \notin Live(Heap) =>
                         queue[j].current = None /\ ~queue[j].idle
  <2>1. \A j \in Keys : QueueOK(Heap, j, None)
    BY <1>1 DEF Sound
  <2> QED
    BY <2>1, HeapIsState DEF QueueOK
<1>7. /\ Sound(v, None)
      /\ v.queue[k].current = None /\ ~v.queue[k].idle
      /\ \A j \in Keys \ {k} :
            \/ v.queue[j] = queue[j]
            \/ /\ queue[k].current # None
               /\ v.queue[j].current = None /\ ~v.queue[j].idle
      /\ queue[k].current = None => Live(c) = Live(Heap)
  <2>1. c = CancelOnly(Heap, k)
        /\ v = IF CancelRemoves(Heap, k) THEN RemoveQueues(c, {k}) ELSE c
    OBVIOUS
  <2>2. ~(Heap.queue[k].cancelled /\ Heap.queue[k].idle)
    BY <1>4, HeapIsState DEF Stale
  <2>3. Heap.queue[k].current # None =>
           /\ k \in Service /\ ~Heap.queue[k].cancelled
           /\ \A j \in Keys \ {k} :
                 Heap.queue[j].current = None /\ ~Heap.queue[j].idle
    BY <1>5, <1>6, HeapIsState
  <2> HIDE DEF c, v, rest
  <2>4. /\ Sound(v, None)
        /\ v.queue[k].current = None /\ ~v.queue[k].idle
        /\ \A j \in Keys \ {k} :
              \/ v.queue[j] = Heap.queue[j]
              \/ /\ Heap.queue[k].current # None
                 /\ v.queue[j].current = None /\ ~v.queue[j].idle
        /\ Heap.queue[k].current = None => Live(c) = Live(Heap)
    BY <2>1, <2>2, <2>3, <1>1, <1>4, VisitEffect
  <2> QED
    BY <2>4, HeapIsState
<1> HIDE DEF c, v
<1>8. Heap' = v /\ queue' = v.queue
  BY <1>1, <1>7, BecomeEffect DEF Sound
<1>9. /\ walk' \in [op : {"none", "quit", "remove"}, todo : SUBSET Keys]
      /\ walk'.op = "quit" /\ walk'.todo = left
  BY <1>1, <1>2, <1>3 DEF WalkOK
<1>10. \A j \in Keys \ {k} :
          \/ queue'[j] = queue[j]
          \/ queue'[j].current = None /\ ~queue'[j].idle
  BY <1>7, <1>8
<1>11. queue'[k].current = None /\ ~queue'[k].idle
  BY <1>7, <1>8
<1>12. \A j \in Live(Heap') \ left :
          queue'[j].current = None /\ ~queue'[j].idle
  <2>1. CASE queue[k].current = None
    <3>1. left = rest
      BY <2>1, <1>3, <1>7
    <3>2. \A j \in Keys \ {k} : queue'[j] = queue[j]
      BY <2>1, <1>7, <1>8
    <3>3. ASSUME NEW j \in Live(Heap') \ left, j # k
          PROVE  queue'[j].current = None /\ ~queue'[j].idle
      <4>1. j \in Keys /\ j \notin walk.todo
        BY <3>1, <3>3, <1>8 DEF Live
      <4> QED
        BY <4>1, <3>2, <3>3, <1>4, <1>6
    <3> QED
      BY <3>3, <1>11
  <2>2. CASE queue[k].current # None
    <3>1. ASSUME NEW j \in Keys \ {k}
          PROVE  queue'[j].current = None /\ ~queue'[j].idle
      <4>1. queue[j].current = None /\ ~queue[j].idle
        BY <2>2, <1>5, <1>6
      <4> QED
        BY <4>1, <1>10
    <3> QED
      BY <3>1, <1>11 DEF Live
  <2> QED
    BY <2>1, <2>2
<1>13. Quiet'
  <2>1. \A j \in Keys : queue'[j].current # None =>
           j # k /\ queue'[j] = queue[j] /\ queue[j].current # None
    BY <1>10, <1>11
  <2>2. \A j \in Keys : queue'[j].idle => queue[j].idle
    BY <1>10, <1>11
  <2>3. CASE \A j \in Live(Heap') : queue'[j].current = None
    BY <2>3 DEF Quiet, Busy
  <2>4. CASE \E j \in Live(Heap') : queue'[j].current # None
    <3>1. PICK j \in Live(Heap') : queue'[j].current # None
      BY <2>4
    <3>2. j \in Keys /\ queue[j].current # None
      BY <2>1, <3>1 DEF Live
    <3>3. j \in Live(Heap) /\ j \in Busy
      BY <3>2, <1>6 DEF Busy
    <3>4. /\ j \in Service /\ Busy = {j}
          /\ \A i \in Live(Heap) : ~queue[i].idle
      BY <3>3, <1>4 DEF Quiet
    <3>5. \A i \in Keys : queue[i].current # None => i = j
      BY <3>4, <1>6 DEF Busy
    <3>6. \A i \in Live(Heap') : queue'[i].current # None => i = j
      BY <2>1, <3>5 DEF Live
    <3>7. \A i \in Live(Heap') : ~queue'[i].idle
      BY <2>2, <3>4, <1>6 DEF Live
    <3>8. Busy' = {j}
      BY <3>1, <3>6 DEF Busy
    <3> QED
      BY <3>4, <3>7, <3>8 DEF Quiet
  <2> QED
    BY <2>3, <2>4
<1>14. \A j \in left : j \in Live(Heap') /\ ~Stale(j)'
  <2>1. ASSUME NEW j \in left PROVE j \in Live(Heap') /\ ~Stale(j)'
    <3>1. j \in walk.todo /\ j # k /\ j \in Live(Heap') /\ j \in Keys
      BY <1>1, <1>3, <1>8 DEF WalkOK
    <3>2. ~(queue[j].cancelled /\ queue[j].idle)
      BY <3>1, <1>1 DEF WalkOK, Stale
    <3> QED
      BY <3>1, <3>2, <1>10 DEF Stale
  <2> QED
    BY <2>1
<1>15. WalkOK'
  BY <1>1, <1>9, <1>12, <1>13, <1>14 DEF WalkOK
<1>16. ServiceNotCancelled'
  BY <1>1, <1>10, <1>11, ConstantsAssumption DEF ServiceNotCancelled
<1> QED
  BY <1>1, <1>7, <1>8, <1>15, <1>16 DEF IInv

(* dleyna_task_processor_new establishes the invariant.                    *)
LEMMA InitEstablishesIInv ==
    ASSUME Init
    PROVE  IInv
<1>1. Heap \in HeapType
  <2>1. << >> \in Seq(Tasks)
    OBVIOUS
  <2>2. NoQueue \in Queue
    BY <2>1 DEF NoQueue, Queue, Memory, Told
  <2>3. NoTask \in Task
    BY DEF NoTask, Task, Memory, Fates
  <2>4. 0 \in 0..MaxUInt
    BY BoundAssumption
  <2> QED
    BY <2>2, <2>3, <2>4 DEF Init, Heap, HeapType, Faults
<1>2. \A k \in Keys : Heap.queue[k] = NoQueue /\ Heap.sources[k] = 0
  BY HeapIsState DEF Init
<1>3. \A t \in Tasks : Heap.task[t] = NoTask
  BY HeapIsState DEF Init
<1>4. \A k \in Keys : QueueOK(Heap, k, None)
  <2>1. /\ NoQueue.mem = "unused" /\ NoQueue.tasks = <<>> /\ ~NoQueue.idle
        /\ NoQueue.current = None /\ Range(NoQueue.tasks) = {}
        /\ DOMAIN NoQueue.tasks = {}
    BY DEF NoQueue, Range
  <2> QED
    BY <2>1, <1>2 DEF QueueOK
<1>5. \A t \in Tasks : TaskOK(Heap, t)
  <2>1. /\ NoTask.mem = "unused" /\ ~NoTask.paction /\ ~NoTask.inflight
        /\ ~NoTask.proxy
    BY DEF NoTask
  <2> QED
    BY <2>1, <1>3 DEF TaskOK
<1>6. Sound(Heap, None)
  BY <1>1, <1>4, <1>5, HeapIsState DEF Sound, Init
<1>7. ServiceNotCancelled
  BY <1>2, HeapIsState, ConstantsAssumption DEF ServiceNotCancelled, NoQueue
<1>8. WalkOK
  BY DEF Init, WalkOK, NoWalk
<1> QED
  BY <1>6, <1>7, <1>8 DEF IInv, Init

(* One step per action.                                                    *)
LEMMA NextKeepsIInv ==
    ASSUME IInv, Contract = Clauses, [Next]_vars
    PROVE  IInv'
<1>1. CASE UNCHANGED vars
  BY <1>1 DEF vars, IInv, Heap, Sound, ServiceNotCancelled, WalkOK, Stale,
              Live, Quiet, Busy
<1>2. CASE Caller
  <2>1. ASSUME NEW k \in Keys,
               \/ AddQueue(k) \/ SetFinally(k) \/ StartQueue(k)
               \/ CancelQueue(k)
        PROVE  IInv'
    BY <2>1, AddQueueStep, SetFinallyStep, StartQueueStep, CancelQueueStep
  <2>2. ASSUME NEW k \in Keys, NEW t \in Tasks, NEW proxy \in BOOLEAN,
               AddTask(k, t, proxy)
        PROVE  IInv'
    BY <2>2, AddTaskStep
  <2>3. ASSUME NEW source, RemoveQueuesForSource(source)
        PROVE  IInv'
    BY <2>3, BeginRemovalStep DEF RemoveQueuesForSource
  <2>4. ASSUME NEW sink, RemoveQueuesForSink(sink)
        PROVE  IInv'
    BY <2>4, BeginRemovalStep DEF RemoveQueuesForSink
  <2> QED
    BY <1>2, <2>1, <2>2, <2>3, <2>4 DEF Caller
<1>3. CASE SetQuitting
  BY <1>3, SetQuittingStep
<1>4. CASE Loop
  <2>1. ASSUME NEW k \in Keys, NEW failed \in BOOLEAN, NEW action \in BOOLEAN,
               ProcessTask(k, failed, action)
        PROVE  IInv'
    BY <2>1, ProcessTaskStep
  <2>2. ASSUME NEW k \in Keys, VisitToQuit(k) \/ VisitToRemove(k)
        PROVE  IInv'
    BY <2>2, VisitToQuitStep, VisitToRemoveStep
  <2>3. CASE EndWalk
    BY <2>3, EndWalkStep
  <2> QED
    BY <1>4, <2>1, <2>2, <2>3 DEF Loop, Walk
<1>5. CASE Network
  <2>1. ASSUME NEW t \in Tasks, NEW cancels \in BOOLEAN,
               ServiceTaskDone(t, cancels)
        PROVE  IInv'
    BY <2>1, ServiceTaskDoneStep
  <2>2. ASSUME NEW t \in Tasks, ClientTaskDone(t) \/ ProxyLost(t)
        PROVE  IInv'
    BY <2>2, ClientTaskDoneStep, ProxyLostStep
  <2> QED
    BY <1>5, <2>1, <2>2 DEF Network
<1> QED
  BY <1>1, <1>2, <1>3, <1>4, <1>5 DEF Next

(* If its callers keep the whole contract, the heap of the task processor  *)
(* is sound between any two events and at every step of a walk.            *)
THEOREM InductiveInvariant ==
    ASSUME Contract = Clauses
    PROVE  Spec => []IInv
<1>1. Init => IInv
  BY InitEstablishesIInv
<1>2. IInv /\ [Next]_vars => IInv'
  BY NextKeepsIInv
<1> QED
  BY <1>1, <1>2, PTL DEF Spec

(* Every state of the task processor has its type, running_tasks included: *)
(* the guint never leaves its range.                                       *)
THEOREM TypeCorrect ==
    ASSUME Contract = Clauses
    PROVE  Spec => []TypeOK
<1>1. IInv => TypeOK
  BY HeapIsState DEF IInv, Sound, HeapType, WalkOK, TypeOK
<1> QED
  BY <1>1, InductiveInvariant, PTL

(* No callback, completion, idle source or weak pointer reaches freed      *)
(* memory.                                                                 *)
THEOREM MemorySafe ==
    ASSUME Contract = Clauses
    PROVE  Spec => []NoFault
<1>1. IInv => NoFault
  BY HeapIsState DEF IInv, Sound, NoFault
<1> QED
  BY <1>1, InductiveInvariant, PTL

(* A queue has at most one prv_process_task source, exactly when idle_id   *)
(* says so, and then a task to take and none running.                      *)
THEOREM SourcesTracked ==
    ASSUME Contract = Clauses
    PROVE  Spec => []IdleSourcesTracked
<1>1. ASSUME IInv, NEW k \in Keys
      PROVE  /\ sources[k] = IF k \in Live(Heap) /\ queue[k].idle THEN 1 ELSE 0
             /\ queue[k].idle => queue[k].tasks # <<>> /\ queue[k].current = None
  <2>1. QueueOK(Heap, k, None)
    BY <1>1 DEF IInv, Sound
  <2> QED
    BY <2>1, HeapIsState DEF QueueOK
<1>2. IInv => IdleSourcesTracked
  BY <1>1 DEF IdleSourcesTracked
<1> QED
  BY <1>2, InductiveInvariant, PTL

(* The slots of a live queue hold live tasks of its own, each once.        *)
THEOREM SlotsAreLive ==
    ASSUME Contract = Clauses
    PROVE  Spec => []SlotsHoldLiveTasks
<1>1. ASSUME IInv, NEW k \in Live(Heap)
      PROVE  LET q == queue[k]
             IN  /\ q.current # None =>
                       /\ task[q.current].mem = "live"
                       /\ task[q.current].qid = k
                       /\ q.current \notin Range(q.tasks)
                 /\ \A i \in DOMAIN q.tasks :
                       /\ task[q.tasks[i]].mem = "live"
                       /\ task[q.tasks[i]].qid = k
                       /\ \A j \in DOMAIN q.tasks :
                             q.tasks[i] = q.tasks[j] => i = j
  <2>1. QueueOK(Heap, k, None)
    BY <1>1 DEF IInv, Sound, Live
  <2>2. \A i \in DOMAIN queue[k].tasks :
           queue[k].tasks[i] \in Range(queue[k].tasks)
    BY DEF Range
  <2> QED
    BY <2>1, <2>2, HeapIsState DEF QueueOK
<1>2. IInv => SlotsHoldLiveTasks
  BY <1>1 DEF SlotsHoldLiveTasks
<1> QED
  BY <1>2, InductiveInvariant, PTL

(* A task that has not been deleted is in a slot of a queue that will.     *)
THEOREM TasksAreOwned ==
    ASSUME Contract = Clauses
    PROVE  Spec => []NoTaskLeaks
<1>1. ASSUME IInv, NEW t \in Tasks, task[t].mem = "live"
      PROVE  /\ task[t].qid \in Live(Heap)
             /\ \/ queue[task[t].qid].current = t
                \/ t \in Range(queue[task[t].qid].tasks)
  <2>1. TaskOK(Heap, t)
    BY <1>1 DEF IInv, Sound
  <2> QED
    BY <2>1, <1>1, HeapIsState DEF TaskOK
<1>2. IInv => NoTaskLeaks
  BY <1>1 DEF NoTaskLeaks
<1> QED
  BY <1>2, InductiveInvariant, PTL

(* What is in flight belongs to the current task of a live queue, and a    *)
(* current task has something that ends it.                                *)
THEOREM InFlightOwned ==
    ASSUME Contract = Clauses
    PROVE  Spec => []InFlightIsCurrent
<1>1. ASSUME IInv, NEW t \in Tasks, task[t].inflight \/ task[t].paction
      PROVE  task[t].qid \in Live(Heap) /\ queue[task[t].qid].current = t
  BY <1>1, HeapIsState, InFlightHasQueue DEF IInv
<1>2. ASSUME IInv, NEW k \in Busy
      PROVE  IF k \in Service THEN task[queue[k].current].paction
                              ELSE task[queue[k].current].inflight
  <2>1. k \in Keys /\ queue[k].current # None
    BY DEF Busy, Live
  <2>2. QueueOK(Heap, k, None)
    BY <1>2, <2>1 DEF IInv, Sound
  <2> QED
    BY <2>1, <2>2, HeapIsState, ConstantsAssumption DEF QueueOK, HasEnd
<1>3. IInv => InFlightIsCurrent
  BY <1>1, <1>2 DEF InFlightIsCurrent
<1> QED
  BY <1>3, InductiveInvariant, PTL

=============================================================================
