--------------------------- MODULE MainLoopProofs ---------------------------
(***************************************************************************)
(* The daemon tears itself down in order, whenever it is told to.  The     *)
(* task processor takes part in every step, so that its own invariant,     *)
(* AccountInv, is a part of the one proved here.                           *)
(***************************************************************************)
EXTENDS MainLoop, TaskProcessorPromise

(* The places the parts of the daemon can be in.                           *)
Places ==
    /\ stage \in {"starting", "running", "returned"}
    /\ connector \in {"none", "connected", "released"}
    /\ connection \in {"unset", "set", "lost"}
    /\ service \in {"none", "started", "stopped"}
    /\ controlPoint \in {"none", "initialized", "freed"}
    /\ error \in BOOLEAN /\ loopQuit \in BOOLEAN
    /\ retval \in {0, 1}
    /\ quitRuns \in Nat /\ timers \in Nat /\ disconnects \in Nat
    /\ requests \in 0..MaxRequests /\ pending \in 0..requests
    /\ held \in [from : Nat, to : Nat]

(* What each step of the teardown follows: on_quit_cb the quit, the timer  *)
(* on_quit_cb, the end of the loop either the timer or an error.  Only a   *)
(* service that is started gives work to the processor, and what was       *)
(* disconnected was acquired.                                              *)
Teardown ==
    /\ onQuit > 0 => quitting
    /\ quitRuns <= onQuit
    /\ timers > 0 => quitRuns > 0
    /\ loopQuit => error \/ quitRuns > 0
    /\ error => service # "started" /\ connection # "unset"
    /\ service = "none" => Live(Heap) = {}
    /\ service # "none" => connection # "unset"
    /\ service = "stopped" => quitRuns > 0
    /\ disconnects > 0 => connection # "unset"
    /\ connection = "set" => service # "none" \/ error
    /\ service # "none" \/ error =>
          /\ disconnects = Notified
          /\ service = "stopped" <=> Notified > 0

(* What dleyna_main_loop_start holds where it is.                          *)
Stages ==
    /\ late = {}
    /\ stage = "starting" =>
          /\ connector = "none" /\ controlPoint = "none"
          /\ service = "none" /\ retval = 1
    /\ stage = "running" =>
          connector = "connected" /\ controlPoint = "initialized"
    /\ stage = "returned" =>
          /\ connector # "connected" /\ controlPoint # "initialized"
          /\ Live(Heap) = {}
          /\ retval = 0 => quitRuns > 0

(* The inductive invariant of the daemon.                                  *)
MainInv == AccountInv /\ Places /\ Teardown /\ Stages

-----------------------------------------------------------------------------
(***************************************************************************)
(* What a step of the processor means to the daemon.                       *)
(***************************************************************************)

(* Nothing but set_quitting and what follows it schedules on_quit_cb.      *)
LEMMA OnQuitFollowsQuit ==
    ASSUME AccountInv, Contract = Clauses, [Next]_vars, onQuit > 0 => quitting
    PROVE  /\ AccountInv'
           /\ onQuit' > 0 => quitting'
           /\ onQuit' >= onQuit
<1>1. /\ AccountInv' /\ Outcome
  BY NextKeepsAccountInv, NextOutcome DEF AccountInv
<1>2. /\ Heap.onQuit = onQuit /\ Heap'.onQuit = onQuit'
      /\ onQuit \in Nat /\ onQuit' \in Nat
  BY <1>1 DEF AccountInv, IInv, Sound, HeapType, Heap
<1>3. ASSUME Advanced, quitting' = quitting
      PROVE  (onQuit' > 0 => quitting') /\ onQuit' >= onQuit
  <2>1. onQuit' = onQuit \/ (quitting /\ onQuit' > onQuit)
    BY <1>2, <1>3 DEF Advanced, Leads, Moves
  <2> QED
    BY <2>1, <1>2, <1>3
<1>4. ASSUME NEW k \in Keys, Created(Heap, Heap', k)
      PROVE  onQuit' = onQuit
  BY <1>2, <1>4 DEF Created
<1>5. ASSUME NEW k \in Keys, NEW t \in Tasks, Submitted(Heap, Heap', k, t)
      PROVE  onQuit' = onQuit
  BY <1>2, <1>5 DEF Submitted
<1>6. ASSUME NEW k \in Keys, Began(Heap, Heap', k), ~quitting
      PROVE  onQuit' = onQuit
  BY <1>2, <1>6 DEF Began, Took, Moves
<1>7. ASSUME Closed(Heap, Heap')
      PROVE  onQuit' >= onQuit
  BY <1>2, <1>7 DEF Closed
<1>8. ASSUME onQuit' = onQuit
      PROVE  onQuit' >= onQuit
  BY <1>2, <1>8
<1> QED
  BY <1>1, <1>3, <1>4, <1>5, <1>6, <1>7, <1>8 DEF Outcome

(* Only the users of the processor create a queue.                         *)
LEMMA OnlyCallersCreate ==
    ASSUME IInv, Fated(Heap), Contract = Clauses, Loop \/ Network
    PROVE  Live(Heap') \subseteq Live(Heap)
<1>1. ASSUME Advanced PROVE Live(Heap') \subseteq Live(Heap)
  BY <1>1 DEF Advanced, Leads, Moves, QueueStep, Live
<1>2. ASSUME NEW k \in Keys, NEW failed \in BOOLEAN, NEW action \in BOOLEAN,
             ProcessTask(k, failed, action)
      PROVE  Live(Heap') \subseteq Live(Heap)
  <2>1. PICK n : Took(Heap, n, k) /\ Moves(n, Heap')
    BY <1>2, ProcessTaskBegins DEF Began
  <2> QED
    BY <2>1 DEF Took, Moves, QueueStep, Live
<1>3. ASSUME NEW k \in Keys, VisitToQuit(k) \/ VisitToRemove(k)
      PROVE  Advanced
  BY <1>3, VisitToQuitAdvances, VisitToRemoveAdvances
<1>4. ASSUME EndWalk PROVE Advanced
  BY <1>4, EndWalkAdvances
<1>5. ASSUME NEW t \in Tasks, NEW cancels \in BOOLEAN,
             ServiceTaskDone(t, cancels)
      PROVE  Advanced
  BY <1>5, ServiceTaskDoneAdvances
<1>6. ASSUME NEW t \in Tasks, ClientTaskDone(t) \/ ProxyLost(t)
      PROVE  Advanced
  BY <1>6, ClientTaskDoneAdvances, ProxyLostAdvances
<1> QED
  BY <1>1, <1>2, <1>3, <1>4, <1>5, <1>6 DEF Loop, Walk, Network

(* set_quitting touches no queue.                                          *)
LEMMA SetQuittingLeavesQueues ==
    ASSUME IInv, SetQuitting
    PROVE  Live(Heap') = Live(Heap)
BY SetQuittingCloses DEF Closed, Live

(* A step of the daemon that is none of the processor.                     *)
LEMMA ProcessorRests ==
    ASSUME AccountInv, UNCHANGED vars
    PROVE  /\ AccountInv' /\ Live(Heap') = Live(Heap)
           /\ quitting' = quitting /\ onQuit' = onQuit /\ running' = running
<1>1. Heap' = Heap /\ quitting' = quitting /\ walk' = walk /\ queue' = queue
  BY DEF vars, Heap
<1> QED
  BY <1>1 DEF vars, AccountInv, IInv, Fated, Counted, Armed,
              Sound, ServiceNotCancelled, WalkOK, Stale, Live, Quiet, Busy

(* Nothing is left to be freed, or to call back, once on_quit_cb may run,  *)
(* nor when the service never started.                                     *)
LEMMA NothingLeft ==
    ASSUME MainInv, walk = NoWalk, quitRuns < onQuit \/ loopQuit
    PROVE  /\ Live(Heap) = {} /\ running = 0
           /\ \A t \in Tasks : ~task[t].inflight
<1>1. onQuit \in Nat /\ quitRuns \in Nat
  BY HeapIsState DEF MainInv, AccountInv, IInv, Sound, HeapType, Places
<1>2. quitting \/ service = "none"
  BY <1>1 DEF MainInv, Teardown, Places
<1>3. Live(Heap) = {}
  BY <1>2, EmptyAtRest DEF MainInv, Teardown
<1> QED
  BY <1>3, DrainedWhenEmpty DEF MainInv

-----------------------------------------------------------------------------
(***************************************************************************)
(* One lemma per action.                                                   *)
(***************************************************************************)

(* dleyna_main_loop_start up to g_main_loop_run.                           *)
LEMMA StartKeeps ==
    ASSUME MainInv, NEW loaded \in BOOLEAN, NEW initialized \in BOOLEAN,
           Start(loaded, initialized)
    PROVE  MainInv'
<1>1. /\ AccountInv' /\ Live(Heap') = Live(Heap)
      /\ quitting' = quitting /\ onQuit' = onQuit
  BY ProcessorRests DEF MainInv, Start
<1>2. Places'
  BY DEF MainInv, Places, Start
<1>3. Teardown'
  BY <1>1 DEF MainInv, Places, Teardown, Notified, Start
<1>4. Stages'
  BY <1>1 DEF MainInv, Teardown, Stages, Start
<1> QED
  BY <1>1, <1>2, <1>3, <1>4 DEF MainInv

(* prv_connector_acquired.                                                 *)
LEMMA ConnectorAcquiredKeeps ==
    ASSUME MainInv, NEW started \in BOOLEAN, ConnectorAcquired(started)
    PROVE  MainInv'
<1>1. /\ AccountInv' /\ Live(Heap') = Live(Heap)
      /\ quitting' = quitting /\ onQuit' = onQuit
  BY ProcessorRests DEF MainInv, ConnectorAcquired
<1>2. Places'
  BY DEF MainInv, Places, ConnectorAcquired
<1>3. Teardown'
  BY <1>1 DEF MainInv, Places, Teardown, Notified, ConnectorAcquired
<1>4. Stages'
  BY <1>1 DEF MainInv, Stages, ConnectorAcquired, Running
<1> QED
  BY <1>1, <1>2, <1>3, <1>4 DEF MainInv

(* dleyna_main_loop_quit.                                                  *)
LEMMA MainLoopQuitKeeps ==
    ASSUME MainInv, MainLoopQuit
    PROVE  MainInv'
<1>1. /\ AccountInv' /\ Live(Heap') = Live(Heap)
      /\ quitting' = quitting /\ onQuit' = onQuit
  BY ProcessorRests DEF MainInv, MainLoopQuit
<1>2. Places'
  BY RequestsAssumption DEF MainInv, Places, MainLoopQuit
<1>3. Teardown'
  BY <1>1 DEF MainInv, Places, Teardown, Notified, MainLoopQuit
<1>4. Stages'
  BY <1>1 DEF MainInv, Stages, MainLoopQuit
<1> QED
  BY <1>1, <1>2, <1>3, <1>4 DEF MainInv

(* prv_context_quit_cb: if a connection exists, it is closed and the       *)
(* service stopped; else there is nothing to stop.                         *)
LEMMA ContextQuitKeeps ==
    ASSUME MainInv, ContextQuit
    PROVE  MainInv'
<1>1. /\ AccountInv' /\ Live(Heap') = Live(Heap)
      /\ quitting' = quitting /\ onQuit' = onQuit
  BY ProcessorRests DEF MainInv, ContextQuit
<1>2. Places' /\ onQuit \in Nat
  BY HeapIsState DEF MainInv, Places, ContextQuit, AccountInv, IInv, Sound,
                     HeapType
<1>3. Live(Heap) = {}
  BY NothingLeft DEF ContextQuit, Running, Dispatching
<1>4. Teardown'
  BY <1>1, <1>2, <1>3 DEF MainInv, Places, Teardown, Notified, ContextQuit
<1>5. Stages'
  BY <1>1 DEF MainInv, Stages, ContextQuit, Running
<1> QED
  BY <1>1, <1>2, <1>4, <1>5 DEF MainInv

(* prv_context_mainloop_quit_cb.                                           *)
LEMMA TimerFiresKeeps ==
    ASSUME MainInv, TimerFires
    PROVE  MainInv'
<1>1. /\ AccountInv' /\ Live(Heap') = Live(Heap)
      /\ quitting' = quitting /\ onQuit' = onQuit
  BY ProcessorRests DEF MainInv, TimerFires
<1>2. Places'
  BY DEF MainInv, Places, TimerFires
<1>3. Teardown'
  BY <1>1 DEF MainInv, Places, Teardown, Notified, TimerFires
<1>4. Stages'
  BY <1>1 DEF MainInv, Stages, TimerFires
<1> QED
  BY <1>1, <1>2, <1>3, <1>4 DEF MainInv

(* set_quitting, called for whatever reason.                               *)
LEMMA QuitKeeps ==
    ASSUME MainInv, Contract = Clauses, SetQuitting
    PROVE  /\ AccountInv' /\ Live(Heap') = Live(Heap)
           /\ onQuit' > 0 => quitting'
           /\ quitRuns <= onQuit'
<1>1. /\ AccountInv' /\ onQuit' >= onQuit
      /\ onQuit' > 0 => quitting'
  BY OnQuitFollowsQuit DEF MainInv, Teardown, Next
<1>2. Live(Heap') = Live(Heap)
  BY SetQuittingLeavesQueues DEF MainInv, AccountInv
<1>3. onQuit \in Nat /\ onQuit' \in Nat /\ quitRuns \in Nat
  <2>1. Heap \in HeapType /\ Heap' \in HeapType
    BY <1>1 DEF MainInv, AccountInv, IInv, Sound
  <2> QED
    BY <2>1 DEF MainInv, Places, HeapType, Heap
<1> QED
  BY <1>1, <1>2, <1>3 DEF MainInv, Teardown

(* prv_name_lost.                                                          *)
LEMMA NameLostKeeps ==
    ASSUME MainInv, Contract = Clauses, NameLost
    PROVE  MainInv'
<1>1. /\ AccountInv' /\ Live(Heap') = Live(Heap)
      /\ onQuit' > 0 => quitting'
      /\ quitRuns <= onQuit'
  BY QuitKeeps DEF NameLost
<1>2. Places'
  BY DEF MainInv, Places, NameLost
<1>3. Teardown'
  BY <1>1 DEF MainInv, Places, Teardown, Notified, NameLost
<1>4. Stages'
  BY <1>1 DEF MainInv, Stages, NameLost, Running
<1> QED
  BY <1>1, <1>2, <1>3, <1>4 DEF MainInv

(* prv_set_quitting.                                                       *)
LEMMA DispatchSetQuittingKeeps ==
    ASSUME MainInv, Contract = Clauses, DispatchSetQuitting
    PROVE  MainInv'
<1>1. /\ AccountInv' /\ Live(Heap') = Live(Heap)
      /\ onQuit' > 0 => quitting'
      /\ quitRuns <= onQuit'
  BY QuitKeeps DEF DispatchSetQuitting
<1>2. Places'
  BY RequestsAssumption DEF MainInv, Places, DispatchSetQuitting
<1>3. Teardown'
  BY <1>1 DEF MainInv, Places, Teardown, Notified, DispatchSetQuitting
<1>4. Stages'
  BY <1>1 DEF MainInv, Stages, DispatchSetQuitting, Running
<1> QED
  BY <1>1, <1>2, <1>3, <1>4 DEF MainInv

(* A step of the processor: no queue is created before the service starts. *)
LEMMA ProcessorStepKeeps ==
    ASSUME MainInv, Contract = Clauses, ProcessorStep
    PROVE  MainInv'
<1>1. /\ [Next]_vars /\ UNCHANGED mainVars
      /\ service = "started" \/ Loop \/ Network
  BY DEF ProcessorStep, Next
<1>2. /\ AccountInv' /\ onQuit' >= onQuit
      /\ onQuit' > 0 => quitting'
  BY <1>1, OnQuitFollowsQuit DEF MainInv, Teardown
<1>3. service # "started" => Live(Heap') \subseteq Live(Heap)
  BY <1>1, OnlyCallersCreate DEF MainInv, AccountInv
<1>4. quitRuns <= onQuit'
  <2>1. Heap \in HeapType /\ Heap' \in HeapType
    BY <1>2 DEF MainInv, AccountInv, IInv, Sound
  <2>2. onQuit \in Nat /\ onQuit' \in Nat /\ quitRuns \in Nat
    BY <2>1 DEF MainInv, Places, HeapType, Heap
  <2> QED
    BY <2>2, <1>2 DEF MainInv, Teardown
<1>5. Places'
  BY <1>1 DEF MainInv, Places, mainVars
<1>6. Teardown'
  BY <1>1, <1>2, <1>3, <1>4 DEF MainInv, Places, Teardown, Notified, mainVars
<1>7. Stages'
  BY <1>1 DEF MainInv, Stages, mainVars, ProcessorStep
<1> QED
  BY <1>2, <1>5, <1>6, <1>7 DEF MainInv

(* The end of dleyna_main_loop_start: the table of queues is empty.        *)
LEMMA LoopReturnsKeeps ==
    ASSUME MainInv, LoopReturns
    PROVE  MainInv'
<1>1. /\ Live(Heap) = {} /\ Sound(Heap, None) /\ Fated(Heap)
      /\ Become(RemoveAll(Heap)) /\ UNCHANGED <<quitting, walk>>
      /\ IInv /\ Dispatching
  BY NothingLeft
     DEF LoopReturns, Running, Dispatching, MainInv, AccountInv, IInv
<1> DEFINE K == {}
           h == RemoveQueues(Heap, K)
<1>2. Become(h) /\ h = RemoveQueues(Heap, K) /\ K \in SUBSET Live(Heap)
  BY <1>1 DEF RemoveAll
<1>3. \A k \in K : Heap.queue[k].current = None /\ ~Heap.queue[k].idle
  OBVIOUS
<1>4. K \subseteq {}
  OBVIOUS
<1> HIDE DEF h, K
<1>5. /\ Sound(h, None) /\ \A k \in Keys \ K : h.queue[k] = Heap.queue[k]
  BY <1>1, <1>2, <1>3, RemoveQueuesSound
<1>6. Leads(Heap, h) /\ Fated(h) /\ h.onQuit = Heap.onQuit
  BY <1>1, <1>2, <1>3, RemoveQueuesLeads, RemoveQueuesEffect
<1>7. /\ Heap' = h /\ \A k \in Keys : queue'[k] = queue[k]
      /\ onQuit' = onQuit
  BY <1>2, <1>4, <1>5, <1>6, HeapIsState, BecomeEffect
     DEF Sound, Become
<1>8. Live(Heap') = {}
  BY <1>1, <1>7, HeapIsState DEF Live, Heap
<1>9. AccountInv'
  <2>1. Sound(Heap', None) /\ Fated(Heap')
    BY <1>5, <1>6, <1>7
  <2>2. ServiceNotCancelled'
    BY <1>1, <1>7, ConstantsAssumption DEF IInv, ServiceNotCancelled
  <2>3. WalkOK' /\ quitting' \in BOOLEAN
    BY <1>1, <1>8 DEF IInv, WalkOK, Dispatching, NoWalk
  <2>4. Counted(Heap') /\ Armed(Heap)'
    BY <1>1, <1>6, <1>7 DEF MainInv, AccountInv, Leads, Moves, Armed
  <2> QED
    BY <2>1, <2>2, <2>3, <2>4 DEF AccountInv, IInv, Fated, Counted
<1>10. Places'
  BY DEF MainInv, Places, LoopReturns
<1>11. Teardown'
  BY <1>1, <1>7, <1>8 DEF MainInv, Places, Teardown, Notified, LoopReturns
<1>12. Stages'
  BY <1>1, <1>8 DEF MainInv, Places, Stages, Teardown, LoopReturns
<1> QED
  BY <1>9, <1>10, <1>11, <1>12 DEF MainInv

(* One step per action.                                                    *)
LEMMA MainNextKeeps ==
    ASSUME MainInv, Contract = Clauses, [MainNext]_allVars
    PROVE  MainInv'
<1>1. CASE UNCHANGED allVars
  <2>1. UNCHANGED vars /\ UNCHANGED mainVars
    BY <1>1 DEF allVars, vars, mainVars
  <2>2. /\ AccountInv' /\ Live(Heap') = Live(Heap)
        /\ quitting' = quitting /\ onQuit' = onQuit
    BY <2>1, ProcessorRests DEF MainInv
  <2> QED
    BY <2>1, <2>2 DEF MainInv, Places, Teardown, Notified, Stages, mainVars
<1>2. ASSUME NEW loaded \in BOOLEAN, NEW initialized \in BOOLEAN,
             Start(loaded, initialized)
      PROVE  MainInv'
  BY <1>2, StartKeeps
<1>3. ASSUME NEW started \in BOOLEAN, ConnectorAcquired(started)
      PROVE  MainInv'
  BY <1>3, ConnectorAcquiredKeeps
<1>4. CASE NameLost
  BY <1>4, NameLostKeeps
<1>5. CASE MainLoopQuit
  BY <1>5, MainLoopQuitKeeps
<1>6. CASE DispatchSetQuitting
  BY <1>6, DispatchSetQuittingKeeps
<1>7. CASE ContextQuit
  BY <1>7, ContextQuitKeeps
<1>8. CASE TimerFires
  BY <1>8, TimerFiresKeeps
<1>9. CASE LoopReturns
  BY <1>9, LoopReturnsKeeps
<1>10. CASE ProcessorStep
  BY <1>10, ProcessorStepKeeps
<1> QED
  BY <1>1, <1>2, <1>3, <1>4, <1>5, <1>6, <1>7, <1>8, <1>9, <1>10 DEF MainNext

-----------------------------------------------------------------------------
(***************************************************************************)
(* Theorems.                                                               *)
(***************************************************************************)

(* As long as the callers of the processor keep the contract, the daemon   *)
(* and its task processor agree at every step on how far a quit has come.  *)
THEOREM MainInvariant ==
    ASSUME Contract = Clauses
    PROVE  MainSpec => []MainInv
<1>1. MainInit => MainInv
  <2>1. ASSUME MainInit PROVE Live(Heap) = {} /\ AccountInv
    <3>1. AccountInv
      BY <2>1, InitEstablishesFullInv DEF MainInit, FullInv
    <3>2. Live(Heap) = {}
      BY <2>1, HeapIsState DEF MainInit, Init, NoQueue
    <3> QED
      BY <3>1, <3>2
  <2>2. ASSUME MainInit PROVE Places
    <3>1. /\ stage = "starting" /\ connector = "none"
          /\ connection = "unset" /\ service = "none"
          /\ controlPoint = "none" /\ retval = 1
      BY <2>2 DEF MainInit
    <3>2. error \in BOOLEAN /\ loopQuit \in BOOLEAN
      BY <2>2 DEF MainInit
    <3>3. /\ quitRuns \in Nat /\ timers \in Nat /\ disconnects \in Nat
          /\ requests \in 0..MaxRequests /\ pending \in 0..requests
          /\ held \in [from : Nat, to : Nat]
      BY <2>2, RequestsAssumption DEF MainInit
    <3> QED
      BY <3>1, <3>2, <3>3 DEF Places
  <2>3. ASSUME MainInit PROVE Teardown
    <3>1. ~error /\ ~loopQuit
      BY <2>3 DEF MainInit
    <3>2. /\ service = "none" /\ connection = "unset"
          /\ quitRuns <= onQuit /\ ~(timers > 0) /\ ~(disconnects > 0)
          /\ ~(onQuit > 0)
      BY <2>3 DEF MainInit, Init
    <3> QED
      BY <2>1, <2>3, <3>1, <3>2 DEF Teardown, Notified
  <2>4. MainInit => Stages
    BY DEF MainInit, Stages
  <2> QED
    BY <2>1, <2>2, <2>3, <2>4 DEF MainInv
<1>2. MainInv /\ [MainNext]_allVars => MainInv'
  BY MainNextKeeps
<1> QED
  BY <1>1, <1>2, PTL DEF MainSpec

(* Every state of the daemon has its type.                                 *)
THEOREM MainTypeCorrect ==
    ASSUME Contract = Clauses
    PROVE  MainSpec => []MainTypeOK
<1>1. AccountInv => TypeOK
  BY HeapIsState DEF AccountInv, IInv, Sound, HeapType, WalkOK, TypeOK
<1>2. MainInv => MainTypeOK
  BY <1>1, RequestsAssumption DEF MainInv, Places, Stages, MainTypeOK
<1> QED
  BY <1>2, MainInvariant, PTL

(* When dleyna_main_loop_start frees the processor, which it does after    *)
(* the control point, the table of queues is empty: no callback reaches a  *)
(* control point that is gone.                                             *)
THEOREM FreedControlPointIsLeftAlone ==
    ASSUME Contract = Clauses
    PROVE  MainSpec => []NoCallbackAfterFree
<1>1. MainInv => NoCallbackAfterFree
  BY DEF MainInv, Stages, NoCallbackAfterFree
<1> QED
  BY <1>1, MainInvariant, PTL

(* dleyna_main_loop_start gives back what it took on every path, and       *)
(* reports success only after the processor has drained.                   *)
THEOREM MainReturnsCleanly ==
    ASSUME Contract = Clauses
    PROVE  MainSpec => []ReturnsCleanly
<1>1. ASSUME MainInv, stage = "returned"
      PROVE  /\ connector # "connected"
             /\ controlPoint # "initialized"
             /\ Live(Heap) = {}
             /\ retval = 0 => quitting /\ quitRuns > 0 /\ running = 0
  <2>1. /\ connector # "connected" /\ controlPoint # "initialized"
        /\ Live(Heap) = {} /\ (retval = 0 => quitRuns > 0)
    BY <1>1 DEF MainInv, Stages
  <2>2. running = 0
    BY <2>1, <1>1, DrainedWhenEmpty DEF MainInv
  <2>3. quitRuns > 0 => quitting
    <3>1. onQuit \in Nat /\ quitRuns \in Nat
      BY <1>1, HeapIsState
         DEF MainInv, AccountInv, IInv, Sound, HeapType, Places
    <3> QED
      BY <3>1, <1>1 DEF MainInv, Teardown
  <2> QED
    BY <2>1, <2>2, <2>3
<1>2. MainInv => ReturnsCleanly
  BY <1>1 DEF ReturnsCleanly
<1> QED
  BY <1>2, MainInvariant, PTL

(* Every quit callback that ran while the connection was there stopped the *)
(* service, however often it was asked to and whenever the name was lost.  *)
THEOREM StartedServiceIsStopped ==
    ASSUME Contract = Clauses
    PROVE  MainSpec => []ServiceStopped
<1>1. MainInv => ServiceStopped
  BY DEF MainInv, Places, Teardown, Notified, ServiceStopped
<1> QED
  BY <1>1, MainInvariant, PTL

(* When prv_context_quit_cb runs, no queue is left and no operation is in  *)
(* flight.                                                                 *)
THEOREM OnQuitFindsNoQueue ==
    ASSUME Contract = Clauses
    PROVE  MainSpec => QueuesRemovedBeforeOnQuit
<1>1. ASSUME MainInv, MainNext, quitRuns' # quitRuns
      PROVE  Live(Heap) = {} /\ \A t \in Tasks : ~task[t].inflight
  <2>1. ContextQuit
    BY <1>1 DEF MainNext, Start, ConnectorAcquired, NameLost, MainLoopQuit,
                DispatchSetQuitting, TimerFires, LoopReturns, ProcessorStep,
                mainVars
  <2> QED
    BY <1>1, <2>1, NothingLeft DEF ContextQuit, Running, Dispatching
<1>2. MainInv /\ [MainNext]_allVars =>
         [quitRuns' # quitRuns =>
             Live(Heap) = {} /\ \A t \in Tasks : ~task[t].inflight]_allVars
  BY <1>1
<1> QED
  BY <1>2, MainInvariant, PTL DEF MainSpec, QueuesRemovedBeforeOnQuit

=============================================================================
