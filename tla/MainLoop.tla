----------------------------- MODULE MainLoop -----------------------------
(***************************************************************************)
(* The life of the daemon (main-loop.c): it loads a connector, initialises *)
(* the control point, runs the main loop, and tears everything down.  The  *)
(* task processor of TaskProcessor is a part of it: the main loop is what  *)
(* dispatches the processor's sources, and the processor decides when      *)
(* prv_context_quit_cb, its on_quit_cb, is scheduled.                      *)
(***************************************************************************)
EXTENDS TaskProcessor

CONSTANTS
    MaxRequests    \* bound on the calls of dleyna_main_loop_quit

ASSUME RequestsAssumption == MaxRequests \in Nat

VARIABLES
    stage,         \* where dleyna_main_loop_start is
    connector,     \* g_context.connector
    connection,    \* g_context.connection: unset, set, or NULL again
    service,       \* start_service and stop_service of the control point
    controlPoint,  \* initialize and free of the control point
    error,         \* g_context.error: start_service failed
    requests,      \* calls of dleyna_main_loop_quit so far
    pending,       \* prv_set_quitting sources not yet dispatched
    quitRuns,      \* how often prv_context_quit_cb was dispatched
    timers,        \* pending prv_context_mainloop_quit_cb
    loopQuit,      \* g_main_loop_quit was called
    disconnects,   \* calls of connector->disconnect
    held,          \* history: how many quit callbacks had run when the
                   \* connection was made, and when it was lost
    late,          \* queues freed after the control point was
    retval         \* result of dleyna_main_loop_start

mainVars == <<stage, connector, connection, service, controlPoint, error, requests,
              pending, quitRuns, timers, loopQuit, disconnects, held, late,
              retval>>

allVars == <<queue, task, running, quitting, onQuit, sources, walk, fault,
             stage, connector, connection, service, controlPoint, error, requests,
             pending, quitRuns, timers, loopQuit, disconnects, held, late, retval>>

MainTypeOK ==
    /\ TypeOK
    /\ stage \in {"starting", "running", "returned"}
    /\ connector \in {"none", "connected", "released"}
    /\ connection \in {"unset", "set", "lost"}
    /\ service \in {"none", "started", "stopped"}
    /\ controlPoint \in {"none", "initialized", "freed"}
    /\ error \in BOOLEAN
    /\ requests \in 0..MaxRequests
    /\ pending \in 0..MaxRequests
    /\ quitRuns \in Nat
    /\ timers \in Nat
    /\ loopQuit \in BOOLEAN
    /\ disconnects \in Nat
    /\ held \in [from : Nat, to : Nat]
    /\ late \in SUBSET Keys
    /\ retval \in {0, 1}

MainInit ==
    /\ Init
    /\ stage = "starting"
    /\ connector = "none"
    /\ connection = "unset"
    /\ service = "none"
    /\ controlPoint = "none"
    /\ error = FALSE
    /\ requests = 0 /\ pending = 0
    /\ quitRuns = 0 /\ timers = 0
    /\ loopQuit = FALSE
    /\ disconnects = 0
    /\ held = [from |-> 0, to |-> 0]
    /\ late = {}
    /\ retval = 1

-----------------------------------------------------------------------------
(* dleyna_main_loop_start up to g_main_loop_run.  Loading the connector or *)
(* initialising it can fail; what was loaded is then shut down and         *)
(* released by prv_context_free, and the control point is never used.      *)
Start(loaded, initialized) ==
    /\ stage = "starting"
    /\ initialized => loaded
    /\ IF initialized
       THEN /\ stage' = "running"
            /\ connector' = "connected"
            /\ controlPoint' = "initialized"
       ELSE /\ stage' = "returned"
            /\ connector' = IF loaded THEN "released" ELSE "none"
            /\ UNCHANGED controlPoint
    /\ UNCHANGED <<connection, service, error, requests, pending, quitRuns, timers,
                   loopQuit, disconnects, held, late, retval>>
    /\ UNCHANGED vars

Running == stage = "running" /\ Dispatching

(* Slip: g_context.error is not set when the service cannot start.         *)
ConnectorAcquiredSilent(started) ==
    /\ Running
    /\ connection = "unset"
    /\ connection' = "set"
    /\ IF started THEN service' = "started" /\ UNCHANGED loopQuit
                  ELSE loopQuit' = TRUE /\ UNCHANGED service
    /\ held' = [held EXCEPT !.from = quitRuns]
    /\ UNCHANGED <<stage, connector, controlPoint, error, requests, pending,
                   quitRuns, timers, disconnects, late, retval>>
    /\ UNCHANGED vars

(* prv_connector_acquired: the main loop ends if the service cannot start. *)
ConnectorAcquired(started) ==
    /\ Running
    /\ connection = "unset"
    /\ connection' = "set"
    /\ IF started THEN service' = "started" /\ UNCHANGED <<error, loopQuit>>
                  ELSE error' = TRUE /\ loopQuit' = TRUE /\ UNCHANGED service
    /\ held' = [held EXCEPT !.from = quitRuns]
    /\ UNCHANGED <<stage, connector, controlPoint, requests, pending, quitRuns,
                   timers, disconnects, late, retval>>
    /\ UNCHANGED vars

(* prv_name_lost: the connection is gone, so that nothing will disconnect  *)
(* it or stop the service.                                                 *)
NameLost ==
    /\ Running
    /\ connection # "lost"
    /\ connection' = "lost"
    /\ held' = [held EXCEPT !.to = quitRuns]
    /\ SetQuitting
    /\ UNCHANGED <<stage, connector, service, controlPoint, error, requests, pending,
                   quitRuns, timers, loopQuit, disconnects, late, retval>>

(* Slip: the main loop is left at once, without draining the processor.    *)
MainLoopQuitAtOnce ==
    /\ Running
    /\ requests < MaxRequests
    /\ requests' = requests + 1
    /\ loopQuit' = TRUE
    /\ UNCHANGED <<stage, connector, connection, service, controlPoint, error,
                   pending, quitRuns, timers, disconnects, held, late, retval>>
    /\ UNCHANGED vars

(* dleyna_main_loop_quit, called by a signal handler or when the last      *)
(* client has gone.                                                        *)
MainLoopQuit ==
    /\ Running
    /\ requests < MaxRequests
    /\ requests' = requests + 1
    /\ pending' = pending + 1
    /\ UNCHANGED <<stage, connector, connection, service, controlPoint, error,
                   quitRuns, timers, loopQuit, disconnects, held, late, retval>>
    /\ UNCHANGED vars

(* prv_set_quitting.                                                       *)
DispatchSetQuitting ==
    /\ Running
    /\ pending > 0
    /\ pending' = pending - 1
    /\ SetQuitting
    /\ UNCHANGED <<stage, connector, connection, service, controlPoint, error,
                   requests, quitRuns, timers, loopQuit, disconnects, held, late,
                   retval>>

(* Slip: the timer that ends the main loop is started only for a service   *)
(* that is to be stopped.                                                  *)
ContextQuitOnlyConnected ==
    /\ Running
    /\ quitRuns < onQuit
    /\ quitRuns' = quitRuns + 1
    /\ IF connection = "set"
       THEN /\ timers' = timers + 1
            /\ disconnects' = disconnects + 1 /\ service' = "stopped"
       ELSE UNCHANGED <<timers, disconnects, service>>
    /\ UNCHANGED <<stage, connector, connection, controlPoint, error, requests,
                   pending, loopQuit, held, late, retval>>
    /\ UNCHANGED vars

(* Slip: the connection is left as it is, and the service too.             *)
ContextQuitTimerOnly ==
    /\ Running
    /\ quitRuns < onQuit
    /\ quitRuns' = quitRuns + 1
    /\ timers' = timers + 1
    /\ UNCHANGED <<stage, connector, connection, service, controlPoint, error,
                   requests, pending, loopQuit, disconnects, held, late, retval>>
    /\ UNCHANGED vars

(* prv_context_quit_cb.  The connection is not reset.                      *)
ContextQuit ==
    /\ Running
    /\ quitRuns < onQuit
    /\ quitRuns' = quitRuns + 1
    /\ timers' = timers + 1
    /\ IF connection = "set"
       THEN disconnects' = disconnects + 1 /\ service' = "stopped"
       ELSE UNCHANGED <<disconnects, service>>
    /\ UNCHANGED <<stage, connector, connection, controlPoint, error, requests,
                   pending, loopQuit, held, late, retval>>
    /\ UNCHANGED vars

(* prv_context_mainloop_quit_cb, one second after prv_context_quit_cb.     *)
TimerFires ==
    /\ Running
    /\ timers > 0
    /\ timers' = timers - 1
    /\ loopQuit' = TRUE
    /\ UNCHANGED <<stage, connector, connection, service, controlPoint, error,
                   requests, pending, quitRuns, disconnects, held, late, retval>>
    /\ UNCHANGED vars

(* The end of dleyna_main_loop_start: the control point is freed first,    *)
(* then the processor with the queues still in its table.                  *)
LoopReturns ==
    /\ Running
    /\ loopQuit
    /\ stage' = "returned"
    /\ controlPoint' = "freed"
    /\ late' = Live(Heap)
    /\ Become(RemoveAll(Heap))
    /\ connector' = "released"
    /\ retval' = IF error THEN 1 ELSE 0
    /\ UNCHANGED <<quitting, walk, connection, service, error, requests,
                   pending, quitRuns, timers, loopQuit, disconnects, held>>

(* Work for the processor comes from the control point while its service   *)
(* is up; the main loop dispatches the rest.                               *)
ProcessorStep ==
    /\ stage = "running"
    /\ \/ service = "started" /\ Caller
       \/ Loop
       \/ Network
    /\ UNCHANGED mainVars

MainNext ==
    \/ \E loaded, initialized \in BOOLEAN : Start(loaded, initialized)
    \/ \E started \in BOOLEAN : ConnectorAcquired(started)
    \/ NameLost \/ MainLoopQuit \/ DispatchSetQuitting
    \/ ContextQuit \/ TimerFires \/ LoopReturns
    \/ ProcessorStep

MainSpec == MainInit /\ [][MainNext]_allVars

(* What the steps of Walk, and no others, do to a walk in progress; as     *)
(* plain as this, TLC decides quickly whether it is enabled.               *)
WalkGoesOn ==
    /\ stage = "running" /\ fault = "none" /\ walk.op # "none"
    /\ walk' \in {NoWalk} \cup {[walk EXCEPT !.todo = left] : left \in SUBSET walk.todo}

(* The walk of set_quitting ends, the main loop dispatches what is         *)
(* pending, and a timer of one second fires.                               *)
MainFairness ==
    /\ WF_walk(WalkGoesOn)
    /\ WF_allVars(ContextQuit)
    /\ WF_allVars(TimerFires)
    /\ WF_allVars(LoopReturns)

MainFairSpec == MainSpec /\ MainFairness

-----------------------------------------------------------------------------
(* ChangeLog, version 0.6.0: "Remove all queues before                     *)
(* dleyna_task_processor_t->on_quit_cb is run".  When prv_context_quit_cb  *)
(* disconnects and stops the service, no queue is left and no operation is *)
(* in flight that could call back into them.                               *)
QueuesRemovedBeforeOnQuit ==
    [][quitRuns' # quitRuns =>
          Live(Heap) = {} /\ \A t \in Tasks : ~task[t].inflight]_allVars

(* ChangeLog, version 0.6.0: "Don't schedule                               *)
(* dleyna_task_processor_t->on_quit_cb more than once".                    *)
OnQuitOnce == onQuit <= 1

(* No callback into a freed control point: prv_context_free frees the      *)
(* processor after the control point, so its table must be empty by then.  *)
NoCallbackAfterFree == late = {}

(* dleyna_main_loop_start returns with everything it took given back, on   *)
(* every path; and it reports success only if the loop was ended by the    *)
(* quit callback, after the processor had drained.                         *)
ReturnsCleanly ==
    stage = "returned" =>
        /\ connector # "connected"
        /\ controlPoint # "initialized"
        /\ Live(Heap) = {}
        /\ retval = 0 => quitting /\ quitRuns > 0 /\ running = 0

(* The quit callbacks that ran while the connection was there.             *)
Notified == (IF connection = "lost" THEN held.to ELSE quitRuns) - held.from

(* Every quit callback that ran between the moment the connection was made *)
(* and the moment it was lost, if it was, has disconnected and stopped the *)
(* service, and nothing else has: a service that still runs when           *)
(* dleyna_main_loop_start returns had its connection taken away before the *)
(* first such callback, or made after the last.                            *)
ServiceStopped ==
    stage = "returned" /\ service # "none" =>
        /\ disconnects = Notified
        /\ service = "stopped" <=> Notified > 0

(* Once the processor is quitting, dleyna_main_loop_start returns.         *)
QuittingReturns == quitting ~> stage = "returned"

=============================================================================
