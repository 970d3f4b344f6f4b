---------------------- MODULE TaskProcessorRefinement ----------------------
(* The task processor keeps the promise of SerialQueues.                   *)
EXTENDS TaskProcessor

Promise == INSTANCE SerialQueues WITH
    life <- [k \in Keys |-> queue[k].mem],
    waiting <- [k \in Keys |-> queue[k].tasks],
    active <- [k \in Keys |-> queue[k].current],
    ended <- {t \in Tasks : task[t].mem = "freed"},
    done <- {t \in Tasks : task[t].fate = "done"},
    closed <- quitting

(* Between any two events, whatever callbacks an event ran and however     *)
(* they called the processor back, each queue made a step that clients of  *)
(* a serial queue may see: no task overtakes another, runs beside another, *)
(* leaves twice, is lost with its queue or begins after set_quitting.      *)
ImplementsSerialQueues == Promise!Spec
=============================================================================
