---------------------------- MODULE SerialQueues ----------------------------
(***************************************************************************)
(* What the task processor promises the control points: every queue runs   *)
(* its tasks one at a time and in the order in which they were added; each *)
(* task leaves the processor once, when it is over or when the queue drops *)
(* it; a queue that is removed leaves nothing behind; and nothing begins   *)
(* once the processor is closed.                                           *)
(***************************************************************************)
EXTENDS Naturals, Sequences

CONSTANTS Keys, Tasks, None

VARIABLES
    life,     \* of each queue: "unused", "live" or "freed"
    waiting,  \* the tasks that wait in each queue
    active,   \* the task that each queue runs
    ended,    \* the tasks that left the processor
    done,     \* those of them that ran and were not cancelled
    closed    \* no task is taken, or begun, any more

vars == <<life, waiting, active, ended, done, closed>>

Init ==
    /\ life = [k \in Keys |-> "unused"]
    /\ waiting = [k \in Keys |-> <<>>]
    /\ active = [k \in Keys |-> None]
    /\ ended = {} /\ done = {}
    /\ closed = FALSE

InQueue(k, ws, a) == {ws[i] : i \in DOMAIN ws} \cup ({a} \ {None})

Held == UNION {InQueue(k, waiting[k], active[k]) : k \in Keys}

-----------------------------------------------------------------------------
Create(k) ==
    /\ ~closed /\ life[k] = "unused"
    /\ life' = [life EXCEPT ![k] = "live"]
    /\ UNCHANGED <<waiting, active, ended, done, closed>>

Submit(k, t) ==
    /\ ~closed /\ life[k] = "live" /\ t \notin Held \cup ended
    /\ waiting' = [waiting EXCEPT ![k] = Append(@, t)]
    /\ UNCHANGED <<life, active, ended, done, closed>>

(* What one event does to a queue: nothing; its next task begins, and may  *)
(* be over before the event is; the task it runs is over; and it may drop  *)
(* all tasks that wait.                                                    *)
Ready(k) == ~closed /\ active[k] = None /\ waiting[k] # <<>>

Begins(k) ==
    /\ Ready(k)
    /\ active'[k] = Head(waiting[k]) /\ waiting'[k] = Tail(waiting[k])

Runs(k) ==
    /\ Ready(k)
    /\ active'[k] = None /\ waiting'[k] \in {Tail(waiting[k]), <<>>}

Ends(k) == active'[k] = None /\ waiting'[k] \in {waiting[k], <<>>}

Stays(k) == active'[k] = active[k] /\ waiting'[k] \in {waiting[k], <<>>}

(* The task of a queue that can be over when the event is.                 *)
Turn(k) ==
    IF active[k] # None THEN {active[k]}
    ELSE IF Ready(k) THEN {Head(waiting[k])} ELSE {}

(* A queue that is removed lets go of all its tasks.                       *)
Lives(k) ==
    \/ life'[k] = life[k]
    \/ life[k] = "live" /\ life'[k] = "freed" /\ waiting'[k] = <<>> /\ active'[k] = None

Advance ==
    /\ \A k \in Keys : (Begins(k) \/ Runs(k) \/ Ends(k) \/ Stays(k)) /\ Lives(k)
    /\ ended' = ended \cup (Held \ Held')
    /\ done \subseteq done'
    /\ done' \ done \subseteq (Held \ Held') \cap UNION {Turn(k) : k \in Keys}
    /\ UNCHANGED closed

Close == ~closed /\ closed' = TRUE /\ UNCHANGED <<life, waiting, active, ended, done>>

Next ==
    \/ \E k \in Keys : Create(k) \/ \E t \in Tasks : Submit(k, t)
    \/ Advance
    \/ Close

Spec == Init /\ [][Next]_vars
=============================================================================
